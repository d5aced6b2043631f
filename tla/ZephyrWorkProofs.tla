-------------------------- MODULE ZephyrWorkProofs --------------------------
(***************************************************************************)
(* What the operations of ZephyrWork do to a set of flags and to a queue   *)
(* that holds an item at most once, whatever the items are.                *)
(***************************************************************************)
EXTENDS ZephyrWork, SequenceTheorems, TLAPS

(* Flags. *)

\* Every operation of ZephyrWork yields a set of flags.
LEMMA FlagOps ==
    ASSUME NEW flags \in SUBSET Flags
    PROVE  /\ Submit(flags) \in SUBSET Flags
           /\ Schedule(flags) \in SUBSET Flags
           /\ Expire(flags) \in SUBSET Flags
           /\ Cancel(flags) \in SUBSET Flags
           /\ Run(flags) \in SUBSET Flags
           /\ Return(flags) \in SUBSET Flags
  BY DEF Submit, Schedule, Expire, Cancel, Run, Return, Flags

\* Which operations keep, and which one may add, the "queued" flag.
LEMMA QueuedFlag ==
    ASSUME NEW flags \in SUBSET Flags
    PROVE  /\ "queued" \in flags => /\ "queued" \in Schedule(flags)
                                    /\ "queued" \in Submit(flags)
                                    /\ "queued" \in Expire(flags)
                                    /\ "queued" \in Return(flags)
           /\ "queued" \in Schedule(flags) => "queued" \in flags
           /\ "queued" \in Return(flags) => "queued" \in flags
  BY DEF Submit, Schedule, Expire, Return

\* The flags of a handler that runs change only where the thread takes an item,
\* where its handler returns and where the item is cancelled.
LEMMA RunningFlags ==
    ASSUME NEW flags \in SUBSET Flags, NEW flag \in {"running", "canceling"}
    PROVE  /\ flag \in Schedule(flags) <=> flag \in flags
           /\ flag \in Submit(flags) <=> flag \in flags
           /\ flag \in Expire(flags) <=> flag \in flags
           /\ flag \notin Return(flags)
  BY DEF Schedule, Submit, Expire, Return

-----------------------------------------------------------------------------
(* Queues. *)

\* Appending an item that is not in a queue keeps its items apart.
LEMMA AppendItem ==
    ASSUME NEW Items, NEW queue \in Seq(Items), NEW item \in Items,
           \A i \in 1 .. Len(queue) : queue[i] # item,
           \A i, j \in 1 .. Len(queue) : queue[i] = queue[j] => i = j
    PROVE  /\ \A i \in 1 .. Len(Append(queue, item)) :
                  \/ i \in 1 .. Len(queue) /\ Append(queue, item)[i] = queue[i]
                  \/ i = Len(queue) + 1 /\ Append(queue, item)[i] = item
           /\ \A i, j \in 1 .. Len(Append(queue, item)) :
                  Append(queue, item)[i] = Append(queue, item)[j] => i = j
<1>1. \A i \in 1 .. Len(Append(queue, item)) :
          \/ i \in 1 .. Len(queue) /\ Append(queue, item)[i] = queue[i]
          \/ i = Len(queue) + 1 /\ Append(queue, item)[i] = item
  OBVIOUS
<1> QED
  BY <1>1

\* Without takes one item out of a queue and leaves the others, in place or one
\* place further to the front.
LEMMA WithoutItem ==
    ASSUME NEW Items, NEW queue \in Seq(Items), NEW item \in Items,
           \A i, j \in 1 .. Len(queue) : queue[i] = queue[j] => i = j
    PROVE  /\ Without(queue, item) \in Seq(Items)
           /\ \A i \in 1 .. Len(Without(queue, item)) :
                  /\ Without(queue, item)[i] # item
                  /\ \E k \in 1 .. Len(queue) : Without(queue, item)[i] = queue[k]
           /\ \A i, j \in 1 .. Len(Without(queue, item)) :
                  Without(queue, item)[i] = Without(queue, item)[j] => i = j
<1>0. DOMAIN queue = 1 .. Len(queue) /\ Len(queue) \in Nat
  OBVIOUS
<1>1. CASE \A i \in DOMAIN queue : queue[i] # item
  BY <1>0, <1>1 DEF Without
<1>2. CASE \E i \in DOMAIN queue : queue[i] = item
  <2> DEFINE k == CHOOSE i \in DOMAIN queue : queue[i] = item
             rest == [i \in 1 .. Len(queue) - 1 |-> IF i < k THEN queue[i] ELSE queue[i + 1]]
  <2>1. Without(queue, item) = rest
    BY <1>2 DEF Without
  <2>2. k \in 1 .. Len(queue) /\ queue[k] = item
    BY <1>0, <1>2
  <2> HIDE DEF k
  <2>3. Len(queue) - 1 \in Nat
    BY <1>0, <2>2
  <2>4. rest \in [1 .. Len(queue) - 1 -> Items]
    BY <1>0, <2>2
  <2>5. rest \in Seq(Items) /\ Len(rest) = Len(queue) - 1
    BY <2>3, <2>4, SeqDef
  <2>6. \A i \in 1 .. Len(queue) - 1 :
            /\ rest[i] # item
            /\ \E n \in 1 .. Len(queue) : rest[i] = queue[n]
    <3> TAKE i \in 1 .. Len(queue) - 1
    <3>1. CASE i < k
      BY <1>0, <2>2, <2>3, <3>1
    <3>2. CASE ~(i < k)
      <4>1. i + 1 \in 1 .. Len(queue) /\ i + 1 # k /\ rest[i] = queue[i + 1]
        BY <1>0, <2>2, <2>3, <3>2
      <4> QED
        BY <4>1, <2>2
    <3> QED
      BY <3>1, <3>2
  <2>7. \A i, j \in 1 .. Len(queue) - 1 : rest[i] = rest[j] => i = j
    <3> SUFFICES ASSUME NEW i \in 1 .. Len(queue) - 1, NEW j \in 1 .. Len(queue) - 1,
                        rest[i] = rest[j]
                 PROVE  i = j
      OBVIOUS
    <3> DEFINE from(n) == IF n < k THEN n ELSE n + 1
    <3>1. from(i) \in 1 .. Len(queue) /\ from(j) \in 1 .. Len(queue)
      BY <1>0, <2>2, <2>3
    <3>2. rest[i] = queue[from(i)] /\ rest[j] = queue[from(j)]
      BY <2>2, <2>3
    <3>3. from(i) = from(j)
      BY <3>1, <3>2
    <3> QED
      BY <3>3, <1>0, <2>2, <2>3
  <2> HIDE DEF rest
  <2> QED
    BY <2>1, <2>5, <2>6, <2>7
<1> QED
  BY <1>1, <1>2

=============================================================================
