---------------------------- MODULE UplinkProofs ----------------------------
(***************************************************************************)
(* What is in the packets.                                                 *)
(*                                                                         *)
(* Every request that leaves room for its longest pieces is sent whole:    *)
(* while the text fits, index is where it ends.  FoldLeft is defined by a  *)
(* CHOOSE; that there is a function to choose is shown by adding one piece *)
(* after the other.                                                        *)
(*                                                                         *)
(* What a packet says of the battery, proved for every voltage and not     *)
(* only for the range Voltages that TLC tries: the state of charge rises   *)
(* with the voltage, from 0 to 100, and the loop of                        *)
(* liion_soc_from_voltage() always returns (battery.cpp:50, "should never  *)
(* hit").                                                                  *)
(*                                                                         *)
(* The table is cut into its eleven segments.  Within one, the             *)
(* interpolation rises from the charge at its lower end to the charge at   *)
(* its upper end; at a voltage where two meet both give the same charge,   *)
(* so it does not matter that the loop returns in the first.               *)
(***************************************************************************)
EXTENDS NetworkRequestsProofs, Uplink, TLAPS
LOCAL INSTANCE FiniteSetsExt
LOCAL INSTANCE SequencesExt

Segment == 1 .. 11
TableRange == 3000 .. 4200

\* The interpolation in one segment.
Interpolated(i, v) ==
    table[i].soc + ((v - table[i].v) * (table[i + 1].soc - table[i].soc))
                       \div (table[i + 1].v - table[i].v)

\* v lies in segment i and in none before it.
FirstIn(i, v) == table[i].v <= v /\ v <= table[i + 1].v /\ (i = 1 \/ table[i].v < v)

-----------------------------------------------------------------------------
(* Minimum and maximum. *)

LEMMA MaxOfTwo ==
    ASSUME NEW a \in Int, NEW b \in Int
    PROVE  Max({a, b}) = IF a >= b THEN a ELSE b
<1> DEFINE m == IF a >= b THEN a ELSE b
<1>1. m \in {a, b} /\ \A y \in {a, b} : m >= y
  OBVIOUS
<1>2. Max({a, b}) \in {a, b} /\ \A y \in {a, b} : Max({a, b}) >= y
  BY <1>1 DEF Max
<1> QED
  BY <1>1, <1>2

LEMMA MinIs ==
    ASSUME NEW S \in SUBSET Int, NEW m \in S, \A y \in S : m <= y
    PROVE  Min(S) = m
<1>1. \E x \in S : \A y \in S : x <= y
  OBVIOUS
<1>2. Min(S) \in S /\ \A y \in S : Min(S) <= y
  BY <1>1, Zenon DEF Min
<1>3. Min(S) <= m /\ m <= Min(S) /\ Min(S) \in Int /\ m \in Int
  BY <1>2
<1> QED
  BY <1>3

\* Clamping keeps the order and leaves the table's range alone.
LEMMA Clamping ==
    ASSUME NEW voltage \in Int
    PROVE  Clamped(voltage) = IF voltage < 3000 THEN 3000
                              ELSE IF voltage > 4200 THEN 4200 ELSE voltage
<1>1. Max({voltage, 3000}) = IF voltage >= 3000 THEN voltage ELSE 3000
  BY MaxOfTwo
<1> DEFINE low == Max({voltage, 3000})
<1>2. low \in Int
  BY <1>1
<1>3. Min({low, 4200}) = IF low <= 4200 THEN low ELSE 4200
  <2> HIDE DEF low
  <2>1. CASE low <= 4200
    BY <1>2, <2>1, MinIs
  <2>2. CASE low > 4200
    BY <1>2, <2>2, MinIs
  <2> QED
    BY <1>2, <2>1, <2>2
<1> QED
  BY <1>1, <1>3 DEF Clamped

-----------------------------------------------------------------------------
(* The table. *)

LEMMA TableVoltages ==
    /\ Len(table) = 12
    /\ table[1].v = 3000 /\ table[2].v = 3200 /\ table[3].v = 3300
    /\ table[4].v = 3400 /\ table[5].v = 3500 /\ table[6].v = 3600
    /\ table[7].v = 3700 /\ table[8].v = 3800 /\ table[9].v = 3900
    /\ table[10].v = 4000 /\ table[11].v = 4100 /\ table[12].v = 4200
BY DEF table

LEMMA TableCharges ==
    /\ table[1].soc = 0 /\ table[2].soc = 5 /\ table[3].soc = 10
    /\ table[4].soc = 20 /\ table[5].soc = 30 /\ table[6].soc = 45
    /\ table[7].soc = 60 /\ table[8].soc = 75 /\ table[9].soc = 85
    /\ table[10].soc = 92 /\ table[11].soc = 97 /\ table[12].soc = 100
BY DEF table

\* Segments follow one another.
LEMMA TableRises ==
    \A i, j \in Segment : j < i => table[j + 1].v <= table[i].v
<1> SUFFICES ASSUME NEW i \in Segment, NEW j \in Segment, j < i
             PROVE  table[j + 1].v <= table[i].v
  OBVIOUS
<1> QED
  BY TableVoltages DEF Segment

\* Every voltage of the table's range has a first segment.
LEMMA HasSegment ==
    ASSUME NEW v \in TableRange
    PROVE  \E i \in Segment : FirstIn(i, v)
BY TableVoltages DEF TableRange, Segment, FirstIn

\* The loop returns there.
LEMMA ReturnsThere ==
    ASSUME NEW v \in TableRange, NEW i \in Segment, FirstIn(i, v)
    PROVE  /\ Segments(v) # {}
           /\ Min(Segments(v)) = i
<1>1. Segments(v) = {j \in Segment : table[j].v <= v /\ v <= table[j + 1].v}
  BY TableVoltages DEF Segments, Segment
<1>2. i \in Segments(v)
  BY <1>1, Zenon DEF FirstIn
<1>3. \A j \in Segments(v) : i <= j
  <2> SUFFICES ASSUME NEW j \in Segment, v <= table[j + 1].v, j < i
               PROVE  FALSE
    BY <1>1 DEF Segment
  <2>1. table[j + 1].v <= table[i].v
    BY TableRises
  <2>2. table[j + 1].v \in Int /\ table[i].v \in Int
    BY TableVoltages DEF Segment
  <2> QED
    BY <2>1, <2>2 DEF FirstIn, TableRange, Segment
<1>4. Segments(v) \in SUBSET Int
  BY <1>1 DEF Segment
<1> QED
  BY <1>2, <1>3, <1>4, MinIs

\* The interpolation rises within a segment, from end to end.
LEMMA Rises ==
    ASSUME NEW i \in Segment, NEW v \in Int, table[i].v <= v, v <= table[i + 1].v
    PROVE  /\ Interpolated(i, v) \in Int
           /\ table[i].soc <= Interpolated(i, v)
           /\ Interpolated(i, v) <= table[i + 1].soc
           /\ v < table[i + 1].v => Interpolated(i, v) <= Interpolated(i, v + 1)
<1> USE TableVoltages, TableCharges DEF Interpolated
<1>1. CASE i = 1
  BY <1>1
<1>2. CASE i = 2
  BY <1>2
<1>3. CASE i = 3
  BY <1>3
<1>4. CASE i = 4
  BY <1>4
<1>5. CASE i = 5
  BY <1>5
<1>6. CASE i = 6
  BY <1>6
<1>7. CASE i = 7
  BY <1>7
<1>8. CASE i = 8
  BY <1>8
<1>9. CASE i = 9
  BY <1>9
<1>10. CASE i = 10
  BY <1>10
<1>11. CASE i = 11
  BY <1>11
<1>12. i \in {1, 2, 3, 4, 5, 6, 7, 8, 9, 10, 11}
  BY DEF Segment
<1> HIDE TableVoltages, TableCharges DEF Interpolated
<1> QED
  BY <1>1, <1>2, <1>3, <1>4, <1>5, <1>6, <1>7, <1>8, <1>9, <1>10, <1>11, <1>12, Zenon

-----------------------------------------------------------------------------
(* The state of charge. *)

\* The charge at a voltage is that of its first segment.
LEMMA SocIs ==
    ASSUME NEW voltage \in Int, NEW i \in Segment, FirstIn(i, Clamped(voltage))
    PROVE  /\ Segments(Clamped(voltage)) # {}
           /\ Soc(voltage) = Interpolated(i, Clamped(voltage))
<1> DEFINE v == Clamped(voltage)
<1>1. v \in TableRange /\ FirstIn(i, v)
  BY Clamping DEF TableRange
<1> HIDE DEF v
<1>2. Segments(v) # {} /\ Min(Segments(v)) = i
  BY <1>1, ReturnsThere, Zenon
<1> QED
  BY <1>2 DEF v, Soc, Interpolated

\* More voltage, from the lowest to the highest Int, never shows as less charge,
\* none as more than 100 percent, and none falls through the table.
LEMMA MonotoneEverywhere ==
    ASSUME NEW voltage \in Int
    PROVE  /\ Segments(Clamped(voltage)) # {}
           /\ Soc(voltage) \in 0 .. 100
           /\ Soc(voltage) <= Soc(voltage + 1)
<1> DEFINE v == Clamped(voltage)
           w == Clamped(voltage + 1)
<1>1. v \in 3000 .. 4200 /\ w \in 3000 .. 4200 /\ (w = v \/ w = v + 1)
  BY Clamping
<1>2. PICK i \in Segment : FirstIn(i, v)
  BY <1>1, HasSegment DEF TableRange
<1>3. /\ Segments(v) # {}
      /\ Soc(voltage) = Interpolated(i, v)
  BY <1>2, SocIs
<1>a. \A k \in Segment : FirstIn(k, w) => Soc(voltage + 1) = Interpolated(k, w)
  BY SocIs
<1> HIDE DEF v, w
<1>4. /\ table[i].v <= v /\ v <= table[i + 1].v
      /\ i = 1 \/ table[i].v < v
  BY <1>2 DEF FirstIn
<1>5. /\ Interpolated(i, v) \in Int
      /\ table[i].soc <= Interpolated(i, v)
      /\ Interpolated(i, v) <= table[i + 1].soc
      /\ v < table[i + 1].v => Interpolated(i, v) <= Interpolated(i, v + 1)
  BY <1>1, <1>4, Rises
<1>6. Soc(voltage) \in 0 .. 100
  BY <1>3, <1>5, TableCharges DEF Segment
<1>7. table[i].v \in Int /\ table[i + 1].v \in Int
  BY TableVoltages DEF Segment
<1>8. ASSUME w = v PROVE Soc(voltage) <= Soc(voltage + 1)
  <2>1. Soc(voltage + 1) = Interpolated(i, v)
    BY <1>2, <1>8, <1>a
  <2> QED
    BY <2>1, <1>3, <1>5
<1>9. ASSUME w = v + 1, v < table[i + 1].v PROVE Soc(voltage) <= Soc(voltage + 1)
  <2>1. FirstIn(i, w)
    <3>1. table[i].v < w /\ w <= table[i + 1].v /\ table[i].v <= w
      BY <1>1, <1>4, <1>7, <1>9
    <3> QED
      BY <3>1 DEF FirstIn
  <2>2. Soc(voltage + 1) = Interpolated(i, v + 1)
    BY <1>9, <2>1, <1>a
  <2> QED
    BY <2>2, <1>3, <1>5, <1>9
<1>10. ASSUME w = v + 1, v = table[i + 1].v PROVE Soc(voltage) <= Soc(voltage + 1)
  <2>1. i + 1 \in Segment
    <3>1. i # 11
      <4> SUFFICES ASSUME i = 11 PROVE FALSE
        OBVIOUS
      <4>1. table[i + 1].v = 4200
        BY TableVoltages
      <4> QED
        BY <1>1, <1>10, <4>1
    <3> QED
      BY <3>1 DEF Segment
  <2>2. FirstIn(i + 1, w)
    <3>1. table[i + 1].v < table[i + 2].v /\ table[i + 2].v \in Int
      <4>1. i \in {1, 2, 3, 4, 5, 6, 7, 8, 9, 10}
        BY <2>1 DEF Segment
      <4> QED
        BY <4>1, TableVoltages
    <3>2. (i + 1) + 1 = i + 2
      <4>1. i \in Int
        BY DEF Segment
      <4> QED
        BY <4>1
    <3>3. table[i + 1].v < w /\ table[i + 1].v <= w /\ w <= table[i + 2].v
      BY <1>1, <1>7, <1>10, <3>1
    <3> QED
      BY <3>2, <3>3 DEF FirstIn
  <2>3. Soc(voltage + 1) = Interpolated(i + 1, w)
    BY <2>1, <2>2, <1>a
  <2>4. /\ Interpolated(i + 1, w) \in Int
        /\ table[i + 1].soc <= Interpolated(i + 1, w)
    BY <1>1, <2>1, <2>2, Rises DEF FirstIn
  <2>5. table[i + 1].soc \in Int
    BY TableCharges DEF Segment
  <2> QED
    BY <2>3, <2>4, <2>5, <1>3, <1>5
<1>11. w = v \/ (w = v + 1 /\ v < table[i + 1].v) \/ (w = v + 1 /\ v = table[i + 1].v)
  BY <1>1, <1>4, <1>7
<1>12. Soc(voltage) <= Soc(voltage + 1)
  BY <1>8, <1>9, <1>10, <1>11, Zenon
<1> QED
  BY <1>3, <1>6, <1>12, Zenon DEF v

\* In the packets queued a fuller battery never shows as an emptier one, and no
\* voltage as unknown.
THEOREM ChargeIsComparable == Spec => []ChargeComparable
<1>1. Voltages \subseteq Int
  BY DEF Voltages
<1>2. Monotone
  BY <1>1, MonotoneEverywhere DEF Monotone, SocUnknown
<1>3. ChargeComparable
  BY <1>2 DEF ChargeComparable
<1> QED
  BY <1>3, PTL

-----------------------------------------------------------------------------
(* Greatest and least lengths. *)

LEMMA HasMax ==
    ASSUME NEW k \in Nat, NEW S \in SUBSET (1 .. k), S # {}
    PROVE  Max(S) \in S /\ \A y \in S : Max(S) >= y
<1> DEFINE Bounds == {u \in Nat : \A y \in S : u >= y}
<1>1. Bounds \in SUBSET Nat /\ k \in Bounds
  OBVIOUS
<1> HIDE DEF Bounds
<1>2. PICK u \in Bounds : \A m \in Bounds : u <= m
  BY <1>1, HasLeast
<1> USE DEF Bounds
<1>3. u \in Nat /\ \A y \in S : u >= y
  BY <1>2
<1>4. u \in S
  <2> SUFFICES ASSUME u \notin S PROVE FALSE
    OBVIOUS
  <2>1. \A y \in S : y \in Nat /\ u >= y /\ y # u /\ y >= 1
    BY <1>3
  <2>2. PICK some \in S : TRUE
    OBVIOUS
  <2>3. u - 1 \in Nat
    BY <1>3, <2>1, <2>2
  <2>4. \A y \in S : u - 1 >= y
    BY <1>3, <2>1
  <2>5. u - 1 \in Bounds
    BY <2>3, <2>4
  <2> QED
    BY <1>2, <1>3, <2>5
<1>5. \E x \in S : \A y \in S : x >= y
  BY <1>3, <1>4
<1> QED
  BY <1>5, Zenon DEF Max

LEMMA HasMin ==
    ASSUME NEW S \in SUBSET Nat, S # {}
    PROVE  Min(S) \in S
<1>1. \E x \in S : \A y \in S : x <= y
  BY HasLeast
<1> QED
  BY <1>1, Zenon DEF Min

LEMMA MaxOfInterval ==
    ASSUME NEW k \in Nat, k > 0
    PROVE  Max(1 .. k) = k /\ (1 .. k) \ {k} = 1 .. k - 1
<1>1. 1 .. k \in SUBSET (1 .. k) /\ 1 .. k # {} /\ k \in 1 .. k
  OBVIOUS
<1>2. Max(1 .. k) \in 1 .. k /\ \A y \in 1 .. k : Max(1 .. k) >= y
  BY <1>1, HasMax
<1>3. Max(1 .. k) = k
  BY <1>1, <1>2
<1> QED
  BY <1>3

-----------------------------------------------------------------------------
(* Folds over the pieces of a packet. *)

\* step taken along the numbers of a set, in their order, from base.
Along(g, base, step, q, s) ==
    g[s] = IF s = {} THEN base ELSE step[<<g[s \ {Max(s)}], q[Max(s)]>>]

\* g is a fold of step over the first k numbers of q.
IsFold(g, D, base, step, q, k) ==
    /\ g \in [SUBSET (1 .. k) -> D]
    /\ \A s \in SUBSET (1 .. k) : Along(g, base, step, q, s)

LEMMA FoldOfNone ==
    ASSUME NEW q, NEW D, NEW base \in D, NEW step
    PROVE  \E g : IsFold(g, D, base, step, q, 0)
<1> DEFINE g == [s \in SUBSET (1 .. 0) |-> base]
<1>1. \A s \in SUBSET (1 .. 0) : s = {} /\ g[s] = base
  OBVIOUS
<1>2. g \in [SUBSET (1 .. 0) -> D]
  OBVIOUS
<1> HIDE DEF g
<1>3. IsFold(g, D, base, step, q, 0)
  BY <1>1, <1>2 DEF IsFold, Along
<1> QED
  BY <1>3

LEMMA FoldOfOneMore ==
    ASSUME NEW k \in Nat, NEW q, NEW D, NEW base \in D,
           NEW step \in [D \X Nat -> D], NEW h,
           q[k + 1] \in Nat, IsFold(h, D, base, step, q, k)
    PROVE  \E g : IsFold(g, D, base, step, q, k + 1)
<1> DEFINE Less(s) == s \ {k + 1}
           g == [s \in SUBSET (1 .. k + 1) |->
                    IF k + 1 \in s THEN step[<<h[Less(s)], q[k + 1]>>] ELSE h[s]]
<1>1. h \in [SUBSET (1 .. k) -> D] /\ \A s \in SUBSET (1 .. k) : Along(h, base, step, q, s)
  BY DEF IsFold
<1>2. \A s \in SUBSET (1 .. k + 1) :
          /\ Less(s) \in SUBSET (1 .. k)
          /\ Less(s) \in SUBSET (1 .. k + 1)
          /\ k + 1 \notin Less(s)
          /\ k + 1 \notin s => s \in SUBSET (1 .. k)
  OBVIOUS
<1>3. \A s \in SUBSET (1 .. k + 1) : <<h[Less(s)], q[k + 1]>> \in D \X Nat
  BY <1>1, <1>2
<1>4. \A s \in SUBSET (1 .. k + 1) :
          (IF k + 1 \in s THEN step[<<h[Less(s)], q[k + 1]>>] ELSE h[s]) \in D
  BY <1>1, <1>2, <1>3
<1>5. g \in [SUBSET (1 .. k + 1) -> D]
  BY <1>4
<1>6. \A s \in SUBSET (1 .. k + 1) : k + 1 \notin s => g[s] = h[s]
  OBVIOUS
<1>7. \A s \in SUBSET (1 .. k + 1) :
          k + 1 \in s => g[s] = step[<<h[Less(s)], q[k + 1]>>]
  OBVIOUS
<1> HIDE DEF g
<1>8. ASSUME NEW s \in SUBSET (1 .. k + 1) PROVE Along(g, base, step, q, s)
  <2>1. CASE k + 1 \in s
    <3>0. k + 1 \in Nat /\ s # {}
      BY <2>1
    <3>1. Max(s) \in s /\ \A y \in s : Max(s) >= y
      BY <3>0, HasMax
    <3>2. Max(s) = k + 1
      <4>1. Max(s) >= k + 1 /\ Max(s) \in 1 .. k + 1
        BY <2>1, <3>1
      <4> HIDE DEF Max
      <4> QED
        BY <4>1
    <3>3. g[Less(s)] = h[Less(s)]
      BY <1>2, <1>6
    <3>4. g[s] = step[<<g[s \ {Max(s)}], q[Max(s)]>>]
      BY <1>7, <2>1, <3>2, <3>3
    <3> QED
      BY <2>1, <3>4 DEF Along
  <2>2. CASE k + 1 \notin s
    <3>1. s \in SUBSET (1 .. k) /\ g[s] = h[s]
      BY <1>2, <1>6, <2>2
    <3>2. Along(h, base, step, q, s)
      BY <1>1, <3>1
    <3>3. s \ {Max(s)} \in SUBSET (1 .. k + 1) /\ k + 1 \notin s \ {Max(s)}
      BY <2>2
    <3>4. g[s \ {Max(s)}] = h[s \ {Max(s)}]
      BY <1>6, <3>3
    <3> QED
      BY <3>1, <3>2, <3>4 DEF Along
  <2> QED
    BY <2>1, <2>2
<1>9. IsFold(g, D, base, step, q, k + 1)
  BY <1>5, <1>8 DEF IsFold
<1> QED
  BY <1>9

LEMMA FoldExists ==
    ASSUME NEW n \in Nat, NEW q \in [1 .. n -> Nat], NEW D, NEW base \in D,
           NEW step \in [D \X Nat -> D]
    PROVE  \E g : IsFold(g, D, base, step, q, n)
<1> DEFINE Exists(k) == \E g : IsFold(g, D, base, step, q, k)
           K == {k \in Nat : k <= n => Exists(k)}
<1>1. Exists(0)
  BY FoldOfNone
<1>2. ASSUME NEW k \in Nat, k + 1 <= n, Exists(k) PROVE Exists(k + 1)
  <2>1. PICK h : IsFold(h, D, base, step, q, k)
    BY <1>2
  <2>2. q[k + 1] \in Nat
    BY <1>2
  <2> QED
    BY <2>1, <2>2, FoldOfOneMore
<1> HIDE DEF Exists
<1>3. K \in SUBSET Nat /\ 0 \in K
  BY <1>1
<1>4. \A k \in K : k + 1 \in K
  BY <1>2
<1>5. K = Nat
  BY <1>3, <1>4, SetInduction
<1>6. Exists(n)
  BY <1>5
<1> QED
  BY <1>6 DEF Exists

-----------------------------------------------------------------------------
(* The packet, piece by piece. *)

PacketType == [index : Nat, text : Nat, overrun : BOOLEAN]

LEMMA AppendedType ==
    ASSUME NEW b \in PacketType, NEW length \in Nat
    PROVE  Appended(b, length) \in PacketType
<1>1. CONFIG_NETWORK_PACKET_SIZE \in Nat
  BY PacketAssumption DEF PacketAssumption
<1>2. RoomFor(b, length) \in Nat
  BY <1>1 DEF RoomFor, PacketType
<1>3. Written(b, length) \in Nat
  BY <1>2 DEF Written
<1> QED
  BY <1>1, <1>3 DEF Appended, PacketType

LEMMA PacketSteps ==
    ASSUME NEW n \in Nat, NEW q \in [1 .. n -> Nat]
    PROVE  \E f : /\ f[0] = EmptyPacket
                  /\ \A k \in 1 .. n : f[k] = Appended(f[k - 1], q[k])
                  /\ f[n] = FoldLeft(Appended, EmptyPacket, q)
<1> DEFINE step == [d \in PacketType \X Nat |-> Appended(d[1], d[2])]
           Equation(g) == g = [s \in SUBSET (1 .. n) |->
                     IF s = {} THEN EmptyPacket
                     ELSE Appended(g[s \ {Max(s)}], q[Max(s)])]
           fold == CHOOSE g : Equation(g)
           f == [k \in 0 .. n |-> fold[1 .. k]]
<1>1. step \in [PacketType \X Nat -> PacketType]
  BY AppendedType
<1>2. EmptyPacket \in PacketType
  BY DEF EmptyPacket, PacketType
<1> HIDE DEF step
<1>3. PICK h : IsFold(h, PacketType, EmptyPacket, step, q, n)
  BY <1>1, <1>2, FoldExists
<1> USE DEF step
<1>4. ASSUME NEW s \in SUBSET (1 .. n), s # {}
      PROVE  h[s] = Appended(h[s \ {Max(s)}], q[Max(s)])
  <2>1. Max(s) \in s
    BY <1>4, HasMax
  <2>2. h[s \ {Max(s)}] \in PacketType /\ q[Max(s)] \in Nat
    BY <1>3, <2>1 DEF IsFold
  <2>3. h[s] = step[<<h[s \ {Max(s)}], q[Max(s)]>>]
    BY <1>3, <1>4 DEF IsFold, Along
  <2> QED
    BY <2>2, <2>3
<1>5. h[{}] = EmptyPacket
  BY <1>3 DEF IsFold, Along
<1> HIDE DEF step
<1>6. Equation(h)
  <2>1. h = [s \in SUBSET (1 .. n) |-> h[s]]
    BY <1>3 DEF IsFold
  <2>2. \A s \in SUBSET (1 .. n) :
            h[s] = IF s = {} THEN EmptyPacket ELSE Appended(h[s \ {Max(s)}], q[Max(s)])
    BY <1>4, <1>5
  <2> QED
    BY <2>1, <2>2
<1> HIDE DEF Equation
<1>7. Equation(fold)
  BY <1>6
<1> HIDE DEF fold
<1>8. FoldLeft(Appended, EmptyPacket, q) = fold[1 .. n]
  <2>1. DOMAIN q = 1 .. n
    OBVIOUS
  <2> QED
    BY <2>1 DEF FoldLeft, MapThenFoldSet, fold, Equation
<1>9. f[0] = EmptyPacket
  <2>1. 1 .. 0 = {} /\ {} \in SUBSET (1 .. n)
    OBVIOUS
  <2>2. fold[{}] = EmptyPacket
    BY <1>7, <2>1 DEF Equation
  <2> QED
    BY <2>1, <2>2
<1>10. ASSUME NEW k \in 1 .. n PROVE f[k] = Appended(f[k - 1], q[k])
  <2>1. 1 .. k \in SUBSET (1 .. n) /\ 1 .. k # {} /\ k \in 0 .. n /\ k - 1 \in 0 .. n
    OBVIOUS
  <2>2. fold[1 .. k] = Appended(fold[(1 .. k) \ {Max(1 .. k)}], q[Max(1 .. k)])
    BY <1>7, <2>1 DEF Equation
  <2>3. Max(1 .. k) = k /\ (1 .. k) \ {k} = 1 .. k - 1
    BY MaxOfInterval
  <2>4. fold[1 .. k] = Appended(fold[1 .. k - 1], q[k])
    BY <2>2, <2>3
  <2> QED
    BY <2>1, <2>4
<1>11. f[n] = fold[1 .. n]
  OBVIOUS
<1> HIDE DEF f
<1> QED
  BY <1>8, <1>9, <1>10, <1>11
LEMMA TotalSteps ==
    ASSUME NEW n \in Nat, NEW q \in [1 .. n -> Nat]
    PROVE  \E f : /\ f[0] = 0
                  /\ \A k \in 1 .. n : f[k] = f[k - 1] + q[k]
                  /\ f[n] = FoldLeft(+, 0, q)
<1> DEFINE step == [d \in Nat \X Nat |-> d[1] + d[2]]
           Equation(g) == g = [s \in SUBSET (1 .. n) |->
                     IF s = {} THEN 0
                     ELSE g[s \ {Max(s)}] + q[Max(s)]]
           fold == CHOOSE g : Equation(g)
           f == [k \in 0 .. n |-> fold[1 .. k]]
<1>1. step \in [Nat \X Nat -> Nat]
  OBVIOUS
<1>2. 0 \in Nat
  OBVIOUS
<1> HIDE DEF step
<1>3. PICK h : IsFold(h, Nat, 0, step, q, n)
  BY <1>1, <1>2, FoldExists
<1> USE DEF step
<1>4. ASSUME NEW s \in SUBSET (1 .. n), s # {}
      PROVE  h[s] = h[s \ {Max(s)}] + q[Max(s)]
  <2>1. Max(s) \in s
    BY <1>4, HasMax
  <2>2. h[s \ {Max(s)}] \in Nat /\ q[Max(s)] \in Nat
    BY <1>3, <2>1 DEF IsFold
  <2>3. h[s] = step[<<h[s \ {Max(s)}], q[Max(s)]>>]
    BY <1>3, <1>4 DEF IsFold, Along
  <2> QED
    BY <2>2, <2>3
<1>5. h[{}] = 0
  BY <1>3 DEF IsFold, Along
<1> HIDE DEF step
<1>6. Equation(h)
  <2>1. h = [s \in SUBSET (1 .. n) |-> h[s]]
    BY <1>3 DEF IsFold
  <2>2. \A s \in SUBSET (1 .. n) :
            h[s] = IF s = {} THEN 0 ELSE h[s \ {Max(s)}] + q[Max(s)]
    BY <1>4, <1>5
  <2> QED
    BY <2>1, <2>2
<1> HIDE DEF Equation
<1>7. Equation(fold)
  BY <1>6
<1> HIDE DEF fold
<1>8. FoldLeft(+, 0, q) = fold[1 .. n]
  <2>1. DOMAIN q = 1 .. n
    OBVIOUS
  <2> QED
    BY <2>1 DEF FoldLeft, MapThenFoldSet, fold, Equation
<1>9. f[0] = 0
  <2>1. 1 .. 0 = {} /\ {} \in SUBSET (1 .. n)
    OBVIOUS
  <2>2. fold[{}] = 0
    BY <1>7, <2>1 DEF Equation
  <2> QED
    BY <2>1, <2>2
<1>10. ASSUME NEW k \in 1 .. n PROVE f[k] = f[k - 1] + q[k]
  <2>1. 1 .. k \in SUBSET (1 .. n) /\ 1 .. k # {} /\ k \in 0 .. n /\ k - 1 \in 0 .. n
    OBVIOUS
  <2>2. fold[1 .. k] = fold[(1 .. k) \ {Max(1 .. k)}] + q[Max(1 .. k)]
    BY <1>7, <2>1 DEF Equation
  <2>3. Max(1 .. k) = k /\ (1 .. k) \ {k} = 1 .. k - 1
    BY MaxOfInterval
  <2>4. fold[1 .. k] = fold[1 .. k - 1] + q[k]
    BY <2>2, <2>3
  <2> QED
    BY <2>1, <2>4
<1>11. f[n] = fold[1 .. n]
  OBVIOUS
<1> HIDE DEF f
<1> QED
  BY <1>8, <1>9, <1>10, <1>11

\* As long as a text fits, index is where it ends.
LEMMA IndexIsEnd ==
    ASSUME NEW n \in Nat, NEW q \in [1 .. n -> Nat], NEW f, NEW t,
           f[0] = EmptyPacket,
           \A k \in 1 .. n : f[k] = Appended(f[k - 1], q[k]),
           t[0] = 0,
           \A k \in 1 .. n : t[k] = t[k - 1] + q[k],
           t[n] < CONFIG_NETWORK_PACKET_SIZE
    PROVE  /\ f[n].text = t[n]
           /\ ~f[n].overrun
           /\ Terminated(f[n]) = f[n]
<1> DEFINE Even(k) ==
        /\ t[k] \in Nat
        /\ t[k] < CONFIG_NETWORK_PACKET_SIZE =>
               f[k].index = t[k] /\ f[k].text = t[k] /\ ~f[k].overrun
        K == {k \in Nat : k <= n => Even(k)}
<1>3. CONFIG_NETWORK_PACKET_SIZE \in Nat
  BY PacketAssumption DEF PacketAssumption
<1>4. Even(0)
  BY DEF EmptyPacket
<1>5. ASSUME NEW k \in Nat, k + 1 <= n, Even(k) PROVE Even(k + 1)
  <2>1. k + 1 \in 1 .. n /\ (k + 1) - 1 = k
    BY <1>5
  <2>2. f[k + 1] = Appended(f[k], q[k + 1]) /\ t[k + 1] = t[k] + q[k + 1]
    BY <2>1
  <2>3. q[k + 1] \in Nat
    BY <2>1
  <2>4. t[k + 1] \in Nat /\ t[k] <= t[k + 1]
    BY <1>5, <2>2, <2>3
  <2>5. ASSUME t[k + 1] < CONFIG_NETWORK_PACKET_SIZE
        PROVE  /\ f[k + 1].index = t[k + 1] /\ f[k + 1].text = t[k + 1]
               /\ ~f[k + 1].overrun
    <3>1. f[k].index = t[k] /\ f[k].text = t[k] /\ ~f[k].overrun
      BY <1>3, <1>5, <2>4, <2>5
    <3>2. RoomFor(f[k], q[k + 1]) = CONFIG_NETWORK_PACKET_SIZE - t[k]
      BY <1>3, <1>5, <2>4, <2>5, <3>1 DEF RoomFor
    <3>3. Written(f[k], q[k + 1]) = q[k + 1]
      BY <1>3, <1>5, <2>2, <2>3, <2>5, <3>2 DEF Written
    <3>4. ~(f[k].index > CONFIG_NETWORK_PACKET_SIZE)
      BY <1>3, <1>5, <2>4, <2>5, <3>1
    <3>5. f[k + 1].index = t[k + 1] /\ f[k + 1].text = t[k + 1]
      BY <2>2, <3>1, <3>3 DEF Appended
    <3>6. f[k + 1].overrun = (f[k].overrun \/ f[k].index > CONFIG_NETWORK_PACKET_SIZE)
      BY <2>2 DEF Appended
    <3> QED
      BY <3>1, <3>4, <3>5, <3>6, Zenon
  <2> QED
    BY <2>4, <2>5
<1> HIDE DEF Even
<1>6. K \in SUBSET Nat /\ 0 \in K
  BY <1>4
<1>7. \A k \in K : k + 1 \in K
  BY <1>5
<1>8. K = Nat
  BY <1>6, <1>7, SetInduction
<1>9. Even(n)
  BY <1>8
<1>10. f[n].index = t[n] /\ f[n].text = t[n] /\ ~f[n].overrun
  BY <1>9 DEF Even
<1>11. t[n] \in Nat
  BY <1>9 DEF Even
<1>12. Terminated(f[n]) = f[n]
  BY <1>10, <1>11 DEF Terminated
<1> QED
  BY <1>10, <1>12

\* A text that fits is whole.
LEMMA WholeIfShort ==
    ASSUME NEW n \in Nat, NEW q \in [1 .. n -> Nat]
    PROVE  \E t : /\ t[0] = 0
                  /\ \A k \in 1 .. n : t[k] = t[k - 1] + q[k]
                  /\ t[n] < CONFIG_NETWORK_PACKET_SIZE => Whole(q)
<1>1. PICK f : /\ f[0] = EmptyPacket
               /\ \A k \in 1 .. n : f[k] = Appended(f[k - 1], q[k])
               /\ f[n] = FoldLeft(Appended, EmptyPacket, q)
  BY PacketSteps
<1>2. PICK t : /\ t[0] = 0
               /\ \A k \in 1 .. n : t[k] = t[k - 1] + q[k]
               /\ t[n] = FoldLeft(+, 0, q)
  BY TotalSteps
<1>3. ASSUME t[n] < CONFIG_NETWORK_PACKET_SIZE PROVE Whole(q)
  <2>1. f[n].text = t[n] /\ ~f[n].overrun /\ Terminated(f[n]) = f[n]
    BY <1>1, <1>2, <1>3, IndexIsEnd
  <2>2. build_gps_packet(q) = f[n]
    BY <1>1, <2>1, Zenon DEF build_gps_packet
  <2> QED
    BY <1>2, <2>1, <2>2, Zenon DEF Whole
<1> QED
  BY <1>2, <1>3

-----------------------------------------------------------------------------
(* How long a request is. *)

\* The longest text of each piece.
LongestHost == IF LongestServer > 3 THEN LongestServer ELSE 3
LongestPiece == << 4, 2, 19, 15, 16, 23, 19, 24, 31, 31, 9, 13, 16, 14, 11,
                   8 + LongestHost, 19, 25, 13, 2 >>

Bounded(S, k) == S # {} /\ S \in SUBSET (1 .. k)

LEMMA PieceBounds ==
    /\ DOMAIN Pieces = 1 .. 20
    /\ \A i \in 1 .. 20 : LongestPiece[i] \in Nat /\ Bounded(Pieces[i], LongestPiece[i])
<1>0. LongestHost \in Nat
  BY PacketAssumption DEF PacketAssumption, LongestHost
<1>1. DOMAIN Pieces = 1 .. 20
  BY DEF Pieces
<1>2. \A i \in 1 .. 20 : LongestPiece[i] \in Nat
  BY <1>0 DEF LongestPiece
<1>3. Bounded({4}, 4) /\ Bounded({2}, 2) /\ Bounded({11}, 11) /\ Bounded({19}, 19)
      /\ Bounded({25}, 25) /\ Bounded({13}, 13)
  BY DEF Bounded
<1>4. Bounded(Query(2, get_imei), 19)
  BY DEF Bounded, Query, get_imei
<1>5. Bounded(Query(3, {8, 10}), 15) /\ Bounded(Query(3, {8, 11}), 16)
  BY DEF Bounded, Query
<1>6. Bounded(Query(8, {8, 13}), 23) /\ Bounded(Query(7, {8, 10}), 19)
  BY DEF Bounded, Query
<1>7. Bounded(Query(8, {8, 14}), 24) /\ Bounded(Query(9, {20}), 31)
  BY DEF Bounded, Query
<1>8. Bounded(Query(4, get_provider_info), 31)
  BY DEF Bounded, Query, get_provider_info
<1>9. Bounded(Query(4, {Digits(soc) : soc \in get_battery_soc}), 9)
  <2>1. SocUnknown \in get_battery_soc
    BY DEF get_battery_soc
  <2>2. \A soc \in get_battery_soc : Digits(soc) \in 1 .. 3
    BY DEF Digits
  <2> HIDE DEF get_battery_soc
  <2> QED
    BY <2>1, <2>2 DEF Bounded, Query
<1>10. Bounded(Query(6, get_battery_charge_status), 13)
  <2>1. get_battery_charge_status # {}
    BY DEF get_battery_charge_status
  <2>2. \A length \in get_battery_charge_status : length \in 4 .. 5
    BY DEF get_battery_charge_status
  <2> QED
    BY <2>1, <2>2 DEF Bounded, Query
<1>11. Bounded(Query(4, get_temperature), 16)
  BY DEF Bounded, Query, get_temperature
<1>12. Bounded(Query(1, {1, 11}), 14)
  BY DEF Bounded, Query
<1>13. Bounded({6 + server + 2 : server \in {3, LongestServer}}, 8 + LongestHost)
  BY PacketAssumption DEF PacketAssumption, Bounded, LongestHost
<1> QED
  BY <1>1, <1>2, <1>3, <1>4, <1>5, <1>6, <1>7, <1>8, <1>9, <1>10, <1>11, <1>12, <1>13
     DEF Pieces, LongestPiece

LEMMA RequestLengths ==
    ASSUME NEW request \in Requests
    PROVE  /\ request \in [1 .. 20 -> Nat]
           /\ \A i \in 1 .. 20 : request[i] <= LongestPiece[i]
<1>1. ASSUME NEW i \in 1 .. 20
      PROVE  /\ Max(Pieces[i]) \in 1 .. LongestPiece[i]
             /\ Min(Pieces[i]) \in 1 .. LongestPiece[i]
  <2>1. Pieces[i] # {} /\ Pieces[i] \in SUBSET (1 .. LongestPiece[i])
        /\ LongestPiece[i] \in Nat
    BY PieceBounds DEF Bounded
  <2>2. Max(Pieces[i]) \in Pieces[i]
    BY <2>1, HasMax
  <2>3. Min(Pieces[i]) \in Pieces[i]
    BY <2>1, HasMin
  <2> QED
    BY <2>1, <2>2, <2>3
<1>2. PICK long : request = [i \in DOMAIN Pieces |->
                                IF i \in long THEN Max(Pieces[i]) ELSE Min(Pieces[i])]
  BY DEF Requests
<1>3. request = [i \in 1 .. 20 |->
                     IF i \in long THEN Max(Pieces[i]) ELSE Min(Pieces[i])]
  BY <1>2, PieceBounds
<1>4. \A i \in 1 .. 20 : LongestPiece[i] \in Nat
  BY PieceBounds
<1> HIDE DEF LongestPiece, Pieces
<1>5. \A i \in 1 .. 20 : request[i] \in 1 .. LongestPiece[i]
  BY <1>1, <1>3
<1> QED
  BY <1>3, <1>4, <1>5

\* The fixed part of a request and its longest pieces come to 314.
LEMMA LongestRequest ==
    ASSUME NEW request \in Requests, NEW t,
           t[0] = 0, \A k \in 1 .. 20 : t[k] = t[k - 1] + request[k]
    PROVE  t[20] \in Nat /\ t[20] <= 314 + LongestHost
<1>0. LongestHost \in Nat
  BY PacketAssumption DEF PacketAssumption, LongestHost
<1>1. \A k \in 1 .. 20 : request[k] \in Nat /\ request[k] <= LongestPiece[k]
  BY RequestLengths
<1>2. /\ request[1] <= 4 /\ request[2] <= 2 /\ request[3] <= 19 /\ request[4] <= 15
      /\ request[5] <= 16 /\ request[6] <= 23 /\ request[7] <= 19 /\ request[8] <= 24
      /\ request[9] <= 31 /\ request[10] <= 31
  BY <1>1 DEF LongestPiece
<1>3. /\ request[11] <= 9 /\ request[12] <= 13 /\ request[13] <= 16 /\ request[14] <= 14
      /\ request[15] <= 11 /\ request[16] <= 8 + LongestHost /\ request[17] <= 19
      /\ request[18] <= 25 /\ request[19] <= 13 /\ request[20] <= 2
  BY <1>1 DEF LongestPiece
<1> HIDE DEF LongestPiece
<1>4. /\ t[1] = t[0] + request[1] /\ t[2] = t[1] + request[2] /\ t[3] = t[2] + request[3]
      /\ t[4] = t[3] + request[4] /\ t[5] = t[4] + request[5]
  OBVIOUS
<1>5. t[5] \in Nat /\ t[5] <= 56
  BY <1>1, <1>2, <1>4
<1>6. /\ t[6] = t[5] + request[6] /\ t[7] = t[6] + request[7] /\ t[8] = t[7] + request[8]
      /\ t[9] = t[8] + request[9] /\ t[10] = t[9] + request[10]
  OBVIOUS
<1>7. t[10] \in Nat /\ t[10] <= 184
  BY <1>1, <1>2, <1>5, <1>6
<1>8. /\ t[11] = t[10] + request[11] /\ t[12] = t[11] + request[12]
      /\ t[13] = t[12] + request[13] /\ t[14] = t[13] + request[14]
      /\ t[15] = t[14] + request[15]
  OBVIOUS
<1>9. t[15] \in Nat /\ t[15] <= 247
  BY <1>1, <1>3, <1>7, <1>8
<1>10. /\ t[16] = t[15] + request[16] /\ t[17] = t[16] + request[17]
       /\ t[18] = t[17] + request[18] /\ t[19] = t[18] + request[19]
       /\ t[20] = t[19] + request[20]
  OBVIOUS
<1> QED
  BY <1>0, <1>1, <1>3, <1>9, <1>10

\* What is sent is all of the request, for every length of server name that
\* leaves room for the rest, and every size of the buffer.
THEOREM RequestsAreWhole ==
    ASSUME LongestServer + 314 < CONFIG_NETWORK_PACKET_SIZE
    PROVE  Spec => []RequestWhole
<1>1. AllWhole
  <2> SUFFICES ASSUME NEW request \in Requests PROVE Whole(request)
    BY DEF AllWhole
  <2>1. 20 \in Nat /\ request \in [1 .. 20 -> Nat]
    BY RequestLengths
  <2>2. PICK t : /\ t[0] = 0
                 /\ \A k \in 1 .. 20 : t[k] = t[k - 1] + request[k]
                 /\ t[20] < CONFIG_NETWORK_PACKET_SIZE => Whole(request)
    BY <2>1, WholeIfShort
  <2>3. t[20] \in Nat /\ t[20] <= 314 + LongestHost
    BY <2>2, LongestRequest
  <2>4. 314 + LongestHost < CONFIG_NETWORK_PACKET_SIZE
    BY PacketAssumption DEF PacketAssumption, LongestHost
  <2>5. LongestHost \in Nat /\ CONFIG_NETWORK_PACKET_SIZE \in Nat
    BY PacketAssumption DEF PacketAssumption, LongestHost
  <2> QED
    BY <2>2, <2>3, <2>4, <2>5
<1>2. RequestWhole
  BY <1>1 DEF RequestWhole
<1> QED
  BY <1>2, PTL

=============================================================================
