----------------------------- MODULE DnsProofs ------------------------------
(***************************************************************************)
(* The properties of Dns, proved for every cache size, every set of names, *)
(* every age and however long the device runs.                             *)
(*                                                                         *)
(* The argument is one of ownership: an address belongs to the one entry   *)
(* that points at it.  A call only touches the address of the slot it      *)
(* uses, and there is an address more than there are slots, so that a      *)
(* lookup always finds a place for its result.                             *)
(***************************************************************************)
EXTENDS Dns, FiniteSetTheorems, TLAPS

Pointer(slot) == cached_entries[slot].info_ptr
Allocated(address) == heap[address] # Unallocated

\* An entry points at an address of its own, of its own name and not looked up
\* before the entry was made; and every address belongs to an entry.
OwnerInv ==
    /\ \A slot \in Slots : Pointer(slot) # nullptr =>
           /\ Allocated(Pointer(slot))
           /\ heap[Pointer(slot)].of = cached_entries[slot].name
           /\ heap[Pointer(slot)].at >= cached_entries[slot].lookup_time
    /\ \A slot, other \in Slots :
           Pointer(slot) = Pointer(other) /\ Pointer(slot) # nullptr => slot = other
    /\ \A address \in Addresses : Allocated(address) =>
           \E slot \in Slots : Pointer(slot) = address
    /\ \A slot \in Slots : cached_entries[slot].lookup_time <= now

\* The types of TypeOK: what the cache and the memory hold.
Entries == [name : ShortNames \cup {Cut, ""}, lookup_time : 0 .. MaxTime,
            info_ptr : Addresses \cup {nullptr}]
Cells == [of : ShortNames \cup {Cut, ""}, at : 0 .. MaxTime]

\* A call returns an address that was looked up under the name as it is stored.
StoredHost ==
    answer.address # nullptr => heap[answer.address].of = Stored(answer.url)

IInv == TypeOK /\ OwnerInv /\ StoredHost

-----------------------------------------------------------------------------
(* The slot a call uses is a slot. *)

LEMMA FirstIsMember ==
    ASSUME NEW numbers \in SUBSET Nat, numbers # {}
    PROVE  First(numbers) \in numbers /\ \A m \in numbers : First(numbers) <= m
<1>1. PICK n \in numbers : \A m \in numbers : ~ (<<m, n>> \in OpToRel(<, Nat))
  BY NatLessThanWellFounded, WFMin, Zenon
<1>2. \A m \in numbers : ~ (m < n)
  BY <1>1 DEF OpToRel
<1>3. \E n_ \in numbers : \A m \in numbers : n_ <= m
  BY <1>2
<1> QED
  BY <1>3 DEF First

LEMMA SlotForIsSlot ==
    ASSUME TypeOK, NEW url \in Names
    PROVE  /\ SlotFor(url) \in Slots
           /\ Found(url) => cached_entries[SlotFor(url)].name = url
<1>1. Slots # {} /\ Slots \in SUBSET Nat
  BY DnsAssumption DEF DnsAssumption, Slots
<1>2. \A name : Holding(name) \in SUBSET Nat
                /\ Holding(name) \subseteq Slots
                /\ \A slot \in Holding(name) : cached_entries[slot].name = name
  BY <1>1 DEF Holding
<1>3. \A name : Holding(name) # {} => First(Holding(name)) \in Holding(name)
  BY <1>2, FirstIsMember
<1>4. Oldest \in Slots
  <2> DEFINE Earliest == {slot \in Slots : \A other \in Slots :
                  cached_entries[slot].lookup_time <= cached_entries[other].lookup_time}
             times == {cached_entries[slot].lookup_time : slot \in Slots}
  <2>1. times # {} /\ times \in SUBSET Nat
    <3>1. \A slot \in Slots : cached_entries[slot].lookup_time \in 0 .. MaxTime
      BY DEF TypeOK, Entries, Cells
    <3>2. 0 .. MaxTime \subseteq Nat
      OBVIOUS
    <3> QED
      BY <1>1, <3>1, <3>2
  <2>2. PICK slot \in Slots : cached_entries[slot].lookup_time = First(times)
    BY <2>1, FirstIsMember
  <2>3. slot \in Earliest
    BY <2>1, <2>2, FirstIsMember
  <2>4. First(Earliest) \in Earliest
    BY <1>1, <2>3, FirstIsMember
  <2> QED
    BY <2>4 DEF Oldest
<1> QED
  BY <1>2, <1>3, <1>4 DEF SlotFor, Found

-----------------------------------------------------------------------------
(* There is always a place for a new address. *)

LEMMA PlaceLeft ==
    ASSUME TypeOK, OwnerInv
    PROVE  \E address \in Addresses : ~Allocated(address)
<1> SUFFICES ASSUME \A address \in Addresses : Allocated(address) PROVE FALSE
  OBVIOUS
<1> DEFINE owner == [address \in Addresses |-> CHOOSE slot \in Slots : Pointer(slot) = address]
<1>1. \A address \in Addresses : owner[address] \in Slots /\ Pointer(owner[address]) = address
  BY DEF OwnerInv
<1>2. owner \in [Addresses -> Slots]
  BY <1>1
<1>3. /\ IsFiniteSet(Slots) /\ IsFiniteSet(Addresses)
      /\ Cardinality(Slots) = CONFIG_DNS_CACHE_ENTRIES
      /\ Cardinality(Addresses) = CONFIG_DNS_CACHE_ENTRIES + 1
  BY DnsAssumption, FS_Interval DEF DnsAssumption, Slots, Addresses
<1>4. Cardinality(Slots) < Cardinality(Addresses)
  BY <1>3, DnsAssumption DEF DnsAssumption
<1> HIDE DEF owner
<1>5. PICK a, b \in Addresses : a # b /\ owner[a] = owner[b]
  BY <1>2, <1>3, <1>4, FS_PigeonHole
<1> QED
  BY <1>1, <1>5

-----------------------------------------------------------------------------
(* What a call does to its slot and to the memory. *)

\* The memory without the address of the slot.
Without(slot) ==
    [address \in Addresses |->
        IF address = Pointer(slot) THEN Unallocated ELSE heap[address]]

LEMMA NowType ==
    ASSUME TypeOK
    PROVE  now \in 0 .. MaxTime /\ now \in Nat /\ MaxTime \in Nat
<1>1. now \in 0 .. MaxTime
  BY DEF TypeOK, Entries, Cells
<1>2. MaxTime \in Nat
  BY DnsAssumption DEF DnsAssumption
<1> QED
  BY <1>1, <1>2

LEMMA NullIsNoAddress == nullptr \notin Addresses
BY DEF nullptr, Addresses

LEMMA UnallocatedType ==
    ASSUME TypeOK
    PROVE  Unallocated \in Cells
<1>1. 0 \in 0 .. MaxTime
  BY NowType
<1> QED
  BY <1>1 DEF Unallocated, Cells

LEMMA AddressFields ==
    \A address, name, time :
        address = [of |-> name, at |-> time] => address.of = name /\ address.at = time
OBVIOUS

LEMMA EntryMade ==
    ASSUME NEW name \in ShortNames \cup {Cut, ""}, NEW time \in 0 .. MaxTime,
           NEW place \in Addresses \cup {nullptr}
    PROVE  [name |-> name, lookup_time |-> time, info_ptr |-> place] \in Entries
BY DEF Entries

LEMMA EntryChanged ==
    ASSUME NEW entry \in Entries, NEW place
    PROVE  [entry EXCEPT !.info_ptr = place]
               = [name |-> entry.name, lookup_time |-> entry.lookup_time, info_ptr |-> place]
<1> DEFINE names == ShortNames \cup {Cut, ""}
           times == 0 .. MaxTime
           places == Addresses \cup {nullptr}
<1>1. entry \in [name : names, lookup_time : times, info_ptr : places]
  BY DEF Entries
<1> HIDE DEF names, times, places
<1> QED
  BY <1>1

LEMMA EntryFields ==
    ASSUME NEW entry \in Entries
    PROVE  /\ entry.name \in ShortNames \cup {Cut, ""}
           /\ entry.lookup_time \in 0 .. MaxTime
           /\ entry.info_ptr \in Addresses \cup {nullptr}
BY DEF Entries

LEMMA EntryTypes ==
    ASSUME TypeOK, NEW slot \in Slots
    PROVE  /\ cached_entries[slot] \in Entries
           /\ Pointer(slot) \in Addresses \cup {nullptr}
           /\ nullptr \notin Addresses
           /\ heap = [address \in Addresses |-> heap[address]]
<1>1. cached_entries[slot] \in Entries
  BY DEF TypeOK, Entries, Cells
<1>2. nullptr \notin Addresses
  BY NullIsNoAddress
<1>3. heap = [address \in Addresses |-> heap[address]]
  BY DEF TypeOK, Entries, Cells
<1> QED
  BY <1>1, <1>2, <1>3, EntryFields DEF Pointer

\* The entry that answers: of the name that is stored for the url, not from the
\* future, and with no address but the one of its slot.
LEMMA QueryFacts ==
    ASSUME TypeOK, OwnerInv, NEW url \in Names
    PROVE  LET query == Query(url) slot == SlotFor(url) IN
           /\ query \in Entries
           /\ query.name = Stored(url)
           /\ Stored(url) \in ShortNames \cup {Cut} /\ Stored(url) # ""
           /\ query.lookup_time \in 0 .. MaxTime /\ query.lookup_time <= now
           /\ IF Found(url) THEN query = cached_entries[slot] ELSE query.info_ptr = nullptr
<1> DEFINE slot == SlotFor(url)
<1>1. slot \in Slots
  BY SlotForIsSlot
<1>2. Stored(url) \in ShortNames \cup {Cut} /\ Stored(url) # ""
  BY NameAssumption DEF NameAssumption, Stored, Names
<1>3. CASE Found(url)
  <2>1. Query(url) = cached_entries[slot] /\ cached_entries[slot].name = url
    BY <1>3, SlotForIsSlot DEF Query
  <2>2. cached_entries[slot] \in Entries
    BY <1>1, EntryTypes
  <2>3. url \in ShortNames
    BY <2>1, <2>2, EntryFields, DnsAssumption, NameAssumption
    DEF DnsAssumption, NameAssumption, Names
  <2>4. Stored(url) = url
    BY <2>3, DnsAssumption DEF DnsAssumption, Stored
  <2>5. cached_entries[slot].lookup_time <= now
    BY <1>1 DEF OwnerInv
  <2> HIDE DEF slot
  <2>6. cached_entries[slot].name = Stored(url)
    BY <2>1, <2>4
  <2>7. cached_entries[slot].lookup_time \in 0 .. MaxTime
    BY <2>2, EntryFields
  <2> QED
    BY <1>2, <1>3, <2>1, <2>2, <2>5, <2>6, <2>7 DEF slot
<1>4. CASE ~Found(url)
  <2>1. Query(url) = [name |-> Stored(url), lookup_time |-> now, info_ptr |-> nullptr]
    BY <1>4 DEF Query
  <2>2. now \in 0 .. MaxTime /\ now <= now
    BY NowType
  <2>3. /\ Query(url).name = Stored(url)
        /\ Query(url).lookup_time = now
        /\ Query(url).info_ptr = nullptr
    BY <2>1
  <2>4. Query(url) \in Entries
    <3>1. Stored(url) \in ShortNames \cup {Cut, ""}
      BY <1>2
    <3> QED
      BY <2>1, <2>2, <3>1, EntryMade
  <2> QED
    BY <1>2, <1>4, <2>2, <2>3, <2>4
<1> QED
  BY <1>3, <1>4

LEMMA FreedIsWithout ==
    ASSUME TypeOK, OwnerInv, NEW url \in Names
    PROVE  Freed(AfterEviction(url), Query(url).info_ptr) = Without(SlotFor(url))
<1> DEFINE slot == SlotFor(url)
<1>1. slot \in Slots
  BY SlotForIsSlot
<1> HIDE DEF slot
<1>2. Freed(heap, Pointer(slot)) = Without(slot)
  <2>1. CASE Pointer(slot) = nullptr
    BY <1>1, <2>1, EntryTypes DEF Freed, Without
  <2>2. CASE Pointer(slot) # nullptr
    BY <1>1, <2>2, EntryTypes DEF Freed, Without
  <2> QED
    BY <2>1, <2>2
<1>3. CASE Found(url)
  BY <1>2, <1>3, QueryFacts DEF AfterEviction, Pointer, slot
<1>4. CASE ~Found(url)
  <2>1. AfterEviction(url) = Without(slot)
    BY <1>2, <1>4 DEF AfterEviction, Pointer, slot
  <2>2. Query(url).info_ptr = nullptr
    BY <1>4, QueryFacts
  <2> QED
    BY <2>1, <2>2 DEF Freed, slot
<1> QED
  BY <1>3, <1>4

\* The slot is given another entry; its address, if it has one, is new.
Rewritten(slot, name, time, place) ==
    /\ cached_entries' = [cached_entries EXCEPT ![slot] =
           [name |-> name, lookup_time |-> time, info_ptr |-> place]]
    /\ heap' = [address \in Addresses |->
           IF address = place THEN [of |-> name, at |-> now] ELSE Without(slot)[address]]
    /\ UNCHANGED now

\* The ownership argument: a slot is given another entry, whose address, if it
\* has one, was nobody else's.
LEMMA SlotRewritten ==
    ASSUME TypeOK, OwnerInv,
           NEW slot \in Slots,
           NEW name \in ShortNames \cup {Cut}, name # "",
           NEW time \in 0 .. MaxTime, time <= now,
           NEW place \in Addresses \cup {nullptr},
           place # nullptr => Without(slot)[place] = Unallocated,
           Rewritten(slot, name, time, place)
    PROVE  /\ OwnerInv'
           /\ cached_entries' \in [Slots -> Entries]
           /\ heap' \in [Addresses -> Cells]
<1>1. /\ Pointer(slot)' = place
      /\ cached_entries'[slot].name = name
      /\ cached_entries'[slot].lookup_time = time
      /\ \A other \in Slots \ {slot} : cached_entries'[other] = cached_entries[other]
      /\ \A other \in Slots \ {slot} : Pointer(other)' = Pointer(other)
  BY DEF TypeOK, Entries, Cells, Pointer, Rewritten
<1>2. \A other \in Slots : Pointer(other) \in Addresses \cup {nullptr}
  BY DEF TypeOK, Entries, Cells, Pointer
<1>w. \A address \in Addresses :
          Without(slot)[address] = IF address = Pointer(slot) THEN Unallocated ELSE heap[address]
  BY DEF Without
<1>h. \A address \in Addresses :
          heap'[address] = IF address = place THEN [of |-> name, at |-> now]
                           ELSE Without(slot)[address]
  BY DEF Rewritten
<1>3. ASSUME NEW other \in Slots \ {slot}, Pointer(other) # nullptr
      PROVE  /\ Pointer(other) # place /\ Pointer(other) # Pointer(slot)
             /\ heap'[Pointer(other)] = heap[Pointer(other)]
  <2>1. Pointer(other) \in Addresses /\ Pointer(other) # Pointer(slot) /\ Allocated(Pointer(other))
    BY <1>2, <1>3 DEF OwnerInv
  <2>2. Without(slot)[Pointer(other)] = heap[Pointer(other)]
    BY <1>w, <2>1
  <2>3. Pointer(other) # place
    BY <1>3, <2>1, <2>2 DEF Allocated
  <2> QED
    BY <1>h, <2>1, <2>2, <2>3
<1>4. \A other \in Slots \ {slot} : Pointer(other) # nullptr =>
          /\ Pointer(other) # place /\ Pointer(other) # Pointer(slot)
          /\ heap'[Pointer(other)] = heap[Pointer(other)]
  BY <1>3
<1>5. nullptr \notin Addresses
  BY NullIsNoAddress
<1>6. [of |-> name, at |-> now] # Unallocated
  BY DEF Unallocated
<1>7. now \in Nat /\ now \in 0 .. MaxTime
  BY NowType
<1>8. now >= time
  BY NowType
<1>a. ASSUME NEW s \in Slots, Pointer(s)' # nullptr
      PROVE  /\ Allocated(Pointer(s))'
             /\ heap'[Pointer(s)'].of = cached_entries'[s].name
             /\ heap'[Pointer(s)'].at >= cached_entries'[s].lookup_time
  <2>1. CASE s = slot
    <3>1. place \in Addresses /\ heap'[place] = [of |-> name, at |-> now]
      BY <1>1, <1>h, <1>a, <2>1
    <3>2. heap'[place].of = name /\ heap'[place].at = now
      BY <3>1, AddressFields, Zenon
    <3>3. heap'[place].at >= time
      BY <1>8, <3>2
    <3> QED
      BY <1>1, <1>6, <2>1, <3>1, <3>2, <3>3 DEF Allocated
  <2>2. CASE s # slot
    <3>1. Pointer(s)' = Pointer(s) /\ cached_entries'[s] = cached_entries[s]
      BY <1>1, <2>2
    <3>2. heap'[Pointer(s)] = heap[Pointer(s)]
      BY <1>a, <1>4, <2>2, <3>1
    <3> QED
      BY <1>a, <3>1, <3>2 DEF OwnerInv, Allocated
  <2> QED
    BY <2>1, <2>2
<1>b. ASSUME NEW s \in Slots, NEW other \in Slots,
             Pointer(s)' = Pointer(other)', Pointer(s)' # nullptr
      PROVE  s = other
  <2>1. CASE s = slot /\ other # slot
    BY <1>1, <1>4, <1>b, <2>1
  <2>2. CASE s # slot /\ other = slot
    BY <1>1, <1>4, <1>b, <2>2
  <2>3. CASE s # slot /\ other # slot
    <3>1. Pointer(s) = Pointer(other) /\ Pointer(s) # nullptr
      BY <1>1, <1>b, <2>3
    <3> QED
      BY <3>1 DEF OwnerInv
  <2> QED
    BY <2>1, <2>2, <2>3
<1>c. \A address \in Addresses : Allocated(address)' =>
           \E s \in Slots : Pointer(s)' = address
  <2> SUFFICES ASSUME NEW address \in Addresses, heap'[address] # Unallocated,
                      address # place
               PROVE  \E s \in Slots : Pointer(s)' = address
    BY <1>1 DEF Allocated
  <2>1. address # Pointer(slot) /\ Allocated(address)
    BY <1>h, <1>w DEF Allocated
  <2> QED
    BY <1>1, <2>1 DEF OwnerInv
<1>d. \A s \in Slots : cached_entries'[s].lookup_time <= now'
  BY <1>1 DEF OwnerInv, Rewritten
<1>e. cached_entries' \in [Slots -> Entries]
  BY DEF TypeOK, Entries, Cells, Rewritten
<1>f. heap' \in [Addresses -> Cells]
  <2>1. Unallocated \in Cells
    BY UnallocatedType
  <2>2. Without(slot) \in [Addresses -> Cells]
    BY <2>1 DEF TypeOK, Entries, Cells, Without
  <2>3. [of |-> name, at |-> now] \in Cells
    BY <1>7 DEF Cells
  <2> QED
    BY <2>2, <2>3 DEF Rewritten
<1> QED
  BY <1>a, <1>b, <1>c, <1>d, <1>e, <1>f DEF OwnerInv

-----------------------------------------------------------------------------
(* The calls. *)

\* A call answered from the cache found its entry and changes nothing of it.
LEMMA CacheStep ==
    ASSUME TypeOK, OwnerInv, NEW url \in Names, NEW force_invalidate \in BOOLEAN,
           AnswerFromCache(url, force_invalidate)
    PROVE  /\ Found(url) /\ Query(url) = cached_entries[SlotFor(url)]
           /\ Query(url).info_ptr # nullptr
           /\ UNCHANGED <<cached_entries, heap, now>>
           /\ answer' = [url |-> url, address |-> Query(url).info_ptr]
<1>1. Query(url).info_ptr # nullptr
  BY DEF AnswerFromCache, Usable
<1>2. Found(url) /\ Query(url) = cached_entries[SlotFor(url)]
  BY <1>1, QueryFacts
<1>3. cached_entries' = cached_entries
  <2>1. cached_entries' = [cached_entries EXCEPT ![SlotFor(url)] = cached_entries[SlotFor(url)]]
    BY <1>2 DEF AnswerFromCache
  <2>2. SlotFor(url) \in Slots /\ cached_entries = [slot \in Slots |-> cached_entries[slot]]
    BY SlotForIsSlot DEF TypeOK, Entries, Cells
  <2> QED
    BY <2>1, <2>2
<1>4. heap' = heap
  BY <1>2 DEF AnswerFromCache, AfterEviction
<1> QED
  BY <1>1, <1>2, <1>3, <1>4 DEF AnswerFromCache

\* A call that asks the server rewrites its slot, with a free address or none.
LEMMA LookupStep ==
    ASSUME TypeOK, OwnerInv, NEW url \in Names, NEW force_invalidate \in BOOLEAN,
           AnswerFromServer(url, force_invalidate) \/ NoAnswer(url, force_invalidate)
    PROVE  \E place \in Addresses \cup {nullptr} :
               /\ place # nullptr => Without(SlotFor(url))[place] = Unallocated
               /\ Rewritten(SlotFor(url), Stored(url), Query(url).lookup_time, place)
               /\ answer' = [url |-> url, address |-> place]
<1> DEFINE slot == SlotFor(url)
           memory == Without(slot)
           entry(place) == [name |-> Stored(url), lookup_time |-> Query(url).lookup_time,
                            info_ptr |-> place]
<1>1. slot \in Slots
  BY SlotForIsSlot
<1>2. Freed(AfterEviction(url), Query(url).info_ptr) = memory
  BY FreedIsWithout
<1>3. \A place : [Query(url) EXCEPT !.info_ptr = place] = entry(place)
  BY QueryFacts, EntryChanged
<1>5. CASE AnswerFromServer(url, force_invalidate)
  <2> DEFINE places == {address \in Addresses : memory[address] = Unallocated}
             place == First(places)
  <2>1. places # {}
    <3>1. PICK address \in Addresses : heap[address] = Unallocated
      BY PlaceLeft DEF Allocated
    <3>2. memory[address] = Unallocated
      BY <3>1 DEF Without
    <3> QED
      BY <3>2
  <2>2. places \in SUBSET Nat
    BY DEF Addresses
  <2>3. place \in places
    BY <2>1, <2>2, FirstIsMember
  <2>4. /\ heap' = [memory EXCEPT ![place] = [of |-> Query(url).name, at |-> now]]
        /\ cached_entries' = [cached_entries EXCEPT ![slot] =
                                 [Query(url) EXCEPT !.info_ptr = place]]
        /\ answer' = [url |-> url, address |-> place]
        /\ UNCHANGED now
    BY <1>2, <1>5 DEF AnswerFromServer
  <2>5. Query(url).name = Stored(url)
    BY QueryFacts
  <2>6. place \in Addresses /\ memory[place] = Unallocated
    BY <2>3
  <2> HIDE DEF place, places
  <2>7. heap' = [address \in Addresses |->
                    IF address = place THEN [of |-> Stored(url), at |-> now] ELSE memory[address]]
    BY <2>4, <2>5, <2>6 DEF Without
  <2>8. cached_entries' = [cached_entries EXCEPT ![slot] = entry(place)]
    BY <1>3, <2>4
  <2>9. Rewritten(slot, Stored(url), Query(url).lookup_time, place)
    BY <2>4, <2>7, <2>8 DEF Rewritten
  <2> QED
    BY <2>4, <2>6, <2>9
<1>6. CASE NoAnswer(url, force_invalidate)
  <2>1. /\ heap' = memory
        /\ cached_entries' = [cached_entries EXCEPT ![slot] =
                                 [Query(url) EXCEPT !.info_ptr = nullptr]]
        /\ answer' = [url |-> url, address |-> nullptr]
        /\ UNCHANGED now
    BY <1>2, <1>6 DEF NoAnswer
  <2>2. \A address \in Addresses : address # nullptr
    BY NullIsNoAddress
  <2>3. heap' = [address \in Addresses |->
                    IF address = nullptr THEN [of |-> Stored(url), at |-> now]
                    ELSE memory[address]]
    BY <2>1, <2>2 DEF Without
  <2>4. cached_entries' = [cached_entries EXCEPT ![slot] = entry(nullptr)]
    BY <1>3, <2>1
  <2>5. Rewritten(slot, Stored(url), Query(url).lookup_time, nullptr)
    BY <2>1, <2>3, <2>4 DEF Rewritten
  <2> QED
    BY <2>1, <2>5
<1> QED
  BY <1>5, <1>6

-----------------------------------------------------------------------------
(* The invariant. *)

LEMMA InitIInv == Init => IInv
<1> SUFFICES ASSUME Init PROVE IInv
  OBVIOUS
<1>1. 0 \in 0 .. MaxTime
  BY DnsAssumption DEF DnsAssumption
<1>2. \A slot \in Slots : Pointer(slot) = nullptr /\ cached_entries[slot].lookup_time = 0
  BY DEF Init, Pointer, FreeEntry, nullptr
<1>3. \A address \in Addresses : heap[address] = Unallocated
  BY DEF Init
<1>4. now = 0 /\ answer = [url |-> "", address |-> nullptr]
  BY DEF Init
<1>5. TypeOK
  <2>1. FreeEntry \in Entries
    BY <1>1, EntryMade DEF FreeEntry, nullptr
  <2>2. Unallocated \in Cells
    BY <1>1 DEF Unallocated, Cells
  <2>3. answer \in [url : Names \cup {""}, address : Addresses \cup {nullptr}]
    BY <1>4
  <2> QED
    BY <1>1, <1>4, <2>1, <2>2, <2>3 DEF Init, TypeOK, Entries, Cells
<1>6. OwnerInv
  <2>1. \A slot \in Slots : cached_entries[slot].lookup_time <= now
    <3> SUFFICES ASSUME NEW slot \in Slots PROVE cached_entries[slot].lookup_time <= now
      OBVIOUS
    <3>1. cached_entries[slot].lookup_time = now /\ now = 0
      BY <1>2, <1>4
    <3> QED
      BY <3>1
  <2> QED
    BY <1>2, <1>3, <2>1 DEF OwnerInv, Allocated
<1>7. StoredHost
  BY <1>4 DEF StoredHost
<1> QED
  BY <1>5, <1>6, <1>7 DEF IInv

LEMMA NextIInv == IInv /\ [Next]_dnsVars => IInv'
<1> SUFFICES ASSUME IInv, [Next]_dnsVars PROVE IInv'
  OBVIOUS
<1>0. TypeOK /\ OwnerInv /\ StoredHost
  BY DEF IInv
<1>1. ASSUME NEW url \in Names, NEW force_invalidate \in BOOLEAN,
             AnswerFromCache(url, force_invalidate)
      PROVE  IInv'
  <2> DEFINE query == Query(url)
             slot == SlotFor(url)
  <2>1. /\ query = cached_entries[slot] /\ query.info_ptr # nullptr
        /\ UNCHANGED <<cached_entries, heap, now>>
        /\ answer' = [url |-> url, address |-> query.info_ptr]
    BY <1>0, <1>1, CacheStep
  <2>2. slot \in Slots /\ query.name = Stored(url)
    BY <1>0, SlotForIsSlot, QueryFacts
  <2>3. query.info_ptr \in Addresses \cup {nullptr}
    BY <1>0, <2>1, <2>2, EntryTypes DEF Pointer
  <2>4. heap[query.info_ptr].of = Stored(url)
    BY <1>0, <2>1, <2>2 DEF OwnerInv, Pointer
  <2> HIDE DEF query, slot
  <2>5. OwnerInv'
    BY <1>0, <2>1 DEF OwnerInv, Pointer, Allocated
  <2>6. answer'.url = url /\ answer'.address = query.info_ptr
    BY <2>1
  <2>7. StoredHost'
    BY <2>1, <2>4, <2>6 DEF StoredHost
  <2>8. answer' \in [url : Names \cup {""}, address : Addresses \cup {nullptr}]
    BY <2>1, <2>3
  <2>9. TypeOK'
    BY <1>0, <2>1, <2>8 DEF TypeOK, Entries, Cells
  <2> QED
    BY <2>5, <2>7, <2>9 DEF IInv
<1>2. ASSUME NEW url \in Names, NEW force_invalidate \in BOOLEAN,
             AnswerFromServer(url, force_invalidate) \/ NoAnswer(url, force_invalidate)
      PROVE  IInv'
  <2> DEFINE slot == SlotFor(url)
             time == Query(url).lookup_time
  <2>1. PICK place \in Addresses \cup {nullptr} :
            /\ place # nullptr => Without(slot)[place] = Unallocated
            /\ Rewritten(slot, Stored(url), time, place)
            /\ answer' = [url |-> url, address |-> place]
    BY <1>0, <1>2, LookupStep
  <2>2. /\ slot \in Slots
        /\ Stored(url) \in ShortNames \cup {Cut} /\ Stored(url) # ""
        /\ time \in 0 .. MaxTime /\ time <= now
    BY <1>0, SlotForIsSlot, QueryFacts
  <2> HIDE DEF slot, time
  <2>3. /\ OwnerInv'
        /\ cached_entries' \in [Slots -> Entries]
        /\ heap' \in [Addresses -> Cells]
    BY <1>0, <2>1, <2>2, SlotRewritten
  <2>4. answer'.url = url /\ answer'.address = place
    BY <2>1
  <2>5. StoredHost'
    <3>1. SUFFICES ASSUME place # nullptr PROVE heap'[place].of = Stored(url)
      BY <2>4 DEF StoredHost
    <3>2. heap'[place] = [of |-> Stored(url), at |-> now]
      BY <2>1, <3>1 DEF Rewritten
    <3> QED
      BY <3>2, AddressFields
  <2>6. answer' \in [url : Names \cup {""}, address : Addresses \cup {nullptr}]
    BY <2>1
  <2>7. TypeOK'
    BY <1>0, <2>1, <2>3, <2>6 DEF TypeOK, Entries, Cells, Rewritten
  <2> QED
    BY <2>3, <2>5, <2>7 DEF IInv
<1>3. CASE Tick
  <2>1. /\ now' = now + 1 /\ now < MaxTime
        /\ UNCHANGED <<cached_entries, heap, answer>>
    BY <1>3 DEF Tick
  <2>2. now' \in 0 .. MaxTime
    BY <1>0, <2>1, NowType
  <2>3. TypeOK'
    BY <1>0, <2>1, <2>2 DEF TypeOK, Entries, Cells
  <2>4. \A slot \in Slots : cached_entries[slot].lookup_time <= now'
    <3>1. \A slot \in Slots : cached_entries[slot].lookup_time \in 0 .. MaxTime
      BY <1>0 DEF TypeOK, Entries, Cells
    <3>2. \A slot \in Slots : cached_entries[slot].lookup_time <= now
      BY <1>0 DEF OwnerInv
    <3> QED
      BY <1>0, <2>1, <3>1, <3>2, NowType
  <2>5. OwnerInv'
    BY <1>0, <2>1, <2>4 DEF OwnerInv, Pointer, Allocated
  <2>6. StoredHost'
    BY <1>0, <2>1 DEF StoredHost
  <2> QED
    BY <2>3, <2>5, <2>6 DEF IInv
<1>4. CASE UNCHANGED dnsVars
  <2>1. UNCHANGED <<cached_entries, now, heap, answer>>
    BY <1>4 DEF dnsVars
  <2> QED
    BY <1>0, <2>1 DEF IInv, TypeOK, Entries, Cells, OwnerInv, StoredHost, Pointer, Allocated
<1> QED
  BY <1>1, <1>2, <1>3, <1>4 DEF Next, resolve_dns_with_caching

-----------------------------------------------------------------------------
(* The theorems. *)

\* Every entry and every address keeps its type; First and Oldest always pick a
\* slot, and a lookup always finds a place for its address.
THEOREM TypeCorrect == Spec => []TypeOK
<1>1. IInv => TypeOK
  BY DEF IInv
<1> QED
  BY InitIInv, NextIInv, <1>1, PTL DEF Spec

\* AddressesOwned: whatever is evicted, looked up again or fails, no addrinfo is
\* leaked, freed twice, or pointed at after it was freed.
THEOREM NothingLeaked == Spec => []AddressesOwned
<1>1. IInv => AddressesOwned
  <2> SUFFICES ASSUME IInv, NEW address \in Addresses
               PROVE  Cardinality({slot \in Slots : cached_entries[slot].info_ptr = address})
                          = IF heap[address] = Unallocated THEN 0 ELSE 1
    BY DEF AddressesOwned
  <2> DEFINE owners == {slot \in Slots : cached_entries[slot].info_ptr = address}
  <2>0. OwnerInv /\ address # nullptr
    BY NullIsNoAddress DEF IInv
  <2>1. CASE heap[address] = Unallocated
    <3>1. owners = {}
      BY <2>0, <2>1 DEF OwnerInv, Pointer, Allocated
    <3> QED
      BY <2>1, <3>1, FS_EmptySet
  <2>2. CASE heap[address] # Unallocated
    <3>1. PICK slot \in Slots : cached_entries[slot].info_ptr = address
      BY <2>0, <2>2 DEF OwnerInv, Pointer, Allocated
    <3>2. owners = {slot}
      BY <2>0, <3>1 DEF OwnerInv, Pointer
    <3> QED
      BY <2>2, <3>2, FS_Singleton
  <2> QED
    BY <2>1, <2>2
<1> QED
  BY InitIInv, NextIInv, <1>1, PTL DEF Spec

\* RightHost: for a name that fits, the address a call returns is that of the
\* host it asked for, and of no other name that had its slot before.  (It is
\* what StoredHost says of the names that are not cut.)
THEOREM AnswersTheName == Spec => []RightHost
<1>1. IInv => RightHost
  BY DnsAssumption DEF DnsAssumption, IInv, StoredHost, RightHost, Stored
<1> QED
  BY InitIInv, NextIInv, <1>1, PTL DEF Spec

\* FreshFromCache: an address that comes from the cache was looked up less than
\* MaxAge ago, because it is never older than its entry.
THEOREM CachedIsFresh == Spec => FreshFromCache
<1> DEFINE Fresh == \A url \in Names : AnswerFromCache(url, FALSE)
                        => now - heap[Query(url).info_ptr].at < MaxAge
<1>1. IInv => Fresh
  <2> SUFFICES ASSUME IInv, NEW url \in Names, AnswerFromCache(url, FALSE)
               PROVE  now - heap[Query(url).info_ptr].at < MaxAge
    OBVIOUS
  <2> DEFINE query == Query(url)
             slot == SlotFor(url)
             looked_up == heap[query.info_ptr].at
             made == query.lookup_time
  <2>0. TypeOK /\ OwnerInv /\ FALSE \in BOOLEAN
    BY DEF IInv
  <2>1. query = cached_entries[slot] /\ query.info_ptr # nullptr /\ slot \in Slots
    BY <2>0, CacheStep, SlotForIsSlot
  <2>2. query.info_ptr \in Addresses
    BY <2>0, <2>1, EntryTypes DEF Pointer
  <2>3. looked_up >= made
    BY <2>0, <2>1 DEF OwnerInv, Pointer
  <2>4. now - made < MaxAge
    BY DEF AnswerFromCache, Usable
  <2>5. looked_up \in 0 .. MaxTime /\ made \in 0 .. MaxTime
    BY <2>0, <2>2, QueryFacts DEF TypeOK, Entries, Cells
  <2>6. MaxAge \in Nat /\ MaxTime \in Nat /\ now \in Nat
    BY <2>0, DnsAssumption, NowType DEF DnsAssumption
  <2> HIDE DEF looked_up, made
  <2>7. now - looked_up < MaxAge
    BY <2>3, <2>4, <2>5, <2>6
  <2> QED
    BY <2>7 DEF looked_up
<1> HIDE DEF Fresh
<1>2. IInv => [Fresh]_dnsVars
  BY <1>1
<1>3. [][Fresh]_dnsVars => FreshFromCache
  BY DEF FreshFromCache, Fresh
<1> QED
  BY InitIInv, NextIInv, <1>2, <1>3, PTL DEF Spec

=============================================================================
