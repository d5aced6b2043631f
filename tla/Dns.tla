-------------------------------- MODULE Dns ---------------------------------
(***************************************************************************)
(* src/src/networking/dns.cpp: resolve_dns_with_caching().                 *)
(*                                                                         *)
(* One thread calls it, so a call is one step; time passes between calls.  *)
(* The module checks the function for all the arguments it takes; the      *)
(* firmware itself passes the name of its one server and never asks to     *)
(* invalidate.  The port is left out: every call passes the same.          *)
(*                                                                         *)
(* A name of URL_MAX_SIZE characters or more is stored and looked up cut,  *)
(* and never found again.  An address (addrinfo) is known by its place in  *)
(* heap, which can be taken again once it is freed.                        *)
(***************************************************************************)
EXTENDS Integers, FiniteSets

CONSTANTS
    CONFIG_DNS_CACHE_ENTRIES,
    ShortNames, LongNames,  \* urls; LongNames have the same first 31 characters
    Cut,                    \* those 31 characters
    MaxAge,                 \* ticks; 43200000 ms, 12 hours
    MaxTime                 \* bound: ticks

ASSUME DnsAssumption ==
    /\ CONFIG_DNS_CACHE_ENTRIES \in Nat \ {0}
    /\ ShortNames \cap LongNames = {}
    /\ Cut \notin ShortNames \cup LongNames
    /\ MaxAge \in Nat \ {0}
    /\ MaxTime \in Nat
ASSUME NameAssumption == "" \notin ShortNames \cup LongNames \cup {Cut}

VARIABLES
    cached_entries,
    now,                \* uptime
    heap,               \* the addresses: of which name, looked up when
    answer              \* the url of the last call, and its result

dnsVars == <<cached_entries, now, heap, answer>>

Names == ShortNames \cup LongNames
Stored(url) == IF url \in LongNames THEN Cut ELSE url

Slots == 1 .. CONFIG_DNS_CACHE_ENTRIES
FreeEntry == [name |-> "", lookup_time |-> 0, info_ptr |-> 0]
nullptr == 0

\* One place more than there are entries.
Addresses == 1 .. CONFIG_DNS_CACHE_ENTRIES + 1
Unallocated == [of |-> "", at |-> 0]

TypeOK ==
    /\ cached_entries \in [Slots -> [name : ShortNames \cup {Cut, ""},
                                     lookup_time : 0 .. MaxTime,
                                     info_ptr : Addresses \cup {nullptr}]]
    /\ now \in 0 .. MaxTime
    /\ heap \in [Addresses -> [of : ShortNames \cup {Cut, ""}, at : 0 .. MaxTime]]
    /\ answer \in [url : Names \cup {""}, address : Addresses \cup {nullptr}]

Init ==
    /\ cached_entries = [slot \in Slots |-> FreeEntry]
    /\ now = 0
    /\ heap = [address \in Addresses |-> Unallocated]
    /\ answer = [url |-> "", address |-> nullptr]

-----------------------------------------------------------------------------

Holding(name) == {slot \in Slots : cached_entries[slot].name = name}

First(numbers) == CHOOSE n \in numbers : \A m \in numbers : n <= m

\* clear_least_recently_used() picks the entry inserted first.
Oldest == First({slot \in Slots : \A other \in Slots :
              cached_entries[slot].lookup_time <= cached_entries[other].lookup_time})

Found(url) == Holding(url) # {}

\* find_first_free_cache_slot() before an eviction.
SlotFor(url) ==
    IF Found(url) THEN First(Holding(url))
    ELSE IF Holding("") # {} THEN First(Holding(""))
    ELSE Oldest

Freed(memory, address) ==
    IF address = nullptr THEN memory
    ELSE [memory EXCEPT ![address] = Unallocated]

\* Mutant: a reused slot keeps the address of the entry that was there.
Query_KeepsAddress(url) ==
    IF Found(url) THEN cached_entries[SlotFor(url)]
    ELSE [name |-> Stored(url), lookup_time |-> now,
          info_ptr |-> cached_entries[SlotFor(url)].info_ptr]

\* Mutant: the time of expiry is stored for the time of the lookup.
Query_StoresExpiry(url) ==
    IF Found(url) THEN cached_entries[SlotFor(url)]
    ELSE [name |-> Stored(url), lookup_time |-> now + MaxAge, info_ptr |-> nullptr]

\* The entry that answers the call: the one found, or a new one.
Query(url) ==
    IF Found(url) THEN cached_entries[SlotFor(url)]
    ELSE [name |-> Stored(url), lookup_time |-> now, info_ptr |-> nullptr]

\* Mutant: the age is not looked at.
Usable_AnyAge(query, force_invalidate) ==
    ~force_invalidate /\ query.info_ptr # nullptr

Usable(query, force_invalidate) ==
    /\ now - query.lookup_time < MaxAge
    /\ ~force_invalidate
    /\ query.info_ptr # nullptr

\* The memory once the slot is taken: an eviction frees the entry's address.
AfterEviction(url) ==
    IF Found(url) THEN heap ELSE Freed(heap, cached_entries[SlotFor(url)].info_ptr)

AnswerFromCache(url, force_invalidate) ==
    LET query == Query(url) IN
    /\ Usable(query, force_invalidate)
    /\ cached_entries' = [cached_entries EXCEPT ![SlotFor(url)] = query]
    /\ heap' = AfterEviction(url)
    /\ answer' = [url |-> url, address |-> query.info_ptr]
    /\ UNCHANGED now

\* actually_resolve(): the old address is freed first.
AnswerFromServer(url, force_invalidate) ==
    LET query == Query(url)
        memory == Freed(AfterEviction(url), query.info_ptr)
        places == {address \in Addresses : memory[address] = Unallocated}
    IN  /\ ~Usable(query, force_invalidate)
        /\ heap' = [memory EXCEPT ![First(places)] = [of |-> query.name, at |-> now]]
        /\ cached_entries' = [cached_entries EXCEPT ![SlotFor(url)] =
                                 [query EXCEPT !.info_ptr = First(places)]]
        /\ answer' = [url |-> url, address |-> First(places)]
        /\ UNCHANGED now

\* Mutant: the pointer is not reset after the address was freed.
NoAnswer_Dangling(url, force_invalidate) ==
    LET query == Query(url) IN
    /\ ~Usable(query, force_invalidate)
    /\ heap' = Freed(AfterEviction(url), query.info_ptr)
    /\ cached_entries' = [cached_entries EXCEPT ![SlotFor(url)] = query]
    /\ answer' = [url |-> url, address |-> nullptr]
    /\ UNCHANGED now

\* All three attempts failed: the entry stays, without an address.
NoAnswer(url, force_invalidate) ==
    LET query == Query(url) IN
    /\ ~Usable(query, force_invalidate)
    /\ heap' = Freed(AfterEviction(url), query.info_ptr)
    /\ cached_entries' = [cached_entries EXCEPT ![SlotFor(url)] =
                             [query EXCEPT !.info_ptr = nullptr]]
    /\ answer' = [url |-> url, address |-> nullptr]
    /\ UNCHANGED now

resolve_dns_with_caching(url, force_invalidate) ==
    \/ AnswerFromCache(url, force_invalidate)
    \/ AnswerFromServer(url, force_invalidate)
    \/ NoAnswer(url, force_invalidate)

Tick ==
    /\ now < MaxTime
    /\ now' = now + 1
    /\ UNCHANGED <<cached_entries, heap, answer>>

Next ==
    \/ \E url \in Names, force_invalidate \in BOOLEAN :
           resolve_dns_with_caching(url, force_invalidate)
    \/ Tick

Spec == Init /\ [][Next]_dnsVars

-----------------------------------------------------------------------------

\* Every address allocated is in exactly one entry, and no entry has one that is
\* freed: evictions, repeated and failed lookups leak no addrinfo, free none
\* twice, and none is returned after it was freed.
AddressesOwned ==
    \A address \in Addresses :
        Cardinality({slot \in Slots : cached_entries[slot].info_ptr = address})
            = IF heap[address] = Unallocated THEN 0 ELSE 1

\* The address returned for a name that fits is that of the host asked for,
\* whatever slot it went through: none that the slot had for an evicted name, or
\* that another name was given when this one's address was freed.
RightHost ==
    answer.address # nullptr /\ answer.url \in ShortNames
        => heap[answer.address].of = answer.url

\* src/Kconfig:13, "Url for traccar server": the server's name, of any length, is
\* the one that is looked up (dns.cpp:147, "Resolve DNS").
NameAsked == answer.address # nullptr => heap[answer.address].of = answer.url

\* dns.cpp:153, "12 Hours" (line 152 says 10): an address from the cache was
\* looked up less than MaxAge ago.
FreshFromCache ==
    [][\A url \in Names : AnswerFromCache(url, FALSE)
        => now - heap[Query(url).info_ptr].at < MaxAge]_dnsVars

=============================================================================
