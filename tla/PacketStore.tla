---------------------------- MODULE PacketStore -----------------------------
(***************************************************************************)
(* What the uplink promises about position reports, without queues, work   *)
(* items or sockets: a report is turned away or given up untransmitted     *)
(* only when the store is full, and otherwise it stays owed until it has   *)
(* been transmitted.  NetworkRequests implements this specification.       *)
(***************************************************************************)
EXTENDS Naturals, FiniteSets

CONSTANTS
    Reports,    \* every report there may ever be
    Room        \* how many reports the message queue holds

VARIABLES
    owed,       \* accepted and not yet finished with
    done,       \* finished with: settled, given up or turned away
    sent        \* transmitted at least once

storeVars == <<owed, done, sent>>

Init ==
    /\ owed = {}
    /\ done = {}
    /\ sent = {}

\* The report being worked on is outside the queue: one more than Room.
Accept(r) ==
    /\ r \notin owed \cup done
    /\ Cardinality(owed) <= Room
    /\ owed' = owed \cup {r}
    /\ UNCHANGED <<done, sent>>

TurnAway(r) ==
    /\ r \notin owed \cup done
    /\ Cardinality(owed) >= Room
    /\ done' = done \cup {r}
    /\ UNCHANGED <<owed, sent>>

Transmit(r) ==
    /\ r \in owed
    /\ sent' = sent \cup {r}
    /\ UNCHANGED <<owed, done>>

Finish(r) ==
    /\ owed' = owed \ {r}
    /\ done' = done \cup {r}
    /\ UNCHANGED sent

Settle(r) ==
    /\ r \in owed \cap sent
    /\ Finish(r)

GiveUp(r) ==
    /\ r \in owed
    /\ Cardinality(owed) > Room
    /\ Finish(r)

Next ==
    \E r \in Reports :
        Accept(r) \/ TurnAway(r) \/ Transmit(r) \/ Settle(r) \/ GiveUp(r)

Spec == Init /\ [][Next]_storeVars

=============================================================================
