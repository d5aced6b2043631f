-------------------------- MODULE NetworkRequests ---------------------------
(***************************************************************************)
(* src/src/networking/network_requests.cpp: the message queue of position  *)
(* packets, the polled work item that drains it when the antenna is free,  *)
(* and the HTTPS exchange that uploads one packet.                         *)
(*                                                                         *)
(* Threads.  send_gps_update() runs on the GPS work queue's thread (prod); *)
(* handle_network_request() runs on the network work queue's thread (pc,   *)
(* one step for every call that blocks or touches shared state); the       *)
(* antenna signal is raised and reset by the GNSS interrupt handler; the   *)
(* L4 events come from the network management thread.  Any of them may     *)
(* run between any two steps of another.                                   *)
(*                                                                         *)
(* A packet is the number of the send_gps_update() call that built it.     *)
(***************************************************************************)
EXTENDS Connectivity, Sequences, FiniteSets

CONSTANTS
    Capacity,       \* K_MSGQ_DEFINE: 20 packets
    MaxPackets,     \* bound: calls of send_gps_update in a behaviour
    HOUR,           \* ticks; the K_HOURS(1) of send_gps_update
    HourCanPass     \* FALSE: behaviours shorter than one of these ticks

ASSUME CapacityAssumption == Capacity \in Nat \ {0}
ASSUME MaxPacketsAssumption == MaxPackets \in Nat
ASSUME HourAssumption == HOUR \in Nat \ {0} /\ HourCanPass \in BOOLEAN

VARIABLES
    modem_is_free_signal,   \* the k_poll_signal: TRUE when raised
    handle_message_queue,   \* the k_work_poll item
    hour_left,              \* ticks left of its timeout
    network_requests_msgq,  \* packets, oldest first
    prod,                   \* where send_gps_update is
    next,                   \* the packet the next call builds
    pc,                     \* where handle_network_request is
    packet,                 \* its local packet, 0 when it holds none
    sockets,                \* sockets the modem has open for it
    tls_options,            \* the setsockopt() calls that have set up its socket
    sent                    \* history: packets for which send() succeeded

pollVars == <<modem_is_free_signal, handle_message_queue, hour_left>>
prodVars == <<prod, next>>
handlerVars == <<pc, packet, sockets, tls_options, sent>>
netVars == <<connVars, pollVars, prodVars, handlerVars, network_requests_msgq>>

Packets == 1 .. MaxPackets
NoPacket == 0

\* "idle": not submitted; "hour" and "forever": watching the signal, with and
\* without a timeout; "queued": on the work queue, the signal no longer read.
PollWork == {"idle", "hour", "forever", "queued"}
Armed == handle_message_queue \in {"hour", "forever"}

\* tls_setup(): TLS_PEER_VERIFY, TLS_SEC_TAG_LIST, TLS_HOSTNAME and
\* TLS_SESSION_CACHE, in this order.
TlsSteps == {"verify", "sec_tag", "hostname", "session_cache"}
NextOption == [verify |-> "sec_tag", sec_tag |-> "hostname",
               hostname |-> "session_cache", session_cache |-> "dial"]

HandlerPc == {"idle", "get", "connect", "await", "resolve", "socket", "dial",
              "send", "recv", "reply", "failed", "check", "resubmit",
              "disconnect"} \cup TlsSteps

\* Steps at which the handler's socket is open.
SocketSteps == {"dial", "send", "recv", "reply"} \cup TlsSteps

\* Steps at which the handler holds a packet it took from the queue.
HoldSteps == {"connect", "await", "resolve", "socket", "failed"} \cup SocketSteps

TypeOK ==
    /\ ConnTypeOK
    /\ modem_is_free_signal \in BOOLEAN
    /\ handle_message_queue \in PollWork
    /\ hour_left \in 0 .. HOUR
    /\ network_requests_msgq \in Seq(Packets)
    /\ prod \in {"idle", "submit"}
    /\ next \in 1 .. MaxPackets + 1
    /\ pc \in HandlerPc
    /\ packet \in Packets \cup {NoPacket}
    /\ sockets \in Nat
    /\ tls_options \subseteq TlsSteps
    /\ sent \subseteq Packets

\* network_requests_init(), after networking_init(): the signal starts unset.
Init ==
    /\ networking_init
    /\ modem_is_free_signal = FALSE
    /\ handle_message_queue = "idle"
    /\ hour_left = 0
    /\ network_requests_msgq = <<>>
    /\ prod = "idle"
    /\ next = 1
    /\ pc = "idle"
    /\ packet = NoPacket
    /\ sockets = 0
    /\ tls_options = {}
    /\ sent = {}

-----------------------------------------------------------------------------
(* The polled work item: k_work_poll_submit_to_queue and its triggers. *)

\* Already on the queue: -EINVAL and no change.  Signal up: onto the queue at
\* once.  Otherwise it watches the signal, with this timeout, from its start,
\* instead of what it had left of another.
Submit(timeout) ==
    LET result == IF handle_message_queue = "queued" \/ modem_is_free_signal
                  THEN "queued" ELSE timeout
    IN  /\ handle_message_queue' = result
        /\ hour_left' = IF result = "hour" THEN HOUR ELSE 0

\* k_poll_signal_raise(): the level is set and a watching item is queued.
SignalRaise ==
    /\ modem_is_free_signal' = TRUE
    /\ handle_message_queue' = IF Armed THEN "queued" ELSE handle_message_queue
    /\ hour_left' = 0
    /\ UNCHANGED <<connVars, prodVars, handlerVars, network_requests_msgq>>

\* k_poll_signal_reset(): an item that is queued stays queued.
SignalReset ==
    /\ modem_is_free_signal' = FALSE
    /\ UNCHANGED <<connVars, prodVars, handlerVars, network_requests_msgq,
                   handle_message_queue, hour_left>>

\* Time passes, but not past the end of the timeout.
HourTick ==
    /\ HourCanPass
    /\ hour_left > 0
    /\ hour_left' = hour_left - 1
    /\ UNCHANGED <<connVars, prodVars, handlerVars, network_requests_msgq,
                   modem_is_free_signal, handle_message_queue>>

\* K_HOURS(1) went by, since the last submission, without the signal.
HourExpires ==
    /\ handle_message_queue = "hour" /\ hour_left = 0
    /\ handle_message_queue' = "queued"
    /\ UNCHANGED <<connVars, prodVars, handlerVars, network_requests_msgq,
                   modem_is_free_signal, hour_left>>

-----------------------------------------------------------------------------
(* send_gps_update *)

Full == Len(network_requests_msgq) >= Capacity

PutPacket ==
    /\ prod = "idle" /\ next <= MaxPackets
    /\ ~Full
    /\ network_requests_msgq' = Append(network_requests_msgq, next)
    /\ next' = next + 1
    /\ prod' = "submit"
    /\ UNCHANGED <<connVars, pollVars, handlerVars>>

\* -ENOMSG: the packet is dropped and the work item is not submitted.
RejectPacket ==
    /\ prod = "idle" /\ next <= MaxPackets
    /\ Full
    /\ next' = next + 1
    /\ UNCHANGED <<connVars, pollVars, handlerVars, network_requests_msgq, prod>>

\* Mutant: the result of k_poll_signal_check() decides on the submission.
SubmitWork_OnlyIfFree ==
    /\ prod = "submit"
    /\ prod' = "idle"
    /\ IF modem_is_free_signal THEN Submit("hour")
       ELSE UNCHANGED <<handle_message_queue, hour_left>>
    /\ UNCHANGED <<connVars, handlerVars, network_requests_msgq, next,
                   modem_is_free_signal>>


\* The result of k_poll_signal_check() is not used.
SubmitWork ==
    /\ prod = "submit"
    /\ prod' = "idle"
    /\ Submit("hour")
    /\ UNCHANGED <<connVars, handlerVars, network_requests_msgq, next,
                   modem_is_free_signal>>

-----------------------------------------------------------------------------
(* handle_network_request and send_http_request *)

\* A handler step that moves the program counter and nothing else of its own.
Goto(from, to) ==
    /\ pc = from
    /\ pc' = to
    /\ UNCHANGED <<packet, sockets, tls_options, sent>>

\* The work queue thread takes the item; from here it can be submitted again.
StartHandler ==
    /\ handle_message_queue = "queued"
    /\ handle_message_queue' = "idle"
    /\ Goto("idle", "get")
    /\ UNCHANGED <<connVars, prodVars, network_requests_msgq, modem_is_free_signal,
                   hour_left>>

\* Mutant: k_msgq_peek instead of k_msgq_get.
GetPacket_Peek ==
    /\ pc = "get"
    /\ network_requests_msgq # <<>>
    /\ packet' = Head(network_requests_msgq)
    /\ pc' = "connect"
    /\ UNCHANGED <<connVars, pollVars, prodVars, sockets, tls_options, sent,
                   network_requests_msgq>>

GetPacket ==
    /\ pc = "get"
    /\ network_requests_msgq # <<>>
    /\ packet' = Head(network_requests_msgq)
    /\ network_requests_msgq' = Tail(network_requests_msgq)
    /\ pc' = "connect"
    /\ UNCHANGED <<connVars, pollVars, prodVars, sockets, tls_options, sent>>

\* "called with nothing to process": the early return.
NothingToProcess ==
    /\ network_requests_msgq = <<>>
    /\ Goto("get", "idle")
    /\ UNCHANGED <<connVars, pollVars, prodVars, network_requests_msgq>>

\* set_networking_state(Connected), whose result is not looked at.
AskForNetwork ==
    /\ \/ AlreadyIn("Connected") /\ Goto("connect", "resolve")
       \/ ConnectRefused /\ Goto("connect", "resolve")
       \/ ConnectAccepted /\ Goto("connect", "await")
    /\ UNCHANGED <<pollVars, prodVars, network_requests_msgq>>

\* Mutant: the semaphore is taken with K_FOREVER.
AwaitNetwork_Forever ==
    /\ TakeNetworkConnected
    /\ Goto("await", "resolve")
    /\ UNCHANGED <<pollVars, prodVars, network_requests_msgq>>

AwaitNetwork ==
    /\ TakeNetworkConnected \/ WaitTimesOut
    /\ Goto("await", "resolve")
    /\ UNCHANGED <<pollVars, prodVars, network_requests_msgq>>

\* A cached address is returned whether or not there is a network.
Resolve ==
    /\ Goto("resolve", "socket") \/ Goto("resolve", "failed")
    /\ UNCHANGED <<connVars, pollVars, prodVars, network_requests_msgq>>

\* Mutant: the cleanup closes the descriptor that socket() did not return.
OpenSocket_ClosesInvalid ==
    /\ pc = "socket"
    /\ \/ pc' = "verify" /\ sockets' = sockets + 1
       \/ pc' = "failed" /\ sockets' = sockets - 1
    /\ UNCHANGED <<connVars, pollVars, prodVars, network_requests_msgq, packet,
                   tls_options, sent>>

OpenSocket ==
    /\ pc = "socket"
    /\ \/ pc' = "verify" /\ sockets' = sockets + 1
       \/ pc' = "failed" /\ UNCHANGED sockets
    /\ UNCHANGED <<connVars, pollVars, prodVars, network_requests_msgq, packet,
                   tls_options, sent>>

\* Mutant: an error of setsockopt() is logged only.
SetTlsOption_IgnoresError ==
    /\ pc \in TlsSteps
    /\ pc' = NextOption[pc]
    /\ tls_options' \in {tls_options, tls_options \cup {pc}}
    /\ UNCHANGED <<connVars, pollVars, prodVars, network_requests_msgq, packet,
                   sockets, sent>>

\* One setsockopt() of tls_setup() that succeeds.
SetTlsOption ==
    /\ pc \in TlsSteps
    /\ pc' = NextOption[pc]
    /\ tls_options' = tls_options \cup {pc}
    /\ UNCHANGED <<connVars, pollVars, prodVars, network_requests_msgq, packet,
                   sockets, sent>>

\* connect() that succeeds, the one call that needs the network at that very
\* moment.
Dial ==
    /\ link = "online"
    /\ Goto("dial", "send")
    /\ UNCHANGED <<connVars, pollVars, prodVars, network_requests_msgq>>

\* send() returned a count, which is not compared with the packet's length.
Send ==
    /\ pc = "send"
    /\ pc' = "recv"
    /\ sent' = sent \cup {packet}
    /\ UNCHANGED <<connVars, pollVars, prodVars, network_requests_msgq, packet,
                   sockets, tls_options>>

\* Any count, 0 included: the peer may have closed without an answer.
Recv ==
    /\ Goto("recv", "reply")
    /\ UNCHANGED <<connVars, pollVars, prodVars, network_requests_msgq>>

\* Mutant: a path that returns without the cleanup.
ExchangeFails_NoCleanup ==
    /\ pc \in SocketSteps \ {"reply"}
    /\ pc' = "failed"
    /\ sockets' = IF pc = "recv" THEN sockets ELSE sockets - 1
    /\ tls_options' = {}
    /\ UNCHANGED <<connVars, pollVars, prodVars, network_requests_msgq, packet, sent>>

\* A failed call closes the socket and returns -1.
ExchangeFails ==
    /\ pc \in SocketSteps \ {"reply"}
    /\ pc' = "failed"
    /\ sockets' = sockets - 1
    /\ tls_options' = {}
    /\ UNCHANGED <<connVars, pollVars, prodVars, network_requests_msgq, packet, sent>>

\* A DEBUG word in the answer switches the power mode (module PowerMode's
\* business, nothing of this state); then the socket is closed and the packet
\* is finished with.
Reply ==
    /\ pc = "reply"
    /\ pc' = "check"
    /\ sockets' = sockets - 1
    /\ tls_options' = {}
    /\ packet' = NoPacket
    /\ UNCHANGED <<connVars, pollVars, prodVars, network_requests_msgq, sent>>

\* Mutant: the packet is put back only when the queue is empty.
Requeue_OnlyIntoEmpty ==
    /\ pc = "failed"
    /\ pc' = "check"
    /\ network_requests_msgq' = IF network_requests_msgq # <<>> THEN network_requests_msgq
                                ELSE Append(network_requests_msgq, packet)
    /\ packet' = NoPacket
    /\ UNCHANGED <<connVars, pollVars, prodVars, sockets, tls_options, sent>>

\* Mutant: a failed packet is dropped and the handler returns at once.
Requeue_DropAndReturn ==
    /\ pc = "failed"
    /\ pc' = "idle"
    /\ packet' = NoPacket
    /\ UNCHANGED <<connVars, pollVars, prodVars, sockets, tls_options, sent,
                   network_requests_msgq>>

\* send_rc != 0: back to the end of the queue, if there is room for it.
Requeue ==
    /\ pc = "failed"
    /\ pc' = "check"
    /\ network_requests_msgq' = IF Full THEN network_requests_msgq
                                ELSE Append(network_requests_msgq, packet)
    /\ packet' = NoPacket
    /\ UNCHANGED <<connVars, pollVars, prodVars, sockets, tls_options, sent>>

CheckQueue ==
    /\ IF network_requests_msgq # <<>>
       THEN Goto("check", "resubmit")
       ELSE Goto("check", "disconnect")
    /\ UNCHANGED <<connVars, pollVars, prodVars, network_requests_msgq>>

\* Mutant: the item is left to the next send_gps_update.
Resubmit_Nothing ==
    /\ Goto("resubmit", "idle")
    /\ UNCHANGED <<connVars, pollVars, prodVars, network_requests_msgq>>

Resubmit ==
    /\ Submit("forever")
    /\ Goto("resubmit", "idle")
    /\ UNCHANGED <<connVars, prodVars, network_requests_msgq, modem_is_free_signal>>

\* set_networking_state(Disconnected); never its early return, because the
\* state remembered here is always "Connected" (ConnectedUntilDrained).
Disconnect ==
    /\ DisconnectDone \/ DisconnectRefused
    /\ Goto("disconnect", "idle")
    /\ UNCHANGED <<pollVars, prodVars, network_requests_msgq>>

-----------------------------------------------------------------------------

L4Event ==
    /\ L4Connected \/ L4Disconnected
    /\ UNCHANGED <<pollVars, prodVars, handlerVars, network_requests_msgq>>

send_gps_update == PutPacket \/ RejectPacket \/ SubmitWork

send_http_request ==
    \/ AskForNetwork \/ AwaitNetwork \/ Resolve \/ OpenSocket \/ SetTlsOption
    \/ Dial \/ Send \/ Recv \/ ExchangeFails \/ Reply

handle_network_request ==
    \/ StartHandler \/ GetPacket \/ NothingToProcess
    \/ send_http_request
    \/ Requeue \/ CheckQueue \/ Resubmit \/ Disconnect

Next ==
    \/ send_gps_update
    \/ handle_network_request
    \/ SignalRaise \/ SignalReset \/ HourTick \/ HourExpires
    \/ L4Event

Spec == Init /\ [][Next]_netVars

(***************************************************************************)
(* The two threads are scheduled, and time passes until the item's timeout *)
(* expires.  Every wait of the handler is bounded but one: recv() has no   *)
(* timeout, so it may never return.                                        *)
(***************************************************************************)
Fairness ==
    /\ WF_netVars(SubmitWork)
    /\ WF_netVars(handle_network_request /\ pc # "recv")
    /\ WF_netVars(HourTick)
    /\ WF_netVars(HourExpires)

FairSpec == Spec /\ Fairness

\* In addition, a connection manager asked again and again accepts.
AcceptingSpec == FairSpec /\ SF_netVars(AskForNetwork /\ ConnectAccepted)

-----------------------------------------------------------------------------
(* Safety *)

\* A packet in the queue always has something that will come back for it: a
\* submitted work item, a handler that has yet to look at the queue, or
\* send_gps_update about to submit.  (k_msgq_put and the submission are two
\* steps, the handler's look at the queue and its resubmission two more.)
NoStrandedPackets ==
    network_requests_msgq # <<>> =>
        \/ handle_message_queue # "idle"
        \/ pc \notin {"idle", "disconnect"}
        \/ prod = "submit"

\* The firmware believes it is connected only while it is working on a packet
\* or has packets left: the last one handled always reaches the disconnect.
ConnectedUntilDrained ==
    /\ current_state = "Connected" =>
           pc \notin {"idle", "get"} \/ network_requests_msgq # <<>>
    /\ pc = "disconnect" => current_state = "Connected"

\* The handler's socket is open exactly during the exchange: no path out of
\* send_http_request leaks it or closes it twice.
SocketsClosed == sockets = IF pc \in SocketSteps THEN 1 ELSE 0

\* A position is sent only on a connection that tls_setup() has secured: the
\* server's certificate is required, checked against the one provisioned at
\* boot, and must carry the server's name, whichever of the calls failed before
\* on this or an earlier socket.
ServerVerified ==
    pc \in {"dial", "send", "recv", "reply"} =>
        {"verify", "sec_tag", "hostname"} \subseteq tls_options

\* Neither the queue nor the handler ever holds a packet twice, whatever the
\* interleaving of new packets and retries; so no report is uploaded by two
\* requests unless its own exchange failed.
NoDuplicates ==
    /\ \A i, j \in DOMAIN network_requests_msgq :
           network_requests_msgq[i] = network_requests_msgq[j] => i = j
    /\ \A i \in DOMAIN network_requests_msgq :
           network_requests_msgq[i] \notin {packet, next}

-----------------------------------------------------------------------------
(* Refinement: the queue and the handler implement the store of reports. *)

Owed == {network_requests_msgq[i] : i \in DOMAIN network_requests_msgq}
        \cup ({packet} \ {NoPacket})

Store == INSTANCE PacketStore WITH
    Reports <- Packets,
    Room <- Capacity,
    owed <- Owed,
    done <- (1 .. next - 1) \ Owed,
    sent <- sent

\* A packet is dropped untransmitted only when the queue is full; every other
\* packet is kept, through failures and retries, until send() succeeded.
ImplementsPacketStore == Store!Spec

-----------------------------------------------------------------------------
(* Liveness *)

\* Queued packets are eventually worked on, unless from some time on the
\* antenna never becomes free again.
WaitingPacketsServed ==
    network_requests_msgq # <<>> ~> (pc # "idle" \/ [](~modem_is_free_signal))

\* The handler is not at work, or about to return without another look at the
\* queue.
AtRest == pc \in {"idle", "disconnect"}


\* A run of the handler ends, unless the server never answers: recv() is the
\* only place where it can stay for ever.
HandlerReturns == pc # "idle" ~> pc \in {"idle", "recv"}

\* network_requests.cpp:118, "Make sure we're connected": a connection manager
\* that accepts a request now and then is asked again for as long as requests
\* are being handled.
NetworkAskedFor == []<>(pc = "resolve") => []<>RadioOn

\* connectivity.cpp:79, "waiting for online event": the semaphore is empty when
\* a wait for a new connection starts, so that only that connection ends it.
WaitsForNewEvent ==
    [][pc = "connect" /\ pc' = "await" /\ link # "online"
        => network_connected = 0]_netVars

=============================================================================
