----------------------- MODULE NetworkRequestsProofs ------------------------
(***************************************************************************)
(* The safety properties of NetworkRequests, and that it implements        *)
(* PacketStore, proved for every queue capacity, every number of packets   *)
(* and every choice of HourCanPass.                                        *)
(*                                                                         *)
(* Each property is made inductive by what it forgets: where the socket is *)
(* open, in which steps the handler holds a packet, what the step after a  *)
(* look at the queue may still assume of it.                               *)
(***************************************************************************)
EXTENDS NetworkRequests, FiniteSetTheorems, TLAPS

\* The handler's program counter decides whether it holds a packet, whether
\* its socket is open, and whether it has asked for the network; a resubmission
\* is decided on a queue that only the handler itself can empty.
HandlerInv ==
    /\ SocketsClosed
    /\ packet # NoPacket <=> pc \in HoldSteps
    /\ pc \in HandlerPc \ {"idle", "get", "connect"} => current_state = "Connected"
    /\ pc = "resubmit" => network_requests_msgq # <<>>

\* The packets of the queue, the one in hand and the next one are all different.
QueueInv ==
    /\ packet < next
    /\ \A i \in DOMAIN network_requests_msgq :
           /\ network_requests_msgq[i] < next
           /\ network_requests_msgq[i] # packet
    /\ \A i, j \in DOMAIN network_requests_msgq :
           network_requests_msgq[i] = network_requests_msgq[j] => i = j

IInv == TypeOK /\ HandlerInv

-----------------------------------------------------------------------------
(* Taking the oldest packet and adding a newest one. *)

LEMMA HeadTail ==
    ASSUME NEW S, NEW q \in Seq(S), q # <<>>
    PROVE  /\ Head(q) \in S
           /\ Head(q) = q[1]
           /\ 1 \in DOMAIN q
           /\ Tail(q) \in Seq(S)
           /\ \A i \in DOMAIN Tail(q) : i + 1 \in DOMAIN q /\ Tail(q)[i] = q[i + 1]
OBVIOUS

LEMMA AppendLast ==
    ASSUME NEW S, NEW q \in Seq(S), NEW e \in S
    PROVE  /\ Append(q, e) \in Seq(S)
           /\ Append(q, e) # <<>>
           /\ \A i \in DOMAIN Append(q, e) :
                  \/ i \in DOMAIN q /\ Append(q, e)[i] = q[i]
                  \/ i = Len(q) + 1 /\ i \notin DOMAIN q /\ Append(q, e)[i] = e
OBVIOUS

-----------------------------------------------------------------------------
(* The natural numbers, as sets (UplinkProofs counts the pieces of a packet *)
(* with them).                                                             *)

LEMMA HasLeast ==
    ASSUME NEW numbers \in SUBSET Nat, numbers # {}
    PROVE  \E n \in numbers : \A m \in numbers : n <= m
<1>1. PICK n \in numbers : \A m \in numbers : ~ (<<m, n>> \in OpToRel(<, Nat))
  BY NatLessThanWellFounded, WFMin, Zenon
<1>2. \A m \in numbers : ~ (m < n)
  BY <1>1 DEF OpToRel
<1> QED
  BY <1>2

\* Induction, for a set instead of a predicate.
LEMMA SetInduction ==
    ASSUME NEW K \in SUBSET Nat, 0 \in K, \A n \in K : n + 1 \in K
    PROVE  K = Nat
<1> SUFFICES ASSUME Nat \ K # {} PROVE FALSE
  OBVIOUS
<1> DEFINE rest == Nat \ K
<1>1. rest \in SUBSET Nat /\ rest # {}
  OBVIOUS
<1> HIDE DEF rest
<1>2. PICK n \in rest : \A m \in rest : n <= m
  BY <1>1, HasLeast
<1> USE DEF rest
<1>3. n - 1 \in Nat /\ (n - 1) + 1 = n
  BY <1>2
<1>4. n - 1 \notin rest
  BY <1>2, <1>3
<1>5. n - 1 \in K
  BY <1>3, <1>4
<1> QED
  BY <1>2, <1>3, <1>5

-----------------------------------------------------------------------------
(* Type correctness and the handler's invariant. *)

LEMMA InitIInv == Init => IInv
<1> SUFFICES ASSUME Init PROVE IInv
  OBVIOUS
<1>1. TypeOK
  <2>1. 1 \in 1 .. MaxPackets + 1
    BY MaxPacketsAssumption DEF MaxPacketsAssumption
  <2>2. <<>> \in Seq(Packets)
    OBVIOUS
  <2>3. 0 \in 0 .. HOUR
    BY HourAssumption DEF HourAssumption
  <2> QED
    BY <2>1, <2>2, <2>3
    DEF Init, TypeOK, networking_init, ConnTypeOK, NetworkState, LinkState,
        PollWork, HandlerPc, NoPacket, TlsSteps
<1>2. HandlerInv
  BY DEF Init, HandlerInv, SocketsClosed, SocketSteps, HoldSteps, HandlerPc,
         NoPacket, TlsSteps
<1> QED
  BY <1>1, <1>2 DEF IInv

LEMMA NextIInv == IInv /\ [Next]_netVars => IInv'
<1> SUFFICES ASSUME IInv, [Next]_netVars PROVE IInv'
  OBVIOUS
<1> USE MaxPacketsAssumption, HourAssumption
    DEF MaxPacketsAssumption, HourAssumption, IInv, TypeOK, ConnTypeOK, NetworkState, LinkState,
        PollWork, HandlerPc, Packets, NoPacket, HandlerInv, SocketsClosed,
        SocketSteps, HoldSteps, TlsSteps
<1> USE DEF connVars, pollVars, prodVars, handlerVars
<1>1. CASE send_gps_update
  <2>1. CASE PutPacket
    <3>1. Append(network_requests_msgq, next) \in Seq(Packets)
      BY <2>1, AppendLast DEF PutPacket
    <3> QED
      BY <2>1, <3>1, AppendLast DEF PutPacket
  <2>2. CASE RejectPacket
    BY <2>2 DEF RejectPacket
  <2>3. CASE SubmitWork
    BY <2>3 DEF SubmitWork, Submit
  <2> QED
    BY <1>1, <2>1, <2>2, <2>3 DEF send_gps_update
<1>2. CASE StartHandler
  BY <1>2 DEF StartHandler, Goto
<1>3. CASE GetPacket
  BY <1>3, HeadTail DEF GetPacket
<1>4. CASE NothingToProcess
  BY <1>4 DEF NothingToProcess, Goto
<1>5. CASE send_http_request
  <2>1. CASE AskForNetwork
    <3>1. CASE AlreadyIn("Connected") /\ Goto("connect", "resolve")
      BY <2>1, <3>1 DEF AskForNetwork, AlreadyIn, Goto
    <3>2. CASE ConnectRefused /\ Goto("connect", "resolve")
      BY <2>1, <3>2 DEF AskForNetwork, ConnectRefused, Goto
    <3>3. CASE ConnectAccepted /\ Goto("connect", "await")
      BY <2>1, <3>3 DEF AskForNetwork, ConnectAccepted, Goto
    <3> QED
      BY <2>1, <3>1, <3>2, <3>3 DEF AskForNetwork
  <2>2. CASE AwaitNetwork
    BY <2>2 DEF AwaitNetwork, TakeNetworkConnected, WaitTimesOut, Goto
  <2>3. CASE Resolve
    BY <2>3 DEF Resolve, Goto
  <2>4. CASE OpenSocket
    BY <2>4 DEF OpenSocket
  <2>5. CASE SetTlsOption
    <3>1. pc' \in (TlsSteps \ {"verify"}) \cup {"dial"}
      BY <2>5 DEF SetTlsOption, NextOption
    <3>2. tls_options' \subseteq TlsSteps
      BY <2>5 DEF SetTlsOption
    <3> QED
      BY <2>5, <3>1, <3>2 DEF SetTlsOption
  <2>6. CASE Dial
    BY <2>6 DEF Dial, Goto
  <2>7. CASE Send
    BY <2>7 DEF Send
  <2>8. CASE Recv
    BY <2>8 DEF Recv, Goto
  <2>9. CASE ExchangeFails
    BY <2>9 DEF ExchangeFails
  <2>10. CASE Reply
    BY <2>10 DEF Reply
  <2> QED
    BY <1>5, <2>1, <2>2, <2>3, <2>4, <2>5, <2>6, <2>7, <2>8, <2>9, <2>10
    DEF send_http_request
<1>6. CASE Requeue
  <2>1. packet \in Packets
    BY <1>6 DEF Requeue
  <2>2. network_requests_msgq' \in Seq(Packets)
    BY <1>6, <2>1, AppendLast DEF Requeue
  <2> QED
    BY <1>6, <2>2 DEF Requeue
<1>7. CASE CheckQueue
  BY <1>7 DEF CheckQueue, Goto
<1>8. CASE Resubmit
  BY <1>8 DEF Resubmit, Goto, Submit
<1>9. CASE Disconnect
  BY <1>9 DEF Disconnect, DisconnectDone, DisconnectRefused, Goto
<1>10. CASE SignalRaise \/ SignalReset \/ HourTick \/ HourExpires
  <2>1. CASE SignalRaise
    BY <2>1 DEF SignalRaise
  <2>2. CASE SignalReset
    <3>1. modem_is_free_signal' \in BOOLEAN
      BY <2>2 DEF SignalReset
    <3>2. UNCHANGED <<connVars, prodVars, handlerVars, network_requests_msgq,
                      handle_message_queue, hour_left>>
      BY <2>2 DEF SignalReset
    <3> QED
      BY <3>1, <3>2
  <2>3. CASE HourTick
    BY <2>3 DEF HourTick
  <2>4. CASE HourExpires
    BY <2>4 DEF HourExpires
  <2> QED
    BY <1>10, <2>1, <2>2, <2>3, <2>4
<1>11. CASE L4Event
  BY <1>11 DEF L4Event, L4Connected, L4Disconnected
<1>12. CASE UNCHANGED netVars
  BY <1>12 DEF netVars
<1> QED
  BY <1>1, <1>2, <1>3, <1>4, <1>5, <1>6, <1>7, <1>8, <1>9, <1>10, <1>11, <1>12
  DEF Next, handle_network_request

\* Every variable keeps its type: the semaphore its limit of one, the queue its
\* packets, the program counters their steps.
THEOREM TypeCorrect == Spec => []TypeOK
<1>1. IInv => TypeOK
  BY DEF IInv
<1> QED
  BY InitIInv, NextIInv, <1>1, PTL DEF Spec

\* No path through send_http_request leaks its socket or closes it twice.
THEOREM SocketsAreClosed == Spec => []SocketsClosed
<1>1. IInv => SocketsClosed
  BY DEF IInv, HandlerInv
<1> QED
  BY InitIInv, NextIInv, <1>1, PTL DEF Spec

-----------------------------------------------------------------------------
(* No position on a connection that is not secured. *)

\* What has been set by the time each option, and the connection, is next.
TlsInv ==
    /\ pc \in {"sec_tag", "hostname", "session_cache", "dial", "send", "recv", "reply"}
           => "verify" \in tls_options
    /\ pc \in {"hostname", "session_cache", "dial", "send", "recv", "reply"}
           => "sec_tag" \in tls_options
    /\ pc \in {"session_cache", "dial", "send", "recv", "reply"}
           => "hostname" \in tls_options

LEMMA NextTlsInv == TlsInv /\ [Next]_netVars => TlsInv'
<1> SUFFICES ASSUME TlsInv, [Next]_netVars PROVE TlsInv'
  OBVIOUS
<1> USE DEF TlsInv, connVars, pollVars, prodVars, handlerVars
<1>1. CASE send_gps_update
  BY <1>1 DEF send_gps_update, PutPacket, RejectPacket, SubmitWork
<1>2. CASE StartHandler \/ GetPacket \/ NothingToProcess
  BY <1>2 DEF StartHandler, GetPacket, NothingToProcess, Goto
<1>3. CASE AskForNetwork \/ AwaitNetwork \/ Resolve \/ OpenSocket
  BY <1>3 DEF AskForNetwork, AwaitNetwork, Resolve, OpenSocket, Goto
<1>4. CASE SetTlsOption
  BY <1>4 DEF SetTlsOption, NextOption, TlsSteps
<1>5. CASE Dial \/ Send \/ Recv
  BY <1>5 DEF Dial, Send, Recv, Goto
<1>6. CASE ExchangeFails \/ Reply
  BY <1>6 DEF ExchangeFails, Reply
<1>7. CASE Requeue \/ CheckQueue \/ Resubmit \/ Disconnect
  BY <1>7 DEF Requeue, CheckQueue, Resubmit, Disconnect, Goto
<1>8. CASE SignalRaise \/ SignalReset \/ HourTick \/ HourExpires
  BY <1>8 DEF SignalRaise, SignalReset, HourTick, HourExpires
<1>9. CASE L4Event
  BY <1>9 DEF L4Event
<1>10. CASE UNCHANGED netVars
  BY <1>10 DEF netVars
<1> QED
  BY <1>1, <1>2, <1>3, <1>4, <1>5, <1>6, <1>7, <1>8, <1>9, <1>10
  DEF Next, handle_network_request, send_http_request

\* ServerVerified: whichever setsockopt() fails, nothing is sent without the
\* peer's verification, the provisioned certificate and the server's name.
THEOREM SentOnlyVerified == Spec => []ServerVerified
<1>1. Init => TlsInv
  BY DEF Init, TlsInv
<1>2. TlsInv => ServerVerified
  BY DEF TlsInv, ServerVerified
<1> QED
  BY NextTlsInv, <1>1, <1>2, PTL DEF Spec

-----------------------------------------------------------------------------
(* No packet is stranded, and the firmware does not stay connected. *)

\* NoStrandedPackets is inductive: the four steps that could strand a packet
\* are the early return, the look at the queue that finds it empty, the put
\* before its submission and a submission that changes nothing.
LEMMA NextNoStranded ==
    IInv /\ NoStrandedPackets /\ [Next]_netVars => NoStrandedPackets'
<1> SUFFICES ASSUME IInv, NoStrandedPackets, [Next]_netVars
             PROVE  NoStrandedPackets'
  OBVIOUS
<1> USE DEF NoStrandedPackets, connVars, pollVars, prodVars, handlerVars
<1>1. CASE send_gps_update
  BY <1>1 DEF send_gps_update, PutPacket, RejectPacket, SubmitWork, Submit
<1>2. CASE StartHandler \/ GetPacket \/ NothingToProcess
  BY <1>2 DEF StartHandler, GetPacket, NothingToProcess, Goto
<1>3. CASE send_http_request
  <2>1. pc \notin {"idle", "disconnect"} /\ pc' \notin {"idle", "disconnect"}
    BY <1>3 DEF send_http_request, AskForNetwork, AwaitNetwork, Resolve, OpenSocket,
         SetTlsOption, NextOption, TlsSteps, Dial, Send, Recv, ExchangeFails, Reply,
         Goto, SocketSteps
  <2> QED
    BY <2>1
<1>4. CASE Requeue \/ CheckQueue \/ Resubmit \/ Disconnect
  BY <1>4 DEF Requeue, CheckQueue, Resubmit, Disconnect, Goto, Submit
<1>5. CASE SignalRaise \/ SignalReset \/ HourTick \/ HourExpires
  BY <1>5 DEF SignalRaise, SignalReset, HourTick, HourExpires
<1>6. CASE L4Event
  BY <1>6 DEF L4Event
<1>7. CASE UNCHANGED netVars
  BY <1>7 DEF netVars
<1> QED
  BY <1>1, <1>2, <1>3, <1>4, <1>5, <1>6, <1>7 DEF Next, handle_network_request

\* A queued packet always has something that will come back for it.
THEOREM NothingStranded == Spec => []NoStrandedPackets
<1>1. Init => NoStrandedPackets
  BY DEF Init, NoStrandedPackets
<1> QED
  BY InitIInv, NextIInv, NextNoStranded, <1>1, PTL DEF Spec

LEMMA NextConnected ==
    IInv /\ ConnectedUntilDrained /\ [Next]_netVars => ConnectedUntilDrained'
<1> SUFFICES ASSUME IInv, ConnectedUntilDrained, [Next]_netVars
             PROVE  ConnectedUntilDrained'
  OBVIOUS
<1> USE DEF ConnectedUntilDrained, connVars, pollVars, prodVars, handlerVars
<1>0. /\ network_requests_msgq \in Seq(Packets)
      /\ pc \in HandlerPc
      /\ HandlerInv
  BY DEF IInv, TypeOK
<1>1. CASE send_gps_update
  <2>1. CASE PutPacket
    BY <2>1 DEF PutPacket, Full
  <2> QED
    BY <1>1, <2>1 DEF send_gps_update, RejectPacket, SubmitWork
<1>2. CASE StartHandler \/ GetPacket \/ NothingToProcess
  BY <1>2 DEF StartHandler, GetPacket, NothingToProcess, Goto
<1>3. CASE send_http_request
  <2>1. pc' \notin {"idle", "get", "disconnect"}
    BY <1>3 DEF send_http_request, AskForNetwork, AwaitNetwork, Resolve, OpenSocket,
         SetTlsOption, NextOption, TlsSteps, Dial, Send, Recv, ExchangeFails, Reply, Goto
  <2> QED
    BY <2>1
<1>4. CASE Requeue \/ CheckQueue \/ Resubmit
  BY <1>4, <1>0 DEF Requeue, CheckQueue, Resubmit, Goto, HandlerInv, HandlerPc
<1>5. CASE Disconnect
  BY <1>5 DEF Disconnect, DisconnectDone, DisconnectRefused, Goto
<1>6. CASE SignalRaise \/ SignalReset \/ HourTick \/ HourExpires
  BY <1>6 DEF SignalRaise, SignalReset, HourTick, HourExpires
<1>7. CASE L4Event
  BY <1>7 DEF L4Event, L4Connected, L4Disconnected
<1>8. CASE UNCHANGED netVars
  BY <1>8 DEF netVars
<1> QED
  BY <1>1, <1>2, <1>3, <1>4, <1>5, <1>6, <1>7, <1>8
  DEF Next, handle_network_request

\* The network is remembered as connected only while there is work for it.
THEOREM ConnectedOnlyForWork == Spec => []ConnectedUntilDrained
<1>1. Init => ConnectedUntilDrained
  BY DEF Init, ConnectedUntilDrained, networking_init
<1> QED
  BY InitIInv, NextIInv, NextConnected, <1>1, PTL DEF Spec

-----------------------------------------------------------------------------
(* No packet is held twice. *)

LEMMA NextQueueInv == IInv /\ QueueInv /\ [Next]_netVars => QueueInv'
<1> SUFFICES ASSUME IInv, QueueInv, [Next]_netVars PROVE QueueInv'
  OBVIOUS
<1> USE DEF NoPacket, connVars, pollVars, prodVars, handlerVars
<1>0. /\ network_requests_msgq \in Seq(Packets)
      /\ next \in Nat /\ next > 0
      /\ packet \in Nat
      /\ HandlerInv
      /\ \A i \in DOMAIN network_requests_msgq :
             network_requests_msgq[i] \in Nat /\ network_requests_msgq[i] > 0
  BY MaxPacketsAssumption DEF MaxPacketsAssumption, IInv, TypeOK, Packets
<1>a. UNCHANGED <<network_requests_msgq, next, packet>> => QueueInv'
  BY DEF QueueInv
<1>1. CASE PutPacket
  <2>1. next \in Packets
    BY <1>1, <1>0 DEF PutPacket, Packets
  <2> QED
    BY <1>1, <1>0, <2>1, AppendLast DEF PutPacket, QueueInv
<1>2. CASE RejectPacket
  BY <1>2, <1>0 DEF RejectPacket, QueueInv
<1>3. CASE GetPacket
  <2>1. /\ packet' = network_requests_msgq[1]
        /\ 1 \in DOMAIN network_requests_msgq
        /\ network_requests_msgq' = Tail(network_requests_msgq)
        /\ UNCHANGED next
        /\ \A i \in DOMAIN network_requests_msgq' :
               /\ i \in Nat /\ i > 0
               /\ i + 1 \in DOMAIN network_requests_msgq
               /\ network_requests_msgq'[i] = network_requests_msgq[i + 1]
    BY <1>3, <1>0, HeadTail DEF GetPacket
  <2> QED
    BY <2>1 DEF QueueInv
<1>4. CASE Requeue
  <2>1. packet # 0
    BY <1>4, <1>0 DEF Requeue, HandlerInv, HoldSteps
  <2>2. packet \in Packets
    BY <2>1 DEF IInv, TypeOK
  <2>3. packet' = 0 /\ UNCHANGED next
    BY <1>4 DEF Requeue
  <2>4. CASE network_requests_msgq' = network_requests_msgq
    BY <1>0, <2>3, <2>4 DEF QueueInv
  <2>5. CASE network_requests_msgq' = Append(network_requests_msgq, packet)
    BY <1>0, <2>1, <2>2, <2>3, <2>5, AppendLast DEF QueueInv
  <2> QED
    BY <1>4, <2>4, <2>5 DEF Requeue
<1>5. CASE Reply
  BY <1>5, <1>0 DEF Reply, QueueInv
<1>6. CASE SubmitWork \/ StartHandler \/ NothingToProcess \/ CheckQueue \/ Resubmit
           \/ Disconnect \/ SignalRaise \/ SignalReset \/ HourTick \/ HourExpires \/ L4Event
  BY <1>6, <1>a
  DEF SubmitWork, StartHandler, NothingToProcess, CheckQueue, Resubmit, Disconnect,
      SignalRaise, SignalReset, HourTick, HourExpires, L4Event, Goto
<1>7. CASE send_http_request /\ ~Reply
  BY <1>7, <1>a
  DEF send_http_request, AskForNetwork, AwaitNetwork, Resolve, OpenSocket, SetTlsOption,
      Dial, Send, Recv, ExchangeFails, Goto
<1>8. CASE UNCHANGED netVars
  BY <1>8, <1>a DEF netVars
<1> QED
  BY <1>1, <1>2, <1>3, <1>4, <1>5, <1>6, <1>7, <1>8
  DEF Next, handle_network_request, send_gps_update

\* New packets and retries never put a packet in two places.
THEOREM HeldOnce == Spec => []NoDuplicates
<1>1. Init => QueueInv
  BY DEF Init, QueueInv, NoPacket
<1>2. IInv /\ QueueInv => NoDuplicates
  <2> SUFFICES ASSUME IInv, QueueInv PROVE NoDuplicates
    OBVIOUS
  <2>1. next \in Nat /\ \A i \in DOMAIN network_requests_msgq : network_requests_msgq[i] \in Nat
    BY MaxPacketsAssumption DEF MaxPacketsAssumption, IInv, TypeOK, Packets
  <2> QED
    BY <2>1 DEF QueueInv, NoDuplicates
<1> QED
  BY InitIInv, NextIInv, NextQueueInv, <1>1, <1>2, PTL DEF Spec

-----------------------------------------------------------------------------
(***************************************************************************)
(* NetworkRequests implements PacketStore: the queue and the handler, with *)
(* their retries, drop a report untransmitted only when there is no room   *)
(* for it.  Each step maps to the step of the store it takes (a put is an  *)
(* Accept, a rejected put a TurnAway, send() a Transmit, the end of an     *)
(* exchange a Settle, a retry that finds no room a GiveUp) or to a         *)
(* stutter.                                                                *)
(***************************************************************************)

Queued == {network_requests_msgq[i] : i \in DOMAIN network_requests_msgq}

\* What the guards of the store's steps need besides QueueInv: the queue keeps
\* to its capacity, and an exchange that has an answer has sent its packet.
StoreInv ==
    /\ Len(network_requests_msgq) <= Capacity
    /\ pc \in {"recv", "reply"} => packet \in sent

-----------------------------------------------------------------------------
(* The elements of a sequence. *)

\* A sequence without repetitions has as many elements as it is long.
LEMMA DistinctElements ==
    ASSUME NEW S, NEW q \in Seq(S),
           \A i, j \in DOMAIN q : q[i] = q[j] => i = j
    PROVE  /\ IsFiniteSet({q[i] : i \in DOMAIN q})
           /\ Cardinality({q[i] : i \in DOMAIN q}) = Len(q)
<1> DEFINE R == {q[i] : i \in DOMAIN q}
           f == [i \in 1 .. Len(q) |-> q[i]]
<1>1. Len(q) \in Nat /\ DOMAIN q = 1 .. Len(q)
  OBVIOUS
<1>2. f \in Bijection(1 .. Len(q), R)
  BY <1>1 DEF Bijection, Injection, IsInjective, Surjection
<1>3. ExistsBijection(1 .. Len(q), R)
  BY <1>2 DEF ExistsBijection
<1>4. IsFiniteSet(1 .. Len(q)) /\ Cardinality(1 .. Len(q)) = Len(q)
  BY <1>1, FS_Interval
<1> QED
  BY <1>3, <1>4, FS_Bijection

\* Appending adds the new element to the elements; taking the head removes it.
LEMMA ElementsAppended ==
    ASSUME NEW S, NEW q \in Seq(S), NEW e \in S
    PROVE  {Append(q, e)[i] : i \in DOMAIN Append(q, e)} = {q[i] : i \in DOMAIN q} \cup {e}
<1> DEFINE r == Append(q, e)
<1>1. Len(q) \in Nat /\ DOMAIN q = 1 .. Len(q) /\ DOMAIN r = 1 .. Len(q) + 1
  OBVIOUS
<1>2. \A i \in DOMAIN q : r[i] = q[i]
  OBVIOUS
<1>3. r[Len(q) + 1] = e
  OBVIOUS
<1>4. \A i \in DOMAIN r : i \in DOMAIN q \/ i = Len(q) + 1
  BY <1>1
<1>5. \A i \in DOMAIN q : i \in DOMAIN r
  BY <1>1
<1>6. Len(q) + 1 \in DOMAIN r
  BY <1>1
<1> HIDE DEF r
<1>7. {r[i] : i \in DOMAIN r} = {q[i] : i \in DOMAIN q} \cup {e}
  BY <1>2, <1>3, <1>4, <1>5, <1>6
<1> QED
  BY <1>7 DEF r

LEMMA ElementsTaken ==
    ASSUME NEW S, NEW q \in Seq(S), q # <<>>
    PROVE  {q[i] : i \in DOMAIN q} = {Tail(q)[i] : i \in DOMAIN Tail(q)} \cup {Head(q)}
<1> DEFINE t == Tail(q)
<1>1. /\ Len(q) \in Nat /\ Len(q) > 0
      /\ DOMAIN q = 1 .. Len(q) /\ DOMAIN t = 1 .. Len(q) - 1
  OBVIOUS
<1>2. \A i \in DOMAIN t : i + 1 \in DOMAIN q /\ t[i] = q[i + 1]
  BY HeadTail
<1>3. Head(q) = q[1] /\ 1 \in DOMAIN q
  BY HeadTail
<1>4. \A i \in DOMAIN q : i = 1 \/ (i - 1 \in DOMAIN t /\ (i - 1) + 1 = i)
  BY <1>1
<1> HIDE DEF t
<1>5. \A i \in DOMAIN q : i = 1 \/ (i - 1 \in DOMAIN t /\ t[i - 1] = q[i])
  BY <1>2, <1>4
<1>6. {q[i] : i \in DOMAIN q} = {t[i] : i \in DOMAIN t} \cup {Head(q)}
  BY <1>2, <1>3, <1>5
<1> QED
  BY <1>6 DEF t

-----------------------------------------------------------------------------
(* What is owed, and how much of it there is. *)

LEMMA QueueFacts ==
    ASSUME IInv, QueueInv
    PROVE  /\ network_requests_msgq \in Seq(Packets)
           /\ Len(network_requests_msgq) \in Nat
           /\ next \in 1 .. MaxPackets + 1 /\ next \in Nat /\ next > 0
           /\ packet \in Nat /\ packet < next
           /\ packet # NoPacket => packet \in Packets
           /\ packet \notin Queued
           /\ \A r \in Queued : r \in Packets /\ r < next
           /\ Queued \subseteq 1 .. next - 1
BY MaxPacketsAssumption
DEF MaxPacketsAssumption, IInv, TypeOK, QueueInv, Queued, Packets, NoPacket

\* The report in the handler's hand is outside the queue.
LEMMA OwedCardinality ==
    ASSUME IInv, QueueInv
    PROVE  Cardinality(Owed) = Len(network_requests_msgq)
                                  + (IF packet = NoPacket THEN 0 ELSE 1)
<1>1. IsFiniteSet(Queued) /\ Cardinality(Queued) = Len(network_requests_msgq)
  BY QueueFacts, DistinctElements DEF QueueInv, Queued
<1>2. CASE packet = NoPacket
  <2>1. Owed = Queued
    BY <1>2 DEF Owed, Queued
  <2> QED
    BY <1>1, <1>2, <2>1, QueueFacts
<1>3. CASE packet # NoPacket
  <2>1. Owed = Queued \cup {packet}
    BY <1>3 DEF Owed, Queued
  <2>2. packet \notin Queued
    BY QueueFacts
  <2> QED
    BY <1>1, <1>3, <2>1, <2>2, FS_AddElement
<1> QED
  BY <1>2, <1>3

LEMMA OwedSmall ==
    ASSUME IInv, QueueInv
    PROVE  /\ Owed = IF packet = NoPacket THEN Queued ELSE Queued \cup {packet}
           /\ Owed \subseteq 1 .. next - 1
           /\ next \notin Owed
<1>1. Owed = IF packet = NoPacket THEN Queued ELSE Queued \cup {packet}
  BY DEF Owed, Queued
<1>2. packet # NoPacket => packet \in 1 .. next - 1
  BY QueueFacts DEF Packets, NoPacket
<1>3. next \notin 1 .. next - 1
  BY QueueFacts
<1> QED
  BY <1>1, <1>2, <1>3, QueueFacts

-----------------------------------------------------------------------------
(* The capacity and the sent packet. *)

LEMMA NextStoreInv == IInv /\ QueueInv /\ StoreInv /\ [Next]_netVars => StoreInv'
<1> SUFFICES ASSUME IInv, QueueInv, StoreInv, [Next]_netVars PROVE StoreInv'
  OBVIOUS
<1> USE DEF StoreInv, connVars, pollVars, prodVars, handlerVars
<1>0. /\ network_requests_msgq \in Seq(Packets)
      /\ Len(network_requests_msgq) \in Nat
      /\ Capacity \in Nat
  BY QueueFacts, CapacityAssumption DEF CapacityAssumption
<1>1. CASE send_gps_update
  <2>1. CASE PutPacket
    <3>1. Len(network_requests_msgq') = Len(network_requests_msgq) + 1
      BY <1>0, <2>1 DEF PutPacket
    <3> QED
      BY <1>0, <2>1, <3>1 DEF PutPacket, Full
  <2> QED
    BY <1>1, <2>1 DEF send_gps_update, RejectPacket, SubmitWork
<1>2. CASE GetPacket
  <2>1. Len(network_requests_msgq') = Len(network_requests_msgq) - 1
    BY <1>0, <1>2 DEF GetPacket
  <2> QED
    BY <1>0, <1>2, <2>1 DEF GetPacket
<1>3. CASE Requeue
  <2>1. Len(network_requests_msgq') <= Capacity
    <3>1. CASE Full
      BY <1>3, <3>1 DEF Requeue
    <3>2. CASE ~Full
      <4>1. Len(network_requests_msgq') = Len(network_requests_msgq) + 1
        BY <1>0, <1>3, <3>2 DEF Requeue
      <4> QED
        BY <1>0, <3>2, <4>1 DEF Full
    <3> QED
      BY <3>1, <3>2
  <2> QED
    BY <1>3, <2>1 DEF Requeue
<1>4. CASE StartHandler \/ NothingToProcess \/ CheckQueue \/ Resubmit \/ Disconnect
  BY <1>4 DEF StartHandler, NothingToProcess, CheckQueue, Resubmit, Disconnect, Goto
<1>5. CASE send_http_request
  BY <1>5
  DEF send_http_request, AskForNetwork, AwaitNetwork, Resolve, OpenSocket, SetTlsOption,
      NextOption, TlsSteps, Dial, Send, Recv, ExchangeFails, Reply, Goto
<1>6. CASE SignalRaise \/ SignalReset \/ HourTick \/ HourExpires \/ L4Event
  BY <1>6 DEF SignalRaise, SignalReset, HourTick, HourExpires, L4Event
<1>7. CASE UNCHANGED netVars
  BY <1>7 DEF netVars
<1> QED
  BY <1>1, <1>2, <1>3, <1>4, <1>5, <1>6, <1>7 DEF Next, handle_network_request

-----------------------------------------------------------------------------
(* Every step is a step of the store, or a stutter. *)

LEMMA InitRefines == Init => Store!Init
<1> SUFFICES ASSUME Init PROVE Store!Init
  OBVIOUS
<1>1. Owed = {}
  BY DEF Init, Owed, NoPacket
<1> QED
  BY <1>1 DEF Init, Store!Init

\* The instance's Cardinality is the one the lemmas are about.
LEMMA SameCardinality == \A S : Store!Cardinality(S) = Cardinality(S)
BY DEF Store!Cardinality, Cardinality

LEMMA StepRefines ==
    ASSUME IInv, IInv', QueueInv, QueueInv', StoreInv, [Next]_netVars
    PROVE  [Store!Next]_(Store!storeVars)
<1> DEFINE done == (1 .. next - 1) \ Owed
<1> USE DEF connVars, pollVars, prodVars, handlerVars
<1>0. /\ network_requests_msgq \in Seq(Packets)
      /\ Len(network_requests_msgq) \in Nat
      /\ next \in Nat
      /\ Capacity \in Nat
      /\ HandlerInv
  BY QueueFacts, CapacityAssumption DEF CapacityAssumption, IInv
<1>a. UNCHANGED <<network_requests_msgq, packet, next, sent>> => UNCHANGED Store!storeVars
  BY DEF Owed, Store!storeVars
<1>1. CASE PutPacket
  <2>1. next \in Packets /\ next' = next + 1 /\ UNCHANGED <<packet, sent>>
    BY <1>0, <1>1, QueueFacts DEF PutPacket, Packets
  <2>2. Queued' = Queued \cup {next}
    BY <1>0, <1>1, <2>1, ElementsAppended DEF PutPacket, Queued
  <2>3. Owed' = Owed \cup {next}
    BY <2>1, <2>2 DEF Owed, Queued
  <2>4. next \notin Owed /\ next \notin done
    BY <1>0, OwedSmall
  <2>5. done' = done
    BY <1>0, <2>1, <2>3, OwedSmall
  <2>6. Store!Cardinality(Owed) <= Capacity
    BY <1>0, <1>1, OwedCardinality, SameCardinality DEF PutPacket, Full
  <2>7. Store!Accept(next)
    BY <2>1, <2>3, <2>4, <2>5, <2>6 DEF Store!Accept
  <2> QED
    BY <2>1, <2>7 DEF Store!Next
<1>2. CASE RejectPacket
  <2>1. next \in Packets /\ next' = next + 1
        /\ UNCHANGED <<network_requests_msgq, packet, sent>>
    BY <1>0, <1>2, QueueFacts DEF RejectPacket, Packets
  <2>2. Owed' = Owed
    BY <2>1 DEF Owed
  <2>3. next \notin Owed /\ next \notin done
    BY <1>0, OwedSmall
  <2>4. 1 .. next' - 1 = (1 .. next - 1) \cup {next}
    BY <1>0, <2>1 DEF Packets
  <2>5. done' = done \cup {next}
    BY <2>2, <2>3, <2>4
  <2>6. Store!Cardinality(Owed) >= Capacity
    BY <1>0, <1>2, OwedCardinality, SameCardinality DEF RejectPacket, Full
  <2>7. Store!TurnAway(next)
    BY <2>1, <2>2, <2>3, <2>5, <2>6 DEF Store!TurnAway
  <2> QED
    BY <2>1, <2>7 DEF Store!Next
<1>3. CASE GetPacket
  <2>1. /\ packet = NoPacket
        /\ packet' = Head(network_requests_msgq)
        /\ network_requests_msgq # <<>>
        /\ network_requests_msgq' = Tail(network_requests_msgq)
        /\ UNCHANGED <<next, sent>>
    BY <1>0, <1>3 DEF GetPacket, HandlerInv, HoldSteps, SocketSteps, TlsSteps
  <2>2. Queued = Queued' \cup {packet'}
    BY <1>0, <2>1, ElementsTaken DEF Queued
  <2>3. packet' # NoPacket
    <3>1. packet' \in Packets
      BY <1>0, <2>1, HeadTail
    <3> QED
      BY <3>1 DEF Packets, NoPacket
  <2>4. Owed' = Owed
    BY <2>1, <2>2, <2>3 DEF Owed, Queued
  <2> QED
    BY <2>1, <2>4 DEF Store!storeVars
<1>4. CASE Requeue
  <2>1. packet # NoPacket /\ packet \in Packets /\ packet' = NoPacket
        /\ UNCHANGED <<next, sent>>
    BY <1>0, <1>4, QueueFacts DEF Requeue, HandlerInv, HoldSteps
  <2>2. packet \in Owed /\ Owed' = Queued' /\ Owed = Queued \cup {packet}
    BY <2>1 DEF Owed, Queued
  <2>3. CASE Full
    <3>1. UNCHANGED network_requests_msgq
      BY <1>4, <2>3 DEF Requeue
    <3>2. Queued' = Queued /\ packet \notin Queued
      BY <3>1, QueueFacts DEF Queued
    <3>3. Owed' = Owed \ {packet}
      BY <2>2, <3>2
    <3>4. done' = done \cup {packet}
      BY <2>1, <2>2, <3>3, OwedSmall
    <3>5. Store!Cardinality(Owed) > Capacity
      BY <1>0, <2>1, <2>3, OwedCardinality, SameCardinality DEF Full
    <3>6. Store!GiveUp(packet)
      BY <2>1, <2>2, <3>3, <3>4, <3>5 DEF Store!GiveUp, Store!Finish
    <3> QED
      BY <2>1, <3>6 DEF Store!Next
  <2>4. CASE ~Full
    <3>1. network_requests_msgq' = Append(network_requests_msgq, packet)
      BY <1>4, <2>4 DEF Requeue
    <3>2. Queued' = Queued \cup {packet}
      BY <1>0, <2>1, <3>1, ElementsAppended DEF Queued
    <3>3. Owed' = Owed
      BY <2>2, <3>2
    <3> QED
      BY <2>1, <3>3 DEF Store!storeVars
  <2> QED
    BY <2>3, <2>4
<1>5. CASE Send
  <2>1. packet # NoPacket /\ packet \in Packets /\ sent' = sent \cup {packet}
        /\ UNCHANGED <<network_requests_msgq, packet, next>>
    BY <1>0, <1>5, QueueFacts DEF Send, HandlerInv, HoldSteps, SocketSteps
  <2>2. packet \in Owed /\ Owed' = Owed
    BY <2>1 DEF Owed
  <2>3. Store!Transmit(packet)
    BY <2>1, <2>2 DEF Store!Transmit
  <2> QED
    BY <2>1, <2>3 DEF Store!Next
<1>6. CASE Reply
  <2>1. packet # NoPacket /\ packet \in Packets /\ packet' = NoPacket /\ packet \in sent
        /\ UNCHANGED <<network_requests_msgq, next, sent>>
    BY <1>0, <1>6, QueueFacts DEF Reply, HandlerInv, HoldSteps, SocketSteps, StoreInv
  <2>2. packet \in Owed /\ Owed' = Queued /\ Owed = Queued \cup {packet}
    BY <2>1 DEF Owed, Queued
  <2>3. Owed' = Owed \ {packet}
    BY <2>2, QueueFacts
  <2>4. done' = done \cup {packet}
    BY <2>1, <2>2, <2>3, OwedSmall
  <2>5. Store!Settle(packet)
    BY <2>1, <2>2, <2>3, <2>4 DEF Store!Settle, Store!Finish
  <2> QED
    BY <2>1, <2>5 DEF Store!Next
<1>7. CASE SubmitWork \/ StartHandler \/ NothingToProcess \/ CheckQueue \/ Resubmit
           \/ Disconnect \/ SignalRaise \/ SignalReset \/ HourTick \/ HourExpires \/ L4Event
  BY <1>7, <1>a
  DEF SubmitWork, StartHandler, NothingToProcess, CheckQueue, Resubmit, Disconnect,
      SignalRaise, SignalReset, HourTick, HourExpires, L4Event, Goto
<1>8. CASE send_http_request /\ ~Reply /\ ~Send
  BY <1>8, <1>a
  DEF send_http_request, AskForNetwork, AwaitNetwork, Resolve, OpenSocket, SetTlsOption,
      Dial, Recv, ExchangeFails, Goto
<1>9. CASE UNCHANGED netVars
  BY <1>9, <1>a DEF netVars
<1> QED
  BY <1>1, <1>2, <1>3, <1>4, <1>5, <1>6, <1>7, <1>8, <1>9
  DEF Next, handle_network_request, send_gps_update

\* ImplementsPacketStore: through failures, retries and new reports, a report
\* is turned away or given up untransmitted only when the queue is full, and is
\* otherwise owed until send() has succeeded for it.
THEOREM Refinement == Spec => ImplementsPacketStore
<1>1. Init => IInv /\ QueueInv /\ StoreInv
  <2>1. Init => QueueInv
    BY DEF Init, QueueInv, NoPacket
  <2>2. Init => StoreInv
    BY CapacityAssumption DEF CapacityAssumption, Init, StoreInv
  <2> QED
    BY <2>1, <2>2, InitIInv
<1>2. IInv /\ QueueInv /\ StoreInv /\ [Next]_netVars => (IInv /\ QueueInv /\ StoreInv)'
  BY NextIInv, NextQueueInv, NextStoreInv
<1>3. IInv /\ IInv' /\ QueueInv /\ QueueInv' /\ StoreInv /\ [Next]_netVars
          => [Store!Next]_(Store!storeVars)
  BY StepRefines
<1> QED
  BY <1>1, <1>2, <1>3, InitRefines, PTL DEF Spec, ImplementsPacketStore, Store!Spec

=============================================================================
