--------------------------- MODULE TrackerProofs ----------------------------
(***************************************************************************)
(* The two halves of the firmware together, for every delay, rate limit,   *)
(* queue capacity and number of fixes and packets: the composition runs    *)
(* each half as its own module specifies it, and packets that wait while   *)
(* the GNSS sleeps have their work item on its queue (ServedWhileAsleep).  *)
(*                                                                         *)
(* The second needs one fact from each half and one from each link between *)
(* them: no packet is stranded; the GNSS sleeps only with the antenna      *)
(* signalled free; a work item does not go on watching a raised signal;    *)
(* and the GPS thread is about to submit the work item exactly when        *)
(* send_gps_update() is.                                                   *)
(***************************************************************************)
EXTENDS Tracker, SequenceTheorems, TLAPS

\* The GPS work queue holds work items.
QueueType == gps_work_queue \in Seq(GpsPart!WorkItem)

\* Both halves are in the same call of send_gps_update().
SameCall == prod = "submit" <=> at = "submit"

\* The signal is up while the GNSS sleeps, and nothing watches a raised signal.
SignalInv ==
    /\ handle_message_queue \in NetPart!PollWork
    /\ gnss = "asleep" => modem_is_free_signal
    /\ modem_is_free_signal => handle_message_queue \in {"idle", "queued"}

ServedInv ==
    /\ QueueType
    /\ SameCall
    /\ SignalInv
    /\ NetPart!NoStrandedPackets

-----------------------------------------------------------------------------
(* The composition runs each half as specified. *)

LEMMA StepOfGps == [Next]_vars => [GpsPart!Next]_GpsPart!gpsVars
<1> SUFFICES ASSUME [Next]_vars PROVE [GpsPart!Next]_GpsPart!gpsVars
  OBVIOUS
<1> USE DEF GpsPart!Next
<1>1. CASE WakeupResetsSignal
  BY <1>1 DEF WakeupResetsSignal, GpsPart!gnss_event_handler
<1>2. CASE FixRaisesSignal
  BY <1>2 DEF FixRaisesSignal, GpsPart!gnss_event_handler
<1>3. CASE ReportFix
  BY <1>3 DEF ReportFix, GpsPart!WorkQueueThread, GpsPart!pvt_data_handler_fn
<1>4. CASE GpsAlone
  BY <1>4 DEF GpsAlone, GpsPart!gnss_event_handler, GpsPart!WorkQueueThread,
              GpsPart!pvt_data_handler_fn
<1>5. CASE NetAlone
  <2>1. UNCHANGED modem_is_free_signal
    <3>1. CASE NetPart!handle_network_request
      BY <3>1
      DEF NetPart!handle_network_request, NetPart!send_http_request,
          NetPart!StartHandler, NetPart!GetPacket, NetPart!NothingToProcess,
          NetPart!AskForNetwork, NetPart!AwaitNetwork, NetPart!Resolve,
          NetPart!OpenSocket, NetPart!SetTlsOption, NetPart!Dial, NetPart!Send,
          NetPart!Recv, NetPart!ExchangeFails, NetPart!Reply, NetPart!Requeue,
          NetPart!CheckQueue, NetPart!Resubmit, NetPart!Disconnect, NetPart!pollVars
    <3>2. CASE NetPart!HourTick \/ NetPart!HourExpires \/ NetPart!L4Event
      BY <3>2 DEF NetPart!HourTick, NetPart!HourExpires, NetPart!L4Event, NetPart!pollVars
    <3> QED
      BY <1>5, <3>1, <3>2 DEF NetAlone
  <2>2. UNCHANGED gpsOnly
    BY <1>5 DEF NetAlone
  <2> QED
    BY <2>1, <2>2
    DEF gpsOnly, GpsPart!gpsVars, GpsPart!modemVars, GpsPart!workVars,
        GpsPart!fixVars, GpsPart!reportVars
<1>6. CASE UNCHANGED vars
  BY <1>6
  DEF vars, gpsOnly, GpsPart!gpsVars, GpsPart!modemVars, GpsPart!workVars,
      GpsPart!fixVars, GpsPart!reportVars
<1> QED
  BY <1>1, <1>2, <1>3, <1>4, <1>5, <1>6 DEF Next

\* Of the GPS steps only the wake-up and the sleep after a fix touch the signal,
\* and only the second puts the GNSS to sleep.
LEMMA SignalKept ==
    GpsAlone => UNCHANGED modem_is_free_signal /\ (gnss' = "asleep" => gnss = "asleep")
<1> SUFFICES ASSUME GpsAlone
             PROVE  /\ UNCHANGED modem_is_free_signal
                    /\ gnss' = "asleep" => gnss = "asleep"
  OBVIOUS
<1> USE DEF GpsPart!modemVars
<1>1. CASE GpsPart!SleepAfterTimeout \/ \E valid \in BOOLEAN : GpsPart!Pvt(valid)
  BY <1>1 DEF GpsPart!SleepAfterTimeout, GpsPart!Pvt
<1>2. CASE GpsPart!StartHandler \/ GpsPart!HandlerReturns
  BY <1>2 DEF GpsPart!StartHandler, GpsPart!HandlerReturns
<1>3. CASE GpsPart!handle_gps_timed_out_fn \/ GpsPart!handle_restart_gps_fn
  BY <1>3 DEF GpsPart!handle_gps_timed_out_fn, GpsPart!handle_restart_gps_fn,
     GpsPart!GnssStop, GpsPart!ScheduleRestart, GpsPart!GnssStart, GpsPart!GnssStartFails
<1>4. CASE GpsPart!CheckRate \/ GpsPart!GetInfo \/ GpsPart!ReadPosition \/ GpsPart!ReadTime
  BY <1>4 DEF GpsPart!CheckRate, GpsPart!GetInfo, GpsPart!ReadPosition, GpsPart!ReadTime
<1>5. CASE \E item \in GpsPart!Delayable : GpsPart!TimerExpires(item)
  BY <1>5 DEF GpsPart!TimerExpires
<1>6. CASE GpsPart!Tick
  BY <1>6 DEF GpsPart!Tick
<1> QED
  BY <1>1, <1>2, <1>3, <1>4, <1>5, <1>6 DEF GpsAlone

LEMMA StepOfNet == [Next]_vars => [NetPart!Next]_NetPart!netVars
<1> SUFFICES ASSUME [Next]_vars PROVE [NetPart!Next]_NetPart!netVars
  OBVIOUS
<1> USE DEF NetPart!Next
<1>1. CASE WakeupResetsSignal \/ FixRaisesSignal
  BY <1>1 DEF WakeupResetsSignal, FixRaisesSignal
<1>2. CASE ReportFix
  BY <1>2 DEF ReportFix, NetPart!send_gps_update
<1>3. CASE GpsAlone \/ UNCHANGED vars
  <2>1. UNCHANGED modem_is_free_signal /\ UNCHANGED netOnly
    BY <1>3, SignalKept DEF GpsAlone, vars
  <2> QED
    BY <2>1
    DEF netOnly, NetPart!netVars, NetPart!connVars, NetPart!pollVars,
        NetPart!prodVars, NetPart!handlerVars
<1>4. CASE NetAlone
  BY <1>4 DEF NetAlone
<1> QED
  BY <1>1, <1>2, <1>3, <1>4 DEF Next

\* The shared signal and the call of send_gps_update() make neither half do what
\* its own module does not allow: each half of the running firmware is a
\* behaviour of its module, with all that is proved of it there.
THEOREM HalvesAsSpecified == Spec => GpsPart!Spec /\ NetPart!Spec
BY StepOfGps, StepOfNet, PTL DEF Spec, Init, GpsPart!Spec, NetPart!Spec

-----------------------------------------------------------------------------
(* Packets that wait are served while the GNSS sleeps. *)

\* Taking an item out of a queue leaves a queue.
LEMMA WithoutSeq ==
    ASSUME NEW Items, NEW queue \in Seq(Items), NEW item
    PROVE  GpsPart!Without(queue, item) \in Seq(Items)
<1>0. DOMAIN queue = 1 .. Len(queue) /\ Len(queue) \in Nat
  OBVIOUS
<1>1. CASE \A i \in DOMAIN queue : queue[i] # item
  BY <1>1 DEF GpsPart!Without
<1>2. CASE \E i \in DOMAIN queue : queue[i] = item
  <2> DEFINE k == CHOOSE i \in DOMAIN queue : queue[i] = item
             rest == [i \in 1 .. Len(queue) - 1 |-> IF i < k THEN queue[i] ELSE queue[i + 1]]
  <2>1. GpsPart!Without(queue, item) = rest
    BY <1>2 DEF GpsPart!Without
  <2>2. k \in 1 .. Len(queue)
    BY <1>0, <1>2
  <2> HIDE DEF k
  <2>3. Len(queue) - 1 \in Nat
    BY <1>0, <2>2
  <2>4. rest \in [1 .. Len(queue) - 1 -> Items]
    BY <1>0, <2>2
  <2> QED
    BY <2>1, <2>3, <2>4, SeqDef
<1> QED
  BY <1>1, <1>2

LEMMA NextQueueType == QueueType /\ [Next]_vars => QueueType'
<1> SUFFICES ASSUME QueueType, [Next]_vars PROVE QueueType'
  OBVIOUS
<1> USE DEF QueueType
<1>a. /\ "gps_timed_out" \in GpsPart!WorkItem
      /\ "pvt_data" \in GpsPart!WorkItem
      /\ GpsPart!Delayable \subseteq GpsPart!WorkItem
  BY DEF GpsPart!WorkItem, GpsPart!Delayable
<1>b. \A item \in GpsPart!WorkItem :
          Append(gps_work_queue, item) \in Seq(GpsPart!WorkItem)
  OBVIOUS
<1>1. CASE WakeupResetsSignal
  BY <1>1 DEF WakeupResetsSignal, GpsPart!PeriodicWakeup
<1>2. CASE FixRaisesSignal
  BY <1>2, WithoutSeq DEF FixRaisesSignal, GpsPart!SleepAfterFix
<1>3. CASE ReportFix
  BY <1>3 DEF ReportFix, GpsPart!PutReport, GpsPart!ReportRejected,
              GpsPart!SubmitReport, GpsPart!workVars
<1>4. CASE GpsAlone
  <2>1. CASE GpsPart!SleepAfterTimeout
    BY <2>1 DEF GpsPart!SleepAfterTimeout, GpsPart!workVars
  <2>2. ASSUME NEW valid \in BOOLEAN, GpsPart!Pvt(valid) PROVE QueueType'
    BY <2>2, <1>a, <1>b DEF GpsPart!Pvt
  <2>3. CASE GpsPart!StartHandler
    BY <2>3 DEF GpsPart!StartHandler
  <2>4. CASE GpsPart!HandlerReturns \/ GpsPart!Tick
    BY <2>4 DEF GpsPart!HandlerReturns, GpsPart!Tick
  <2>5. CASE GpsPart!handle_gps_timed_out_fn \/ GpsPart!handle_restart_gps_fn
    BY <2>5 DEF GpsPart!handle_gps_timed_out_fn, GpsPart!handle_restart_gps_fn,
       GpsPart!GnssStop, GpsPart!ScheduleRestart, GpsPart!GnssStart,
       GpsPart!GnssStartFails, GpsPart!workVars
  <2>6. CASE GpsPart!CheckRate \/ GpsPart!GetInfo \/ GpsPart!ReadPosition \/ GpsPart!ReadTime
    BY <2>6 DEF GpsPart!CheckRate, GpsPart!GetInfo, GpsPart!ReadPosition,
       GpsPart!ReadTime, GpsPart!workVars
  <2>7. ASSUME NEW item \in GpsPart!Delayable, GpsPart!TimerExpires(item)
        PROVE  QueueType'
    BY <2>7, <1>a, <1>b DEF GpsPart!TimerExpires, GpsPart!Enqueued
  <2> QED
    BY <1>4, <2>1, <2>2, <2>3, <2>4, <2>5, <2>6, <2>7 DEF GpsAlone
<1>5. CASE NetAlone \/ UNCHANGED vars
  BY <1>5 DEF NetAlone, vars, gpsOnly
<1> QED
  BY <1>1, <1>2, <1>3, <1>4, <1>5 DEF Next

\* No other GPS step enters or leaves the call, and no handler starts inside it.
LEMMA OutsideTheCall ==
    QueueType /\ (WakeupResetsSignal \/ FixRaisesSignal \/ GpsAlone)
        => (at = "submit" <=> at' = "submit")
<1> SUFFICES ASSUME QueueType, WakeupResetsSignal \/ FixRaisesSignal \/ GpsAlone
             PROVE  at = "submit" <=> at' = "submit"
  OBVIOUS
<1>1. CASE WakeupResetsSignal \/ FixRaisesSignal
  BY <1>1 DEF WakeupResetsSignal, FixRaisesSignal, GpsPart!PeriodicWakeup,
              GpsPart!SleepAfterFix
<1>2. CASE GpsPart!SleepAfterTimeout \/ \E valid \in BOOLEAN : GpsPart!Pvt(valid)
  BY <1>2 DEF GpsPart!SleepAfterTimeout, GpsPart!Pvt
<1>3. CASE GpsPart!StartHandler
  <2>1. Head(gps_work_queue) \in GpsPart!WorkItem
    BY <1>3 DEF GpsPart!StartHandler, QueueType
  <2>2. GpsPart!FirstStep[Head(gps_work_queue)] # "submit"
    BY <2>1 DEF GpsPart!WorkItem, GpsPart!FirstStep
  <2>3. at = "idle" /\ at' = GpsPart!FirstStep[Head(gps_work_queue)]
    BY <1>3 DEF GpsPart!StartHandler
  <2> QED
    BY <2>2, <2>3
<1>4. CASE GpsPart!HandlerReturns \/ GpsPart!Tick
  BY <1>4 DEF GpsPart!HandlerReturns, GpsPart!Tick
<1>5. CASE GpsPart!handle_gps_timed_out_fn \/ GpsPart!handle_restart_gps_fn
  BY <1>5 DEF GpsPart!handle_gps_timed_out_fn, GpsPart!handle_restart_gps_fn,
     GpsPart!GnssStop, GpsPart!ScheduleRestart, GpsPart!GnssStart, GpsPart!GnssStartFails
<1>6. CASE GpsPart!CheckRate \/ GpsPart!GetInfo \/ GpsPart!ReadPosition \/ GpsPart!ReadTime
  BY <1>6 DEF GpsPart!CheckRate, GpsPart!GetInfo, GpsPart!ReadPosition, GpsPart!ReadTime
<1>7. CASE \E item \in GpsPart!Delayable : GpsPart!TimerExpires(item)
  BY <1>7 DEF GpsPart!TimerExpires
<1> QED
  BY <1>1, <1>2, <1>3, <1>4, <1>5, <1>6, <1>7 DEF GpsAlone

LEMMA NextSameCall == QueueType /\ SameCall /\ [Next]_vars => SameCall'
<1> SUFFICES ASSUME QueueType, SameCall, [Next]_vars PROVE SameCall'
  OBVIOUS
<1> USE DEF SameCall
<1>1. CASE WakeupResetsSignal \/ FixRaisesSignal
  BY <1>1, OutsideTheCall DEF WakeupResetsSignal, FixRaisesSignal,
     NetPart!SignalReset, NetPart!SignalRaise, NetPart!prodVars
<1>2. CASE ReportFix
  BY <1>2
  DEF ReportFix, GpsPart!PutReport, NetPart!PutPacket, GpsPart!ReportRejected,
      NetPart!RejectPacket, GpsPart!SubmitReport, NetPart!SubmitWork
<1>3. CASE GpsAlone
  <2>1. UNCHANGED prod
    BY <1>3 DEF GpsAlone, netOnly
  <2> QED
    BY <1>3, <2>1, OutsideTheCall
<1>4. CASE NetAlone
  <2>1. UNCHANGED prod
    <3>1. CASE NetPart!handle_network_request
      BY <3>1
      DEF NetPart!handle_network_request, NetPart!send_http_request,
          NetPart!StartHandler, NetPart!GetPacket, NetPart!NothingToProcess,
          NetPart!AskForNetwork, NetPart!AwaitNetwork, NetPart!Resolve,
          NetPart!OpenSocket, NetPart!SetTlsOption, NetPart!Dial, NetPart!Send,
          NetPart!Recv, NetPart!ExchangeFails, NetPart!Reply, NetPart!Requeue,
          NetPart!CheckQueue, NetPart!Resubmit, NetPart!Disconnect, NetPart!prodVars
    <3>2. CASE NetPart!HourTick \/ NetPart!HourExpires \/ NetPart!L4Event
      BY <3>2 DEF NetPart!HourTick, NetPart!HourExpires, NetPart!L4Event, NetPart!prodVars
    <3> QED
      BY <1>4, <3>1, <3>2 DEF NetAlone
  <2> QED
    BY <1>4, <2>1 DEF NetAlone, gpsOnly
<1>5. CASE UNCHANGED vars
  BY <1>5 DEF vars, gpsOnly, netOnly
<1> QED
  BY <1>1, <1>2, <1>3, <1>4, <1>5 DEF Next

LEMMA NetHandlerSignal == SignalInv /\ NetAlone => SignalInv'
<1> SUFFICES ASSUME SignalInv, NetAlone PROVE SignalInv'
  OBVIOUS
<1>0. UNCHANGED gnss
  BY DEF NetAlone, gpsOnly
<1> USE DEF SignalInv, NetPart!PollWork, NetPart!pollVars
<1>1. CASE NetPart!StartHandler
  BY <1>0, <1>1 DEF NetPart!StartHandler
<1>2. CASE NetPart!GetPacket \/ NetPart!NothingToProcess \/ NetPart!send_http_request
           \/ NetPart!Requeue \/ NetPart!CheckQueue \/ NetPart!Disconnect
           \/ NetPart!L4Event
  BY <1>0, <1>2
  DEF NetPart!GetPacket, NetPart!NothingToProcess, NetPart!send_http_request,
      NetPart!AskForNetwork, NetPart!AwaitNetwork, NetPart!Resolve,
      NetPart!OpenSocket, NetPart!SetTlsOption, NetPart!Dial, NetPart!Send,
      NetPart!Recv, NetPart!ExchangeFails, NetPart!Reply, NetPart!Requeue,
      NetPart!CheckQueue, NetPart!Disconnect, NetPart!L4Event
<1>3. CASE NetPart!Resubmit
  BY <1>0, <1>3 DEF NetPart!Resubmit, NetPart!Submit
<1>4. CASE NetPart!HourTick \/ NetPart!HourExpires
  BY <1>0, <1>4 DEF NetPart!HourTick, NetPart!HourExpires
<1> QED
  BY <1>1, <1>2, <1>3, <1>4 DEF NetAlone, NetPart!handle_network_request

LEMMA NextSignalInv == SignalInv /\ [Next]_vars => SignalInv'
<1> SUFFICES ASSUME SignalInv, [Next]_vars PROVE SignalInv'
  OBVIOUS
<1> USE DEF SignalInv, NetPart!PollWork
<1>1. CASE WakeupResetsSignal
  BY <1>1 DEF WakeupResetsSignal, GpsPart!PeriodicWakeup, NetPart!SignalReset
<1>2. CASE FixRaisesSignal
  BY <1>2 DEF FixRaisesSignal, GpsPart!SleepAfterFix, NetPart!SignalRaise, NetPart!Armed
<1>3. CASE ReportFix
  <2>1. UNCHANGED <<gnss, modem_is_free_signal>>
    BY <1>3 DEF ReportFix, GpsPart!PutReport, GpsPart!ReportRejected,
                GpsPart!SubmitReport, GpsPart!modemVars
  <2>2. UNCHANGED handle_message_queue \/ NetPart!Submit("hour")
    BY <1>3 DEF ReportFix, NetPart!PutPacket, NetPart!RejectPacket,
                NetPart!SubmitWork, NetPart!pollVars
  <2> QED
    BY <2>1, <2>2 DEF NetPart!Submit
<1>4. CASE GpsAlone
  <2>1. UNCHANGED handle_message_queue
    BY <1>4 DEF GpsAlone, netOnly
  <2> QED
    BY <1>4, <2>1, SignalKept
<1>5. CASE NetAlone
  BY <1>5, NetHandlerSignal
<1>6. CASE UNCHANGED vars
  BY <1>6 DEF vars, gpsOnly, netOnly
<1> QED
  BY <1>1, <1>2, <1>3, <1>4, <1>5, <1>6 DEF Next

\* NoStrandedPackets of the network half, which its own steps preserve without
\* any other invariant.
LEMMA NextNoStranded ==
    NetPart!NoStrandedPackets /\ [Next]_vars => NetPart!NoStrandedPackets'
<1> SUFFICES ASSUME NetPart!NoStrandedPackets, [NetPart!Next]_NetPart!netVars
             PROVE  NetPart!NoStrandedPackets'
  BY StepOfNet
<1> USE DEF NetPart!NoStrandedPackets, NetPart!pollVars, NetPart!prodVars,
            NetPart!handlerVars
<1>1. CASE NetPart!send_gps_update
  BY <1>1 DEF NetPart!send_gps_update, NetPart!PutPacket, NetPart!RejectPacket,
              NetPart!SubmitWork, NetPart!Submit
<1>2. CASE NetPart!StartHandler \/ NetPart!GetPacket \/ NetPart!NothingToProcess
  BY <1>2 DEF NetPart!StartHandler, NetPart!GetPacket, NetPart!NothingToProcess,
              NetPart!Goto
<1>3. CASE NetPart!send_http_request
  <2>1. pc \notin {"idle", "disconnect"} /\ pc' \notin {"idle", "disconnect"}
    BY <1>3
    DEF NetPart!send_http_request, NetPart!AskForNetwork, NetPart!AwaitNetwork,
        NetPart!Resolve, NetPart!OpenSocket, NetPart!SetTlsOption,
        NetPart!NextOption, NetPart!TlsSteps, NetPart!Dial, NetPart!Send,
        NetPart!Recv, NetPart!ExchangeFails, NetPart!Reply, NetPart!Goto,
        NetPart!SocketSteps
  <2> QED
    BY <2>1
<1>4. CASE NetPart!Requeue \/ NetPart!CheckQueue \/ NetPart!Resubmit \/ NetPart!Disconnect
  BY <1>4 DEF NetPart!Requeue, NetPart!CheckQueue, NetPart!Resubmit,
              NetPart!Disconnect, NetPart!Goto, NetPart!Submit
<1>5. CASE NetPart!SignalRaise \/ NetPart!SignalReset
           \/ NetPart!HourTick \/ NetPart!HourExpires
           \/ NetPart!L4Event
  BY <1>5 DEF NetPart!SignalRaise, NetPart!SignalReset, NetPart!HourTick, NetPart!HourExpires,
              NetPart!L4Event, NetPart!Armed
<1>6. CASE UNCHANGED NetPart!netVars
  BY <1>6 DEF NetPart!netVars
<1> QED
  BY <1>1, <1>2, <1>3, <1>4, <1>5, <1>6 DEF NetPart!Next, NetPart!handle_network_request

LEMMA InitServedInv == Init => ServedInv
BY DEF Init, GpsPart!gps_init, NetPart!Init, ServedInv, QueueType, SameCall, SignalInv,
       NetPart!PollWork, NetPart!NoStrandedPackets

LEMMA NextServedInv == ServedInv /\ [Next]_vars => ServedInv'
BY NextQueueType, NextSameCall, NextSignalInv, NextNoStranded DEF ServedInv

\* While the GNSS sleeps, waiting packets that neither thread is at work on have
\* their work item on its queue: handle_network_request() is never left watching
\* a signal that is already up, nor unsubmitted.
THEOREM PacketsAreServed == Spec => []ServedWhileAsleep
<1>1. ServedInv => ServedWhileAsleep
  BY DEF ServedInv, SameCall, SignalInv, NetPart!NoStrandedPackets, ServedWhileAsleep
<1> QED
  BY InitServedInv, NextServedInv, <1>1, PTL DEF Spec

=============================================================================
