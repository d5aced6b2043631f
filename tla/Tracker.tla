------------------------------ MODULE Tracker -------------------------------
(***************************************************************************)
(* The running firmware: Gps and NetworkRequests together.  They share two *)
(* things: the signal modem_is_free_signal, raised and reset by the GNSS   *)
(* event handler and watched by the network work item, and the call        *)
(* send_gps_update(), made by the GPS work queue's thread.  A step of the  *)
(* one that touches either is a step of both.  Each keeps its own time,    *)
(* whose ticks may have any length: an hour may be any number of the other *)
(* module's.                                                               *)
(***************************************************************************)
EXTENDS Naturals, Sequences

CONSTANTS GPS_TIMEOUT, GPS_RESTART_DELAY, RATE_LIMIT, StartMayFail, MaxFixes,
          Capacity, MaxPackets, HOUR, HourCanPass

VARIABLES
    gnss, heard, work, left, gps_work_queue, at, fixes, pvt_frame, built,
    reported, since_sent, waited,
    modem_is_free_signal,
    current_state, link, network_connected, handle_message_queue, hour_left,
    network_requests_msgq, prod, next, pc, packet, sockets, tls_options, sent

GpsPart == INSTANCE Gps
NetPart == INSTANCE NetworkRequests

\* What belongs to one of the two alone.
gpsOnly == <<gnss, heard, work, left, gps_work_queue, at, fixes, pvt_frame,
             built, reported, since_sent, waited>>
netOnly == <<current_state, link, network_connected, handle_message_queue,
             hour_left, network_requests_msgq, prod, next, pc, packet, sockets,
             tls_options, sent>>
vars == <<gpsOnly, modem_is_free_signal, netOnly>>

Init == GpsPart!gps_init /\ NetPart!Init

\* The antenna goes back to the GNSS ...
WakeupResetsSignal == GpsPart!PeriodicWakeup /\ NetPart!SignalReset

\* ... and is free again.
FixRaisesSignal == GpsPart!SleepAfterFix /\ NetPart!SignalRaise

\* send_gps_update(): the packet is queued or dropped, and the network work
\* item is submitted.
ReportFix ==
    \/ GpsPart!PutReport /\ NetPart!PutPacket
    \/ GpsPart!ReportRejected /\ NetPart!RejectPacket
    \/ GpsPart!SubmitReport /\ NetPart!SubmitWork

GpsAlone ==
    /\ \/ GpsPart!SleepAfterTimeout
       \/ \E valid \in BOOLEAN : GpsPart!Pvt(valid)
       \/ GpsPart!StartHandler \/ GpsPart!HandlerReturns
       \/ GpsPart!handle_gps_timed_out_fn \/ GpsPart!handle_restart_gps_fn
       \/ GpsPart!CheckRate \/ GpsPart!GetInfo
       \/ GpsPart!ReadPosition \/ GpsPart!ReadTime
       \/ \E item \in GpsPart!Delayable : GpsPart!TimerExpires(item)
       \/ GpsPart!Tick
    /\ UNCHANGED netOnly

NetAlone ==
    /\ \/ NetPart!handle_network_request
       \/ NetPart!HourTick \/ NetPart!HourExpires
       \/ NetPart!L4Event
    /\ UNCHANGED gpsOnly

Next == WakeupResetsSignal \/ FixRaisesSignal \/ ReportFix \/ GpsAlone \/ NetAlone

Spec == Init /\ [][Next]_vars

-----------------------------------------------------------------------------
(* Safety *)

\* While the GNSS sleeps between fixes nothing holds back the packets: if any
\* wait and neither thread is at work on them, the work item is on its queue.
\* The GNSS interrupt, both work queues and the two poll timeouts play into it.
ServedWhileAsleep ==
    gnss = "asleep" /\ network_requests_msgq # <<>> /\ pc = "idle" /\ at # "submit"
        => handle_message_queue = "queued"

\* modem_antenna_signal.h:9, "suspend handling network requests while the modem
\* is using GPS": no request is started during a search.
NoRequestDuringSearch ==
    [][pc = "idle" /\ pc' = "get" => ~GpsPart!Searching]_vars

=============================================================================
