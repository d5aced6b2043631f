----------------------------- MODULE GpsProofs ------------------------------
(***************************************************************************)
(* The safety of Gps for every timeout, restart delay, rate limit and      *)
(* number of fixes.                                                        *)
(*                                                                         *)
(* Types come first, then the bookkeeping of the work queue (QueueInv),    *)
(* then which handler runs where (RunInv), and on these the argument about *)
(* the GNSS (GnssInv) and the one about the order of reports (OrderInv).   *)
(***************************************************************************)
EXTENDS Gps, ZephyrWorkProofs

Timeout == "gps_timed_out"
Restart == "restart_gps"
PvtData == "pvt_data"

\* The queue holds the items with the "queued" flag, each once.
QueueInv ==
    /\ \A i \in 1 .. Len(gps_work_queue) : "queued" \in work[gps_work_queue[i]]
    /\ \A i, j \in 1 .. Len(gps_work_queue) :
           gps_work_queue[i] = gps_work_queue[j] => i = j

StepsOf(item) ==
    CASE item = Timeout -> {"stop", "schedule_restart", "return"}
      [] item = Restart -> {"start", "return"}
      [] item = PvtData -> {"check", "info", "position", "time", "put", "submit", "return"}

\* A handler runs where the thread is; only the timeout is ever cancelled.
RunInv ==
    /\ \A item \in WorkItem : "running" \in work[item] => at \in StepsOf(item)
    /\ \A item \in WorkItem :
           "canceling" \in work[item] => item = Timeout /\ "running" \in work[item]

\* The restart is in one state at a time, and while it is to come, and until it
\* has been done, the GNSS is stopped.
GnssInv ==
    /\ "running" \in work[Restart] => {"delayed", "queued"} \cap work[Restart] = {}
    /\ ~({"delayed", "queued"} \subseteq work[Restart])
    /\ {"delayed", "queued"} \cap work[Restart] # {} => gnss = "stopped"
    /\ at = "start" => gnss = "stopped" /\ "running" \in work[Restart]
    /\ at = "return" /\ "running" \in work[Restart] => gnss # "stopped"
    /\ at = "schedule_restart" => gnss = "stopped"
    /\ at = "return" /\ "running" \in work[Timeout] => gnss = "stopped"
    /\ RestartPending
    /\ SearchIsWatched

\* What has been read of the frame is at most what it holds now.
OrderInv ==
    /\ \A i \in 1 .. Len(gps_work_queue) :
           gps_work_queue[i] = PvtData => 1 <= pvt_frame
    /\ at \in {"check", "info", "position"} => 1 <= pvt_frame
    /\ reported.time <= pvt_frame
    /\ at \in {"time", "put"} => /\ 1 <= built.position
                                 /\ reported.time <= built.position
                                 /\ built.position <= pvt_frame
    /\ at = "put" => /\ built.position <= built.time
                     /\ built.time <= pvt_frame

-----------------------------------------------------------------------------
(* Type correctness. *)

\* The two delays, by name.
LEMMA Delays ==
    /\ Delayable = {Timeout, Restart}
    /\ Delay[Timeout] = GPS_TIMEOUT /\ Delay[Timeout] \in Nat
    /\ Delay[Restart] = GPS_RESTART_DELAY /\ Delay[Restart] \in Nat
    /\ LongestDelay \in Nat
  BY TimesAssumption
  DEF TimesAssumption, Delayable, WorkItem, Delay, Timeout, Restart, LongestDelay

LEMMA TypeInit == gps_init => TypeOK
<1> SUFFICES ASSUME gps_init
             PROVE  TypeOK
  OBVIOUS
<1>1. gnss \in Gnss /\ at \in Steps
  BY DEF gps_init, Gnss, Steps
<1>2. heard \in BOOLEAN /\ modem_is_free_signal \in BOOLEAN
  BY DEF gps_init
<1>3. work \in [WorkItem -> SUBSET Flags]
  BY DEF gps_init
<1>4. left \in [Delayable -> Nat] /\ \A item \in Delayable : left[item] <= Delay[item]
  BY Delays DEF gps_init
<1>5. gps_work_queue \in Seq(WorkItem)
  BY DEF gps_init
<1>6. fixes \in 0 .. MaxFixes /\ pvt_frame \in 0 .. fixes
  BY MaxFixesAssumption DEF gps_init, MaxFixesAssumption
<1>7. built \in Packet /\ reported \in Packet
  BY MaxFixesAssumption DEF gps_init, MaxFixesAssumption, Packet
<1>8. since_sent \in 0 .. RATE_LIMIT /\ waited \in 0 .. LongestDelay
  BY TimesAssumption, Delays DEF gps_init, TimesAssumption
<1> QED
  BY <1>1, <1>2, <1>3, <1>4, <1>5, <1>6, <1>7, <1>8 DEF TypeOK

\* Cancelling the timeout takes it out of the queue and leaves the others there.
LEMMA WithoutTimeout ==
    ASSUME NEW queue \in Seq(WorkItem),
           \A i, j \in 1 .. Len(queue) : queue[i] = queue[j] => i = j
    PROVE  /\ Without(queue, Timeout) \in Seq(WorkItem)
           /\ \A i \in 1 .. Len(Without(queue, Timeout)) :
                  /\ Without(queue, Timeout)[i] # Timeout
                  /\ \E k \in 1 .. Len(queue) : Without(queue, Timeout)[i] = queue[k]
           /\ \A i, j \in 1 .. Len(Without(queue, Timeout)) :
                  Without(queue, Timeout)[i] = Without(queue, Timeout)[j] => i = j
<1>1. Timeout \in WorkItem
  BY DEF Timeout, WorkItem
<1> QED
  BY <1>1, WithoutItem

LEMMA TypeStep == TypeOK /\ QueueInv /\ [Next]_gpsVars => TypeOK'
<1> SUFFICES ASSUME TypeOK, QueueInv, [Next]_gpsVars
             PROVE  TypeOK'
  OBVIOUS
<1> USE TimesAssumption, MaxFixesAssumption, Delays
<1>w. /\ Timeout \in WorkItem /\ Restart \in WorkItem /\ PvtData \in WorkItem
      /\ \A item \in WorkItem : work[item] \in SUBSET Flags
  BY DEF TypeOK, WorkItem, Timeout, Restart, PvtData
<1>f. \A item \in WorkItem : FirstStep[item] \in Steps
  BY DEF FirstStep, WorkItem, Steps
<1>1. CASE PeriodicWakeup
  <2>1. work' \in [WorkItem -> SUBSET Flags]
    BY <1>1, <1>w, FlagOps DEF TypeOK, PeriodicWakeup, Scheduled, Timeout
  <2>2. left' \in [Delayable -> Nat] /\ \A item \in Delayable : left'[item] <= Delay[item]
    BY <1>1, <1>w DEF TypeOK, PeriodicWakeup, Scheduled, Timeout
  <2>3. waited' \in 0 .. LongestDelay
    BY <1>1 DEF TypeOK, PeriodicWakeup
  <2> QED
    BY <1>1, <2>1, <2>2, <2>3 DEF TypeOK, PeriodicWakeup, Gnss, fixVars, reportVars
<1>2. CASE SleepAfterFix
  <2>1. gps_work_queue' \in Seq(WorkItem)
    BY <1>2, <1>w, WithoutTimeout DEF TypeOK, QueueInv, SleepAfterFix, Timeout
  <2>2. work' \in [WorkItem -> SUBSET Flags]
    BY <1>2, <1>w, FlagOps DEF TypeOK, SleepAfterFix, Timeout
  <2>3. left' \in [Delayable -> Nat] /\ \A item \in Delayable : left'[item] <= Delay[item]
    BY <1>2, <1>w DEF TypeOK, SleepAfterFix, Timeout
  <2> QED
    BY <1>2, <2>1, <2>2, <2>3 DEF TypeOK, SleepAfterFix, Gnss, fixVars, reportVars
<1>3. CASE SleepAfterTimeout
  BY <1>3 DEF TypeOK, SleepAfterTimeout, Gnss, workVars, fixVars, reportVars
<1>4. ASSUME NEW valid \in BOOLEAN, Pvt(valid)
      PROVE  TypeOK'
  <2>1. gnss' \in Gnss /\ fixes' \in 0 .. MaxFixes /\ pvt_frame' \in 0 .. fixes'
    BY <1>4 DEF TypeOK, Pvt, Gnss, fixVars, MaxFixesAssumption
  <2>2. work' \in [WorkItem -> SUBSET Flags]
    BY <1>4, <1>w, FlagOps DEF TypeOK, Pvt, Timeout, PvtData
  <2>3. left' \in [Delayable -> Nat] /\ \A item \in Delayable : left'[item] <= Delay[item]
    BY <1>4, <1>w DEF TypeOK, Pvt, Timeout
  <2>4. gps_work_queue' \in Seq(WorkItem)
    BY <1>4, <1>w DEF TypeOK, Pvt, PvtData
  <2>5. heard' \in BOOLEAN
    BY <1>4 DEF Pvt
  <2> QED
    BY <1>4, <2>1, <2>2, <2>3, <2>4, <2>5 DEF TypeOK, Pvt, reportVars
<1>5. CASE GnssStop
  BY <1>5 DEF TypeOK, GnssStop, Gnss, Steps, workVars, fixVars, reportVars
<1>6. CASE ScheduleRestart
  <2>1. work' \in [WorkItem -> SUBSET Flags]
    BY <1>6, <1>w, FlagOps DEF TypeOK, ScheduleRestart, Scheduled, Restart
  <2>2. left' \in [Delayable -> Nat] /\ \A item \in Delayable : left'[item] <= Delay[item]
    BY <1>6, <1>w DEF TypeOK, ScheduleRestart, Scheduled, Restart
  <2> QED
    BY <1>6, <2>1, <2>2
    DEF TypeOK, ScheduleRestart, Steps, modemVars, fixVars, reportVars
<1>7. CASE GnssStart \/ GnssStartFails
  <2>1. gnss' \in Gnss /\ at' \in Steps
    BY <1>7 DEF GnssStart, GnssStartFails, Gnss, Steps
  <2>2. heard' \in BOOLEAN
    BY <1>7 DEF TypeOK, GnssStart, GnssStartFails
  <2>3. waited' \in 0 .. LongestDelay
    BY <1>7 DEF TypeOK, GnssStart, GnssStartFails
  <2> QED
    BY <1>7, <2>1, <2>2, <2>3 DEF TypeOK, GnssStart, GnssStartFails, workVars, fixVars, reportVars
<1>8. CASE CheckRate
  BY <1>8 DEF TypeOK, CheckRate, Steps, modemVars, workVars, fixVars, TimesAssumption
<1>9. CASE GetInfo \/ ReportRejected \/ SubmitReport
  BY <1>9
  DEF TypeOK, GetInfo, ReportRejected, SubmitReport, Steps, modemVars, workVars, fixVars,
      reportVars
<1>10. CASE ReadPosition
  <2>1. built' \in Packet
    <3>1. pvt_frame \in 0 .. MaxFixes
      BY DEF TypeOK, MaxFixesAssumption
    <3> QED
      BY <1>10, <3>1 DEF TypeOK, ReadPosition, Packet
  <2> QED
    BY <1>10, <2>1 DEF TypeOK, ReadPosition, Steps, modemVars, workVars, fixVars
<1>11. CASE ReadTime
  <2>1. built' \in Packet
    <3>1. pvt_frame \in 0 .. MaxFixes
      BY DEF TypeOK, MaxFixesAssumption
    <3> QED
      BY <1>11, <3>1 DEF TypeOK, ReadTime, Packet
  <2> QED
    BY <1>11, <2>1 DEF TypeOK, ReadTime, Steps, modemVars, workVars, fixVars
<1>12. CASE PutReport
  BY <1>12 DEF TypeOK, PutReport, Steps, modemVars, workVars, fixVars
<1>13. CASE StartHandler
  <2>1. Head(gps_work_queue) \in WorkItem /\ gps_work_queue' \in Seq(WorkItem)
    BY <1>13 DEF TypeOK, StartHandler
  <2>2. work' \in [WorkItem -> SUBSET Flags] /\ at' \in Steps
    BY <1>13, <2>1, <1>w, <1>f, FlagOps DEF TypeOK, StartHandler
  <2> QED
    BY <1>13, <2>1, <2>2 DEF TypeOK, StartHandler, modemVars, fixVars, reportVars
<1>14. CASE HandlerReturns
  <2>1. work' \in [WorkItem -> SUBSET Flags]
    BY <1>14, <1>w, FlagOps DEF HandlerReturns
  <2> QED
    BY <1>14, <2>1 DEF TypeOK, HandlerReturns, Steps, modemVars, fixVars, reportVars
<1>15. ASSUME NEW item \in Delayable, TimerExpires(item)
       PROVE  TypeOK'
  <2>1. item \in WorkItem
    BY DEF Delayable
  <2>2. work' \in [WorkItem -> SUBSET Flags] /\ gps_work_queue' \in Seq(WorkItem)
    BY <1>15, <2>1, <1>w, FlagOps DEF TypeOK, TimerExpires, Enqueued
  <2> QED
    BY <1>15, <2>2 DEF TypeOK, TimerExpires, modemVars, fixVars, reportVars
<1>16. CASE Tick
  <2>1. left' \in [Delayable -> Nat] /\ \A item \in Delayable : left'[item] <= Delay[item]
    BY <1>16 DEF TypeOK, Tick, Due
  <2>2. since_sent' \in 0 .. RATE_LIMIT /\ waited' \in 0 .. LongestDelay
    BY <1>16 DEF TypeOK, Tick, Capped, TimesAssumption
  <2> QED
    BY <1>16, <2>1, <2>2 DEF TypeOK, Tick, modemVars, fixVars
<1>17. CASE UNCHANGED gpsVars
  BY <1>17 DEF TypeOK, gpsVars, modemVars, workVars, fixVars, reportVars
<1> QED
  BY <1>1, <1>2, <1>3, <1>4, <1>5, <1>6, <1>7, <1>8, <1>9, <1>10, <1>11, <1>12, <1>13,
     <1>14, <1>15, <1>16, <1>17
  DEF Next, gnss_event_handler, WorkQueueThread, handle_gps_timed_out_fn,
      handle_restart_gps_fn, pvt_data_handler_fn

-----------------------------------------------------------------------------
(* The queue. *)

\* A queue grows by one item as the item gets its "queued" flag, whatever else
\* the step does to the flags other than "queued" of any item.
LEMMA EnqueuedKeeps ==
    ASSUME TypeOK, QueueInv, NEW item \in WorkItem,
           work' \in [WorkItem -> SUBSET Flags],
           \A other \in WorkItem : "queued" \in work[other] => "queued" \in work'[other],
           gps_work_queue' = IF "queued" \in work'[item] \ work[item]
                             THEN Append(gps_work_queue, item) ELSE gps_work_queue
    PROVE  QueueInv'
<1>t. gps_work_queue \in Seq(WorkItem)
  BY DEF TypeOK
<1>1. \A i \in 1 .. Len(gps_work_queue) : "queued" \in work'[gps_work_queue[i]]
  BY <1>t DEF QueueInv
<1>2. CASE "queued" \in work'[item] \ work[item]
  <2>1. \A i \in 1 .. Len(gps_work_queue) : gps_work_queue[i] # item
    BY <1>2, <1>t DEF QueueInv
  <2>2. /\ \A i \in 1 .. Len(gps_work_queue') :
               \/ i \in 1 .. Len(gps_work_queue) /\ gps_work_queue'[i] = gps_work_queue[i]
               \/ gps_work_queue'[i] = item
        /\ \A i, j \in 1 .. Len(gps_work_queue') :
               gps_work_queue'[i] = gps_work_queue'[j] => i = j
    BY <1>2, <2>1, <1>t, AppendItem DEF QueueInv
  <2> QED
    BY <1>1, <1>2, <2>2 DEF QueueInv
<1>3. CASE ~("queued" \in work'[item] \ work[item])
  BY <1>1, <1>3 DEF QueueInv
<1> QED
  BY <1>2, <1>3

LEMMA QueueStep == TypeOK /\ QueueInv /\ TypeOK' /\ [Next]_gpsVars => QueueInv'
<1> SUFFICES ASSUME TypeOK, QueueInv, TypeOK', [Next]_gpsVars
             PROVE  QueueInv'
  OBVIOUS
<1>w. /\ Timeout \in WorkItem /\ Restart \in WorkItem /\ PvtData \in WorkItem
      /\ work \in [WorkItem -> SUBSET Flags]
      /\ work' \in [WorkItem -> SUBSET Flags]
      /\ gps_work_queue \in Seq(WorkItem)
      /\ gps_work_queue' \in Seq(WorkItem)
  BY DEF TypeOK, WorkItem, Timeout, Restart, PvtData
<1>0. ASSUME gps_work_queue' = gps_work_queue,
             \A item \in WorkItem : "queued" \in work[item] => "queued" \in work'[item]
      PROVE  QueueInv'
  BY <1>0, <1>w DEF QueueInv
<1>1. CASE PeriodicWakeup
  <2>1. \A item \in WorkItem : "queued" \in work[item] => "queued" \in work'[item]
    BY <1>1, <1>w, QueuedFlag DEF PeriodicWakeup, Scheduled, Timeout
  <2> QED
    BY <1>1, <2>1, <1>0 DEF PeriodicWakeup
<1>2. CASE SleepAfterFix
  <2> DEFINE q == Without(gps_work_queue, Timeout)
  <2>0. gps_work_queue' = q
    BY <1>2 DEF SleepAfterFix, Timeout
  <2>1. /\ \A i \in 1 .. Len(q) :
               /\ q[i] # Timeout
               /\ \E k \in 1 .. Len(gps_work_queue) : q[i] = gps_work_queue[k]
        /\ \A i, j \in 1 .. Len(q) : q[i] = q[j] => i = j
    <3>1. \A i, j \in 1 .. Len(gps_work_queue) :
              gps_work_queue[i] = gps_work_queue[j] => i = j
      BY DEF QueueInv
    <3> QED
      BY <3>1, <1>w, WithoutTimeout
  <2> HIDE DEF q
  <2>2. \A item \in WorkItem \ {Timeout} : work'[item] = work[item]
    BY <1>2, <1>w DEF SleepAfterFix, Timeout
  <2>3. \A i \in 1 .. Len(q) : q[i] \in WorkItem
    BY <1>w, <2>0
  <2>4. \A i \in 1 .. Len(q) : "queued" \in work'[q[i]]
    BY <2>1, <2>2, <2>3 DEF QueueInv
  <2> QED
    BY <2>0, <2>1, <2>4 DEF QueueInv
<1>3. ASSUME NEW valid \in BOOLEAN, Pvt(valid)
      PROVE  QueueInv'
  <2>1. \A item \in WorkItem : "queued" \in work[item] => "queued" \in work'[item]
    BY <1>3, <1>w, QueuedFlag DEF Pvt, Timeout, PvtData
  <2>2. work'[PvtData] = IF valid THEN Submit(work[PvtData]) ELSE work[PvtData]
    BY <1>3, <1>w DEF Pvt, Timeout, PvtData
  <2>3. gps_work_queue' = IF "queued" \in work'[PvtData] \ work[PvtData]
                          THEN Append(gps_work_queue, PvtData) ELSE gps_work_queue
    BY <1>3, <2>2 DEF Pvt, PvtData
  <2> QED
    BY <2>1, <2>3, <1>w, EnqueuedKeeps
<1>4. CASE ScheduleRestart
  <2>1. \A item \in WorkItem : "queued" \in work[item] => "queued" \in work'[item]
    BY <1>4, <1>w, QueuedFlag DEF ScheduleRestart, Scheduled, Restart
  <2> QED
    BY <1>4, <2>1, <1>0 DEF ScheduleRestart
<1>5. CASE StartHandler
  <2>1. /\ Len(gps_work_queue) \in Nat \ {0}
        /\ Len(gps_work_queue') = Len(gps_work_queue) - 1
        /\ \A i \in 1 .. Len(gps_work_queue') : gps_work_queue'[i] = gps_work_queue[i + 1]
        /\ Head(gps_work_queue) = gps_work_queue[1]
    BY <1>5, <1>w DEF StartHandler
  <2>2. \A i \in 1 .. Len(gps_work_queue') : gps_work_queue'[i] # Head(gps_work_queue)
    BY <2>1 DEF QueueInv
  <2>3. \A item \in WorkItem \ {Head(gps_work_queue)} : work'[item] = work[item]
    BY <1>5, <1>w DEF StartHandler
  <2>4. \A i \in 1 .. Len(gps_work_queue') : "queued" \in work'[gps_work_queue'[i]]
    <3> TAKE i \in 1 .. Len(gps_work_queue')
    <3>1. gps_work_queue'[i] \in WorkItem
      BY <1>w
    <3>2. "queued" \in work[gps_work_queue'[i]]
      BY <2>1 DEF QueueInv
    <3> QED
      BY <2>2, <2>3, <3>1, <3>2
  <2>5. ASSUME NEW i \in 1 .. Len(gps_work_queue'), NEW j \in 1 .. Len(gps_work_queue'),
               gps_work_queue'[i] = gps_work_queue'[j]
        PROVE  i = j
    <3>1. i + 1 \in 1 .. Len(gps_work_queue) /\ j + 1 \in 1 .. Len(gps_work_queue)
      BY <2>1
    <3>2. i + 1 = j + 1
      BY <2>1, <2>5, <3>1 DEF QueueInv
    <3> QED
      BY <3>2
  <2> QED
    BY <2>4, <2>5 DEF QueueInv
<1>6. CASE HandlerReturns
  <2>1. \A item \in WorkItem : "queued" \in work[item] => "queued" \in work'[item]
    BY <1>6, <1>w, QueuedFlag DEF HandlerReturns
  <2> QED
    BY <1>6, <2>1, <1>0 DEF HandlerReturns
<1>7. ASSUME NEW item \in Delayable, TimerExpires(item)
      PROVE  QueueInv'
  <2>1. item \in WorkItem
    BY DEF Delayable
  <2>2. work' = [work EXCEPT ![item] = Expire(work[item])]
    BY <1>7 DEF TimerExpires, Enqueued
  <2>3. \A other \in WorkItem : "queued" \in work[other] => "queued" \in work'[other]
    BY <2>1, <2>2, <1>w, QueuedFlag
  <2>4. gps_work_queue' = IF "queued" \in work'[item] \ work[item]
                          THEN Append(gps_work_queue, item) ELSE gps_work_queue
    BY <1>7, <2>1, <2>2, <1>w DEF TimerExpires, Enqueued
  <2> QED
    BY <2>1, <2>3, <2>4, <1>w, EnqueuedKeeps
<1>8. CASE \/ SleepAfterTimeout \/ GnssStop \/ GnssStart \/ GnssStartFails
           \/ pvt_data_handler_fn \/ Tick \/ UNCHANGED gpsVars
  <2>1. work' = work /\ gps_work_queue' = gps_work_queue
    BY <1>8
    DEF SleepAfterTimeout, GnssStop, GnssStart, GnssStartFails, pvt_data_handler_fn,
        CheckRate, GetInfo, ReadPosition, ReadTime, PutReport, ReportRejected,
        SubmitReport, Tick, gpsVars, workVars
  <2> QED
    BY <2>1 DEF QueueInv
<1> QED
  BY <1>1, <1>2, <1>3, <1>4, <1>5, <1>6, <1>7, <1>8
  DEF Next, gnss_event_handler, WorkQueueThread, handle_gps_timed_out_fn,
      handle_restart_gps_fn

-----------------------------------------------------------------------------
(* The thread. *)

LEMMA Handlers ==
    /\ WorkItem = {Timeout, Restart, PvtData}
    /\ Timeout # Restart /\ Timeout # PvtData /\ Restart # PvtData
    /\ StepsOf(Timeout) = {"stop", "schedule_restart", "return"}
    /\ StepsOf(Restart) = {"start", "return"}
    /\ StepsOf(PvtData) = {"check", "info", "position", "time", "put", "submit", "return"}
    /\ FirstStep[Timeout] = "stop"
    /\ FirstStep[Restart] = "start"
    /\ FirstStep[PvtData] = "check"
  BY DEF WorkItem, Timeout, Restart, PvtData, StepsOf, FirstStep

LEMMA RunStep == TypeOK /\ RunInv /\ [Next]_gpsVars => RunInv'
<1> SUFFICES ASSUME TypeOK, RunInv, [Next]_gpsVars
             PROVE  RunInv'
  OBVIOUS
<1>w. /\ Timeout \in WorkItem /\ Restart \in WorkItem /\ PvtData \in WorkItem
      /\ work \in [WorkItem -> SUBSET Flags]
  BY Handlers DEF TypeOK
<1>0. ASSUME \A item \in WorkItem, flag \in {"running", "canceling"} :
                 flag \in work'[item] <=> flag \in work[item],
             \A item \in WorkItem : at \in StepsOf(item) => at' \in StepsOf(item)
      PROVE  RunInv'
  BY <1>0 DEF RunInv
<1>1. CASE PeriodicWakeup
  <2>1. \A item \in WorkItem, flag \in {"running", "canceling"} :
            flag \in work'[item] <=> flag \in work[item]
    BY <1>1, <1>w, RunningFlags DEF PeriodicWakeup, Scheduled, Timeout
  <2> QED
    BY <1>1, <2>1, <1>0 DEF PeriodicWakeup
<1>2. CASE SleepAfterFix
  <2>1. /\ \A item \in WorkItem \ {Timeout} : work'[item] = work[item]
        /\ "running" \in work'[Timeout] => "running" \in work[Timeout]
        /\ "canceling" \in work'[Timeout] => "running" \in work'[Timeout]
    BY <1>2, <1>w DEF SleepAfterFix, Timeout, Cancel
  <2> QED
    BY <1>2, <2>1 DEF RunInv, SleepAfterFix
<1>3. ASSUME NEW valid \in BOOLEAN, Pvt(valid)
      PROVE  RunInv'
  <2>1. \A item \in WorkItem, flag \in {"running", "canceling"} :
            flag \in work'[item] <=> flag \in work[item]
    BY <1>3, <1>w, RunningFlags DEF Pvt, Timeout, PvtData
  <2> QED
    BY <1>3, <2>1, <1>0 DEF Pvt
<1>4. CASE ScheduleRestart
  <2>1. \A item \in WorkItem, flag \in {"running", "canceling"} :
            flag \in work'[item] <=> flag \in work[item]
    BY <1>4, <1>w, RunningFlags DEF ScheduleRestart, Scheduled, Restart
  <2>2. \A item \in WorkItem : at \in StepsOf(item) => at' \in StepsOf(item)
    BY <1>4, Handlers DEF ScheduleRestart
  <2> QED
    BY <2>1, <2>2, <1>0
<1>5. CASE StartHandler
  <2> DEFINE head == Head(gps_work_queue)
  <2>1. head \in WorkItem
    BY <1>5 DEF StartHandler, TypeOK
  <2>2. \A item \in WorkItem : work[item] \cap {"running", "canceling"} = {}
    BY <1>5, Handlers DEF StartHandler, RunInv
  <2>3. /\ \A item \in WorkItem \ {head} : work'[item] = work[item]
        /\ work'[head] = Run(work[head])
        /\ at' = FirstStep[head]
    BY <1>5, <2>1, <1>w DEF StartHandler
  <2>4. "canceling" \notin work'[head]
    BY <2>1, <2>2, <2>3 DEF Run
  <2>5. at' \in StepsOf(head)
    BY <2>1, <2>3, Handlers
  <2> HIDE DEF head
  <2> QED
    BY <2>1, <2>2, <2>3, <2>4, <2>5 DEF RunInv
<1>6. CASE HandlerReturns
  <2>1. \A item \in WorkItem : work'[item] \cap {"running", "canceling"} = {}
    BY <1>6, <1>w, RunningFlags DEF HandlerReturns
  <2> QED
    BY <2>1 DEF RunInv
<1>7. ASSUME NEW item \in Delayable, TimerExpires(item)
      PROVE  RunInv'
  <2>1. item \in WorkItem
    BY DEF Delayable
  <2>2. \A other \in WorkItem, flag \in {"running", "canceling"} :
            flag \in work'[other] <=> flag \in work[other]
    BY <1>7, <2>1, <1>w, RunningFlags DEF TimerExpires, Enqueued
  <2> QED
    BY <1>7, <2>2, <1>0 DEF TimerExpires
<1>8. CASE GnssStop \/ GnssStart \/ GnssStartFails
  <2>1. \A item \in WorkItem : at \in StepsOf(item) => at' \in StepsOf(item)
    BY <1>8, Handlers DEF GnssStop, GnssStart, GnssStartFails
  <2>2. work' = work
    BY <1>8 DEF GnssStop, GnssStart, GnssStartFails, workVars
  <2> QED
    BY <2>1, <2>2, <1>0
<1>9. CASE pvt_data_handler_fn
  <2>1. work' = work
    BY <1>9
    DEF pvt_data_handler_fn, CheckRate, GetInfo, ReadPosition, ReadTime, PutReport,
        ReportRejected, SubmitReport, workVars
  <2>2. at \in StepsOf(PvtData) \ {"return"} /\ at' \in StepsOf(PvtData)
    BY <1>9, Handlers
    DEF pvt_data_handler_fn, CheckRate, GetInfo, ReadPosition, ReadTime, PutReport,
        ReportRejected, SubmitReport
  <2> QED
    BY <2>1, <2>2, <1>0, Handlers
<1>10. CASE SleepAfterTimeout \/ Tick \/ UNCHANGED gpsVars
  BY <1>10 DEF RunInv, SleepAfterTimeout, Tick, gpsVars, workVars
<1> QED
  BY <1>1, <1>2, <1>3, <1>4, <1>5, <1>6, <1>7, <1>8, <1>9, <1>10
  DEF Next, gnss_event_handler, WorkQueueThread, handle_gps_timed_out_fn,
      handle_restart_gps_fn

-----------------------------------------------------------------------------
(* The GNSS. *)

\* An event leaves the thread and the restart alone, comes only while the GNSS
\* is not stopped, and leaves it so.
LEMMA EventStep ==
    ASSUME TypeOK, RunInv, GnssInv, TypeOK', RunInv',
           at' = at, work'[Restart] = work[Restart],
           gnss # "stopped", gnss' # "stopped", at # "return" \/ "running" \notin work'[Timeout],
           Searching' \/ gnss' = "gave_up" => ~heard' \/ IsPending(work'[Timeout])
    PROVE  GnssInv'
  BY DEF GnssInv, RestartPending, SearchIsWatched, IsPending, Timeout, Restart

LEMMA GnssStep ==
    TypeOK /\ QueueInv /\ RunInv /\ GnssInv /\ TypeOK' /\ RunInv' /\ [Next]_gpsVars => GnssInv'
<1> SUFFICES ASSUME TypeOK, QueueInv, RunInv, GnssInv, TypeOK', RunInv', [Next]_gpsVars
             PROVE  GnssInv'
  OBVIOUS
<1>w. /\ Timeout \in WorkItem /\ Restart \in WorkItem /\ PvtData \in WorkItem
      /\ Timeout # Restart /\ Restart # PvtData
      /\ work \in [WorkItem -> SUBSET Flags]
  BY Handlers DEF TypeOK
<1>c. "canceling" \notin work[Restart]
  BY <1>w DEF RunInv
<1>p. /\ gnss = "stopped" => work[Restart] # {} \/ at = "schedule_restart"
      /\ Searching \/ gnss = "gave_up" => ~heard \/ work[Timeout] # {}
  BY DEF GnssInv, RestartPending, SearchIsWatched, IsPending, Restart, Timeout
<1>1. CASE PeriodicWakeup
  <2>1. /\ work'[Restart] = work[Restart]
        /\ work'[Timeout] = Schedule(work[Timeout])
    BY <1>1, <1>w DEF PeriodicWakeup, Scheduled, Timeout, Restart
  <2>2. work'[Timeout] # {} /\ ("running" \in work'[Timeout] => "running" \in work[Timeout])
    BY <2>1 DEF Schedule, CanSchedule
  <2> QED
    BY <1>1, <2>1, <2>2, EventStep DEF PeriodicWakeup, IsPending, GnssInv
<1>2. CASE SleepAfterFix
  <2>1. /\ work'[Restart] = work[Restart]
        /\ work'[Timeout] = Cancel(work[Timeout])
    BY <1>2, <1>w DEF SleepAfterFix, Timeout, Restart
  <2>2. "running" \in work'[Timeout] => "running" \in work[Timeout]
    BY <2>1 DEF Cancel
  <2> QED
    BY <1>2, <2>1, <2>2, EventStep DEF SleepAfterFix, Searching, GnssInv
<1>3. CASE SleepAfterTimeout
  <2>1. work' = work
    BY <1>3 DEF SleepAfterTimeout, workVars
  <2> QED
    BY <1>3, <1>p, <2>1, EventStep DEF SleepAfterTimeout, Searching, IsPending, GnssInv
<1>4. ASSUME NEW valid \in BOOLEAN, Pvt(valid)
      PROVE  GnssInv'
  <2>1. /\ work'[Restart] = work[Restart]
        /\ work'[Timeout] = IF IsPending(work[Timeout]) THEN work[Timeout]
                            ELSE Schedule(work[Timeout])
    BY <1>4, <1>w DEF Pvt, Timeout, Restart, PvtData
  <2>2. work'[Timeout] # {} /\ ("running" \in work'[Timeout] => "running" \in work[Timeout])
    BY <2>1 DEF Schedule, CanSchedule, IsPending
  <2>3. gnss # "stopped" /\ gnss' # "stopped" /\ at' = at
    BY <1>4 DEF Pvt, Searching
  <2> QED
    BY <2>1, <2>2, <2>3, EventStep DEF IsPending, GnssInv
<1>5. CASE GnssStop
  <2>1. work' = work
    BY <1>5 DEF GnssStop, workVars
  <2> QED
    BY <1>5, <2>1 DEF GnssStop, GnssInv, RestartPending, SearchIsWatched, Searching
<1>6. CASE ScheduleRestart
  <2>1. /\ work'[Restart] = Schedule(work[Restart])
        /\ gnss' = gnss
    BY <1>6, <1>w DEF ScheduleRestart, Scheduled, Restart, modemVars
  <2>2. "running" \notin work[Restart] /\ gnss = "stopped"
    BY <1>6, <1>w, Handlers DEF ScheduleRestart, RunInv, GnssInv
  <2>3. /\ "running" \notin work'[Restart]
        /\ work'[Restart] # {}
        /\ ~({"delayed", "queued"} \subseteq work'[Restart])
    BY <2>1, <2>2 DEF Schedule, CanSchedule, GnssInv
  <2> QED
    BY <1>6, <2>1, <2>2, <2>3
    DEF ScheduleRestart, GnssInv, RestartPending, SearchIsWatched, Searching, IsPending,
        Restart
<1>7. CASE GnssStart \/ GnssStartFails
  <2>1. work' = work /\ gnss' \in {"searching", "failed"} /\ at = "start" /\ at' = "return"
    BY <1>7 DEF GnssStart, GnssStartFails, workVars
  <2>2. gnss' = "searching" => ~heard'
    BY <1>7 DEF TypeOK, GnssStart, GnssStartFails
  <2>3. "running" \in work[Restart] /\ "running" \notin work[Timeout]
    BY <2>1, <1>w, Handlers DEF GnssInv, RunInv
  <2> QED
    BY <2>1, <2>2, <2>3 DEF GnssInv, RestartPending, SearchIsWatched, Searching
<1>8. CASE pvt_data_handler_fn
  <2>1. /\ work' = work /\ gnss' = gnss /\ heard' = heard
        /\ at \in StepsOf(PvtData) \ {"return"} /\ at' \in StepsOf(PvtData)
    BY <1>8, Handlers
    DEF pvt_data_handler_fn, CheckRate, GetInfo, ReadPosition, ReadTime, PutReport,
        ReportRejected, SubmitReport, workVars, modemVars
  <2>2. "running" \notin work[Timeout] /\ "running" \notin work[Restart]
    BY <2>1, <1>w, Handlers DEF RunInv
  <2> QED
    BY <2>1, <2>2, Handlers DEF GnssInv, RestartPending, SearchIsWatched, Searching
<1>9. CASE StartHandler
  <2> DEFINE head == Head(gps_work_queue)
  <2>1. head \in WorkItem /\ "queued" \in work[head]
    BY <1>9 DEF StartHandler, TypeOK, QueueInv
  <2>2. /\ \A item \in WorkItem \ {head} : work'[item] = work[item]
        /\ work'[head] = Run(work[head])
        /\ at' = FirstStep[head]
        /\ gnss' = gnss /\ heard' = heard
    BY <1>9, <2>1, <1>w DEF StartHandler, modemVars
  <2>3. "running" \notin work[Restart]
    BY <1>9, <1>w, Handlers DEF StartHandler, RunInv
  <2> HIDE DEF head
  <2>4. CASE head = Restart
    <3>1. gnss = "stopped" /\ "delayed" \notin work[Restart]
      BY <2>1, <2>4 DEF GnssInv
    <3>2. /\ "running" \in work'[Restart]
          /\ {"delayed", "queued"} \cap work'[Restart] = {}
          /\ work'[Timeout] = work[Timeout]
          /\ at' = "start"
      BY <2>2, <2>4, <3>1, <1>w, Handlers DEF Run
    <3> QED
      BY <2>2, <3>1, <3>2
      DEF GnssInv, RestartPending, SearchIsWatched, Searching, IsPending, Restart
  <2>5. CASE head # Restart
    <3>1. work'[Restart] = work[Restart] /\ at' \in {"stop", "check"} /\ at = "idle"
      BY <1>9, <2>1, <2>2, <2>5, <1>w, Handlers DEF StartHandler
    <3>2. work[Timeout] # {} => work'[Timeout] # {}
      BY <2>1, <2>2, <1>w DEF Run
    <3> QED
      BY <2>2, <2>3, <3>1, <3>2, <1>p
      DEF GnssInv, RestartPending, SearchIsWatched, Searching, IsPending, Restart, Timeout
  <2> QED
    BY <2>4, <2>5
<1>10. CASE HandlerReturns
  <2>1. /\ work'[Restart] = Return(work[Restart])
        /\ work'[Timeout] = Return(work[Timeout])
        /\ at = "return" /\ at' = "idle" /\ gnss' = gnss /\ heard' = heard
    BY <1>10, <1>w DEF HandlerReturns, modemVars
  <2>2. gnss = "stopped" => work'[Restart] = work[Restart]
    BY <2>1, <1>c DEF GnssInv, Return
  <2>3. gnss # "stopped" => work'[Timeout] = work[Timeout]
    <3>1. gnss # "stopped" => "running" \notin work[Timeout] /\ "canceling" \notin work[Timeout]
      BY <2>1, <1>w DEF GnssInv, RunInv
    <3> QED
      BY <2>1, <3>1 DEF Return
  <2>4. /\ "running" \notin work'[Restart]
        /\ {"delayed", "queued"} \cap work'[Restart] = {"delayed", "queued"} \cap work[Restart]
    BY <2>1 DEF Return
  <2> QED
    BY <2>1, <2>2, <2>3, <2>4, <1>p
    DEF GnssInv, RestartPending, SearchIsWatched, Searching, IsPending, Restart, Timeout
<1>11. ASSUME NEW item \in Delayable, TimerExpires(item)
       PROVE  GnssInv'
  <2>1. /\ item \in WorkItem /\ "delayed" \in work[item]
        /\ \A other \in WorkItem \ {item} : work'[other] = work[other]
        /\ work'[item] = Expire(work[item])
        /\ at' = at /\ gnss' = gnss /\ heard' = heard
    BY <1>11, <1>w DEF TimerExpires, Enqueued, Due, Delayable, modemVars
  <2>2. CASE item = Restart
    <3>1. gnss = "stopped" /\ "running" \notin work[Restart]
      BY <2>1, <2>2 DEF GnssInv
    <3>2. /\ work'[Restart] # {} /\ "running" \notin work'[Restart]
          /\ "delayed" \notin work'[Restart]
          /\ work'[Timeout] = work[Timeout]
      BY <2>1, <2>2, <3>1, <1>c, <1>w DEF Expire, Submit
    <3> QED
      BY <2>1, <3>1, <3>2
      DEF GnssInv, RestartPending, SearchIsWatched, Searching, IsPending, Restart
  <2>3. CASE item = Timeout
    <3>1. /\ work'[Restart] = work[Restart]
          /\ work'[Timeout] # {}
          /\ "running" \in work'[Timeout] => "running" \in work[Timeout]
      BY <2>1, <2>3, <1>w DEF Expire, Submit
    <3> QED
      BY <2>1, <3>1
      DEF GnssInv, RestartPending, SearchIsWatched, Searching, IsPending, Restart, Timeout
  <2> QED
    BY <2>2, <2>3, Delays
<1>12. CASE Tick \/ UNCHANGED gpsVars
  <2>1. work' = work /\ at' = at /\ gnss' = gnss /\ heard' = heard
    BY <1>12 DEF Tick, gpsVars, modemVars, workVars
  <2> QED
    BY <2>1 DEF GnssInv, RestartPending, SearchIsWatched, Searching
<1> QED
  BY <1>1, <1>2, <1>3, <1>4, <1>5, <1>6, <1>7, <1>8, <1>9, <1>10, <1>11, <1>12
  DEF Next, gnss_event_handler, WorkQueueThread, handle_gps_timed_out_fn,
      handle_restart_gps_fn

-----------------------------------------------------------------------------
(* The reports. *)

LEMMA OrderStep ==
    TypeOK /\ QueueInv /\ OrderInv /\ TypeOK' /\ [Next]_gpsVars => OrderInv'
<1> SUFFICES ASSUME TypeOK, QueueInv, OrderInv, TypeOK', [Next]_gpsVars
             PROVE  OrderInv'
  OBVIOUS
<1>t. /\ pvt_frame \in Nat /\ pvt_frame' \in Nat /\ pvt_frame <= fixes /\ fixes \in Nat
      /\ built \in [position : Nat, time : Nat] /\ built' \in [position : Nat, time : Nat]
      /\ reported \in [position : Nat, time : Nat]
      /\ gps_work_queue \in Seq(WorkItem)
  BY MaxFixesAssumption DEF TypeOK, Packet, MaxFixesAssumption
\* Of the queue, only what it holds of PvtData matters.
<1>q. ASSUME at' = at, built' = built, reported' = reported, pvt_frame <= pvt_frame',
             \A i \in 1 .. Len(gps_work_queue') :
                 gps_work_queue'[i] = PvtData =>
                     \/ 1 <= pvt_frame'
                     \/ \E k \in 1 .. Len(gps_work_queue) : gps_work_queue[k] = PvtData
      PROVE  OrderInv'
  <2>1. (\E k \in 1 .. Len(gps_work_queue) : gps_work_queue[k] = PvtData) => 1 <= pvt_frame'
    BY <1>q, <1>t DEF OrderInv
  <2> QED
    BY <1>q, <1>t, <2>1 DEF OrderInv
<1>1. CASE PeriodicWakeup \/ SleepAfterTimeout \/ Tick \/ UNCHANGED gpsVars
  BY <1>1, <1>q, <1>t
  DEF PeriodicWakeup, SleepAfterTimeout, Tick, gpsVars, workVars, fixVars, reportVars
<1>2. CASE SleepAfterFix
  <2>1. \A i \in 1 .. Len(gps_work_queue') :
            \E k \in 1 .. Len(gps_work_queue) : gps_work_queue'[i] = gps_work_queue[k]
    <3>1. gps_work_queue' = Without(gps_work_queue, Timeout)
      BY <1>2 DEF SleepAfterFix, Timeout
    <3>2. \A i, j \in 1 .. Len(gps_work_queue) :
              gps_work_queue[i] = gps_work_queue[j] => i = j
      BY DEF QueueInv
    <3>t. gps_work_queue \in Seq(WorkItem)
      BY <1>t
    <3>3. \A i \in 1 .. Len(Without(gps_work_queue, Timeout)) :
              /\ Without(gps_work_queue, Timeout)[i] # Timeout
              /\ \E k \in 1 .. Len(gps_work_queue) :
                     Without(gps_work_queue, Timeout)[i] = gps_work_queue[k]
      BY ONLY <3>2, <3>t, WithoutTimeout
    <3> QED
      BY <3>1, <3>3
  <2>2. at' = at /\ UNCHANGED <<fixVars, reportVars>>
    BY <1>2 DEF SleepAfterFix
  <2> QED
    BY <2>1, <2>2, <1>q, <1>t DEF fixVars, reportVars
<1>3. ASSUME NEW valid \in BOOLEAN, Pvt(valid)
      PROVE  OrderInv'
  <2>1. at' = at /\ UNCHANGED reportVars
    BY <1>3 DEF Pvt
  <2>2. pvt_frame <= pvt_frame' /\ (valid => 1 <= pvt_frame')
    BY <1>3, <1>t DEF Pvt, fixVars
  <2>3. ~valid => gps_work_queue' = gps_work_queue
    BY <1>3 DEF Pvt
  <2> QED
    BY <2>1, <2>2, <2>3, <1>q DEF reportVars
<1>4. CASE StartHandler
  <2>1. /\ Len(gps_work_queue) \in Nat \ {0}
        /\ Len(gps_work_queue') = Len(gps_work_queue) - 1
        /\ \A i \in 1 .. Len(gps_work_queue') : gps_work_queue'[i] = gps_work_queue[i + 1]
        /\ Head(gps_work_queue) = gps_work_queue[1]
        /\ Head(gps_work_queue) \in WorkItem
    BY <1>4, <1>t DEF StartHandler
  <2>2. at' \in {"stop", "start", "check"} /\ (at' = "check" => Head(gps_work_queue) = PvtData)
    BY <1>4, <2>1, Handlers DEF StartHandler
  <2>3. UNCHANGED <<pvt_frame, built, reported>>
    BY <1>4 DEF StartHandler, fixVars, reportVars
  <2> QED
    BY <2>1, <2>2, <2>3 DEF OrderInv
<1>5. CASE \/ HandlerReturns \/ handle_gps_timed_out_fn \/ handle_restart_gps_fn
           \/ ReportRejected \/ SubmitReport
  <2>1. /\ UNCHANGED <<gps_work_queue, pvt_frame, built, reported>>
        /\ at' \in {"idle", "schedule_restart", "return"}
    BY <1>5
    DEF HandlerReturns, handle_gps_timed_out_fn, handle_restart_gps_fn, GnssStop,
        ScheduleRestart, GnssStart, GnssStartFails, ReportRejected, SubmitReport,
        workVars, fixVars, reportVars
  <2> QED
    BY <2>1 DEF OrderInv
<1>6. CASE CheckRate \/ GetInfo
  <2>1. /\ UNCHANGED <<gps_work_queue, pvt_frame, built, reported>>
        /\ at \in {"check", "info"} /\ at' \in {"info", "position", "return"}
    BY <1>6 DEF CheckRate, GetInfo, workVars, fixVars, reportVars
  <2> QED
    BY <2>1 DEF OrderInv
<1>7. CASE ReadPosition
  <2>1. /\ UNCHANGED <<gps_work_queue, pvt_frame, reported>>
        /\ at = "position" /\ at' = "time"
        /\ built'.position = pvt_frame
    BY <1>7, <1>t DEF ReadPosition, workVars, fixVars
  <2> QED
    BY <2>1, <1>t DEF OrderInv
<1>8. CASE ReadTime
  <2>1. /\ UNCHANGED <<gps_work_queue, pvt_frame, reported>>
        /\ at = "time" /\ at' = "put"
        /\ built'.position = built.position
        /\ built'.time = pvt_frame
    BY <1>8, <1>t DEF ReadTime, workVars, fixVars
  <2> QED
    BY <2>1, <1>t DEF OrderInv
<1>9. CASE PutReport
  <2>1. /\ UNCHANGED <<gps_work_queue, pvt_frame>>
        /\ at = "put" /\ at' = "submit"
        /\ reported' = built
    BY <1>9 DEF PutReport, workVars, fixVars
  <2> QED
    BY <2>1, <1>t DEF OrderInv
<1>10. ASSUME NEW item \in Delayable, TimerExpires(item)
       PROVE  OrderInv'
  <2>1. item \in WorkItem /\ item # PvtData
    BY Delays, Handlers
  <2>2. \A i \in 1 .. Len(gps_work_queue') :
            \/ gps_work_queue'[i] = item
            \/ \E k \in 1 .. Len(gps_work_queue) : gps_work_queue'[i] = gps_work_queue[k]
    BY <1>10, <2>1, <1>t DEF TimerExpires, Enqueued
  <2>3. at' = at /\ UNCHANGED <<fixVars, reportVars>>
    BY <1>10 DEF TimerExpires
  <2> QED
    BY <2>1, <2>2, <2>3, <1>q, <1>t DEF fixVars, reportVars
<1> QED
  BY <1>1, <1>2, <1>3, <1>4, <1>5, <1>6, <1>7, <1>8, <1>9, <1>10
  DEF Next, gnss_event_handler, WorkQueueThread, pvt_data_handler_fn

-----------------------------------------------------------------------------
(* The theorems. *)

IInv == TypeOK /\ QueueInv /\ RunInv /\ GnssInv /\ OrderInv

LEMMA InvInit == gps_init => IInv
<1> SUFFICES ASSUME gps_init
             PROVE  IInv
  OBVIOUS
<1>1. TypeOK
  BY TypeInit
<1>2. \A item \in WorkItem : work[item] = {}
  BY DEF gps_init
<1>3. QueueInv /\ RunInv
  BY <1>2 DEF gps_init, QueueInv, RunInv
<1>4. GnssInv
  BY <1>2, Handlers DEF gps_init, GnssInv, RestartPending, SearchIsWatched
<1>5. OrderInv
  BY DEF gps_init, OrderInv
<1> QED
  BY <1>1, <1>3, <1>4, <1>5 DEF IInv

LEMMA InvStep == IInv /\ [Next]_gpsVars => IInv'
  BY TypeStep, QueueStep, RunStep, GnssStep, OrderStep DEF IInv

LEMMA Invariance == Spec => []IInv
  BY InvInit, InvStep, PTL DEF Spec

\* The state stays within its types: the counters within their bounds, a delay
\* never longer than it was set to, the queue made of the three items.
THEOREM TypeCorrect == Spec => []TypeOK
<1>1. IInv => TypeOK
  BY DEF IInv
<1> QED
  BY Invariance, <1>1, PTL

\* A GNSS that the timeout has stopped is never forgotten: its restart is to come,
\* and is not done while it runs (gps.cpp, handle_gps_timed_out_fn and
\* handle_restart_gps_fn).
THEOREM StopIsRestarted == Spec => []RestartPending
<1>1. IInv => RestartPending
  BY DEF IInv, GnssInv
<1> QED
  BY Invariance, <1>1, PTL

\* A search that was heard of has its timeout running, due or being handled,
\* whatever schedule, cancellation and handler come between each other (gps.cpp,
\* gnss_event_handler and handle_pvt_event).
THEOREM SearchHasTimeout == Spec => []SearchIsWatched
<1>1. IInv => SearchIsWatched
  BY DEF IInv, GnssInv
<1> QED
  BY Invariance, <1>1, PTL

\* Packets carry what fixes wrote, in the order of the fixes, although the frame
\* is overwritten while a packet is built (gps.cpp, pvt_data_handler_fn).
THEOREM PacketsInOrder == Spec => []ReportsInOrder
<1>1. IInv => ReportsInOrder
  BY DEF IInv, OrderInv, ReportsInOrder
<1> QED
  BY Invariance, <1>1, PTL

-----------------------------------------------------------------------------
(***************************************************************************)
(* The two delays: a stop lasts its delay (NoEarlyRestart), and where the  *)
(* timeout is no longer than the restart delay a search has its timeout    *)
(* (NoPrematureStop).                                                      *)
(*                                                                         *)
(* What a running delay has left and what the search or the stop has       *)
(* lasted add up to at least the whole delay.  The timeout of a search     *)
(* that was stopped may still be running or queued during the stop: it is  *)
(* over, and handled, before the restart, so that it cannot end the next   *)
(* search.                                                                 *)
(***************************************************************************)

\* While the restart is to come, the stop has lasted what is not left of it.
RestartDelayInv ==
    /\ "delayed" \in work[Restart] => waited + left[Restart] >= GPS_RESTART_DELAY
    /\ "queued" \in work[Restart] => waited >= GPS_RESTART_DELAY
    /\ at = "start" => waited >= GPS_RESTART_DELAY

\* The handler of the timeout has its flag set, and a queued timeout is in the
\* queue.
TimeoutRunInv ==
    /\ at \in {"stop", "schedule_restart"} => "running" \in work[Timeout]
    /\ "queued" \in work[Timeout] =>
           \E i \in 1 .. Len(gps_work_queue) : gps_work_queue[i] = Timeout

\* The same of the timeout and the search; only a cancelled handler is early.
TimeoutDelayInv ==
    /\ gnss # "stopped" =>
           /\ "delayed" \in work[Timeout] => waited + left[Timeout] >= GPS_TIMEOUT
           /\ "queued" \in work[Timeout] => waited >= GPS_TIMEOUT
           /\ at = "stop" => waited >= GPS_TIMEOUT \/ "canceling" \in work[Timeout]
    /\ gnss = "asleep" =>
           /\ {"delayed", "queued"} \cap work[Timeout] = {}
           /\ at = "stop" => "canceling" \in work[Timeout]

\* A timeout left over from a stopped search comes before the restart: its delay
\* is over first, and it is first in the queue.
TimeoutFirstInv ==
    /\ "delayed" \in work[Timeout] /\ "delayed" \in work[Restart]
           => left[Timeout] <= left[Restart]
    /\ "queued" \in work[Restart] => "delayed" \notin work[Timeout]
    /\ \A i, j \in 1 .. Len(gps_work_queue) :
           gps_work_queue[i] = Restart /\ gps_work_queue[j] = Timeout => j < i
    /\ at = "start" => {"delayed", "queued"} \cap work[Timeout] = {}

-----------------------------------------------------------------------------
(* What the steps do to the two items. *)

LEMMA DelayTypes ==
    ASSUME TypeOK
    PROVE  /\ Timeout \in WorkItem /\ Restart \in WorkItem /\ PvtData \in WorkItem
           /\ Timeout # Restart /\ Timeout # PvtData /\ Restart # PvtData
           /\ work \in [WorkItem -> SUBSET Flags]
           /\ left \in [Delayable -> Nat]
           /\ left[Timeout] \in Nat /\ left[Timeout] <= GPS_TIMEOUT
           /\ left[Restart] \in Nat /\ left[Restart] <= GPS_RESTART_DELAY
           /\ waited \in Nat /\ waited <= LongestDelay
           /\ gps_work_queue \in Seq(WorkItem) /\ Len(gps_work_queue) \in Nat
           /\ GPS_TIMEOUT \in Nat /\ GPS_RESTART_DELAY \in Nat /\ LongestDelay \in Nat
           /\ GPS_TIMEOUT <= LongestDelay /\ GPS_RESTART_DELAY <= LongestDelay
<1>1. /\ Timeout \in Delayable /\ Restart \in Delayable
      /\ GPS_TIMEOUT \in Nat /\ GPS_RESTART_DELAY \in Nat /\ LongestDelay \in Nat
  BY Delays
<1>2. left[Timeout] \in Nat /\ left[Timeout] <= GPS_TIMEOUT
  BY <1>1, Delays DEF TypeOK
<1>3. left[Restart] \in Nat /\ left[Restart] <= GPS_RESTART_DELAY
  BY <1>1, Delays DEF TypeOK
<1>4. waited \in Nat /\ waited <= LongestDelay
  BY <1>1 DEF TypeOK
<1>5. GPS_TIMEOUT <= LongestDelay /\ GPS_RESTART_DELAY <= LongestDelay
  BY <1>1 DEF LongestDelay
<1> QED
  BY <1>1, <1>2, <1>3, <1>4, <1>5, Handlers DEF TypeOK

\* An event comes while the GNSS is not stopped, leaves the thread and the
\* restart alone, and cancels the timeout, starts it or leaves it.
LEMMA Events ==
    ASSUME TypeOK, gnss_event_handler
    PROVE  /\ gnss # "stopped" /\ gnss' # "stopped" /\ at' = at
           /\ work'[Restart] = work[Restart] /\ left'[Restart] = left[Restart]
           /\ \/ /\ gnss' = "asleep"
                 /\ work'[Timeout] = Cancel(work[Timeout])
                 /\ gps_work_queue' = Without(gps_work_queue, Timeout)
              \/ /\ gnss' # "asleep"
                 /\ \/ work'[Timeout] = work[Timeout] /\ left'[Timeout] = left[Timeout]
                    \/ /\ work[Timeout] \subseteq {"running"}
                       /\ work'[Timeout] = work[Timeout] \cup {"delayed"}
                       /\ left'[Timeout] = GPS_TIMEOUT
                 /\ waited' = waited \/ (gnss = "asleep" /\ waited' = 0)
                 /\ gps_work_queue' \in {gps_work_queue, Append(gps_work_queue, PvtData)}
<1>w. /\ Timeout \in WorkItem /\ Restart \in WorkItem
      /\ Timeout # Restart /\ Timeout # PvtData /\ Restart # PvtData
      /\ Timeout \in Delayable /\ Restart \in Delayable
      /\ work \in [WorkItem -> SUBSET Flags]
      /\ left \in [Delayable -> Nat]
      /\ Delay[Timeout] = GPS_TIMEOUT
  BY DelayTypes, Delays
<1>1. CASE PeriodicWakeup
  <2>1. /\ work'[Restart] = work[Restart] /\ left'[Restart] = left[Restart]
        /\ work'[Timeout] = Schedule(work[Timeout])
        /\ left'[Timeout] = IF CanSchedule(work[Timeout]) THEN GPS_TIMEOUT ELSE left[Timeout]
    BY <1>1, <1>w DEF PeriodicWakeup, Scheduled, Timeout
  <2> QED
    BY <1>1, <2>1 DEF PeriodicWakeup, Schedule, CanSchedule
<1>2. CASE SleepAfterFix
  <2>1. /\ work'[Restart] = work[Restart] /\ left'[Restart] = left[Restart]
        /\ work'[Timeout] = Cancel(work[Timeout])
    BY <1>2, <1>w DEF SleepAfterFix, Timeout
  <2> QED
    BY <1>2, <2>1 DEF SleepAfterFix, Timeout
<1>3. CASE SleepAfterTimeout
  BY <1>3 DEF SleepAfterTimeout, workVars
<1>4. ASSUME NEW valid \in BOOLEAN, Pvt(valid)
      PROVE  /\ gnss # "stopped" /\ gnss' \notin {"stopped", "asleep"} /\ at' = at
             /\ work'[Restart] = work[Restart] /\ left'[Restart] = left[Restart]
             /\ \/ work'[Timeout] = work[Timeout] /\ left'[Timeout] = left[Timeout]
                \/ /\ work[Timeout] \subseteq {"running"}
                   /\ work'[Timeout] = work[Timeout] \cup {"delayed"}
                   /\ left'[Timeout] = GPS_TIMEOUT
             /\ waited' = waited
             /\ gps_work_queue' \in {gps_work_queue, Append(gps_work_queue, PvtData)}
  <2>1. /\ work'[Restart] = work[Restart] /\ left'[Restart] = left[Restart]
        /\ work'[Timeout] = IF IsPending(work[Timeout]) THEN work[Timeout]
                            ELSE Schedule(work[Timeout])
        /\ left'[Timeout] = IF IsPending(work[Timeout]) THEN left[Timeout] ELSE GPS_TIMEOUT
    BY <1>4, <1>w DEF Pvt, Timeout, Restart, PvtData
  <2>2. \/ work'[Timeout] = work[Timeout] /\ left'[Timeout] = left[Timeout]
        \/ /\ work[Timeout] \subseteq {"running"}
           /\ work'[Timeout] = work[Timeout] \cup {"delayed"}
           /\ left'[Timeout] = GPS_TIMEOUT
    BY <2>1 DEF IsPending, Schedule, CanSchedule
  <2>3. gps_work_queue' \in {gps_work_queue, Append(gps_work_queue, PvtData)}
    BY <1>4 DEF Pvt, PvtData
  <2>4. gnss # "stopped" /\ gnss' \notin {"stopped", "asleep"} /\ at' = at /\ waited' = waited
    BY <1>4 DEF Pvt, Searching
  <2> QED
    BY <2>1, <2>2, <2>3, <2>4
<1> QED
  BY <1>1, <1>2, <1>3, <1>4 DEF gnss_event_handler

\* The steps of the report, and stutters, touch nothing the delays depend on.
LEMMA ReportSteps ==
    ASSUME pvt_data_handler_fn \/ UNCHANGED gpsVars
    PROVE  /\ UNCHANGED <<gnss, work, left, gps_work_queue, waited>>
           /\ at' = at \/ at' \notin {"start", "stop", "schedule_restart"}
BY DEF pvt_data_handler_fn, CheckRate, GetInfo, ReadPosition, ReadTime, PutReport,
       ReportRejected, SubmitReport, gpsVars, modemVars, workVars

\* The thread takes the first item, whose flag was set.
LEMMA Started ==
    ASSUME TypeOK, QueueInv, StartHandler
    PROVE  LET head == Head(gps_work_queue) IN
           /\ head \in WorkItem /\ head = gps_work_queue[1] /\ Len(gps_work_queue) > 0
           /\ "queued" \in work[head]
           /\ \A item \in WorkItem \ {head} : work'[item] = work[item]
           /\ work'[head] = (work[head] \ {"queued"}) \cup {"running"}
           /\ at = "idle" /\ at' = FirstStep[head]
           /\ gps_work_queue' = Tail(gps_work_queue)
           /\ UNCHANGED <<gnss, left, waited>>
<1>1. Head(gps_work_queue) \in WorkItem /\ Head(gps_work_queue) = gps_work_queue[1]
      /\ Len(gps_work_queue) > 0
  BY DEF TypeOK, StartHandler
<1>2. "queued" \in work[Head(gps_work_queue)]
  BY <1>1 DEF TypeOK, QueueInv
<1> QED
  BY <1>1, <1>2 DEF StartHandler, TypeOK, Run, modemVars

LEMMA Expired ==
    ASSUME TypeOK, NEW item \in Delayable, TimerExpires(item)
    PROVE  /\ item \in {Timeout, Restart}
           /\ "delayed" \in work[item] /\ left[item] = 0
           /\ item = Restart => ~("delayed" \in work[Timeout] /\ left[Timeout] = 0)
           /\ \A other \in WorkItem \ {item} : work'[other] = work[other]
           /\ work'[item] = IF "canceling" \in work[item] THEN work[item] \ {"delayed"}
                            ELSE (work[item] \ {"delayed"}) \cup {"queued"}
           /\ gps_work_queue' = IF "queued" \in work'[item] \ work[item]
                                THEN Append(gps_work_queue, item) ELSE gps_work_queue
           /\ UNCHANGED <<gnss, at, left, waited>>
<1>1. item \in WorkItem /\ item \in {Timeout, Restart}
  BY Delays DEF Delayable
<1>2. /\ "delayed" \in work[item] /\ left[item] = 0
      /\ item = Restart => ~("delayed" \in work[Timeout] /\ left[Timeout] = 0)
  BY DEF TimerExpires, Due, Timeout, Restart
<1>3. /\ \A other \in WorkItem \ {item} : work'[other] = work[other]
      /\ work'[item] = Expire(work[item])
      /\ gps_work_queue' = IF "queued" \in work'[item] \ work[item]
                           THEN Append(gps_work_queue, item) ELSE gps_work_queue
  BY <1>1 DEF TimerExpires, Enqueued, TypeOK
<1>4. Expire(work[item]) = IF "canceling" \in work[item] THEN work[item] \ {"delayed"}
                           ELSE (work[item] \ {"delayed"}) \cup {"queued"}
  BY DEF Expire, Submit
<1> QED
  BY <1>1, <1>2, <1>3, <1>4 DEF TimerExpires, modemVars

LEMMA Ticked ==
    ASSUME TypeOK, Tick
    PROVE  /\ \A item \in {Timeout, Restart} :
                  left'[item] = IF "delayed" \in work[item] THEN left[item] - 1 ELSE left[item]
           /\ \A item \in {Timeout, Restart} : "delayed" \in work[item] => left[item] > 0
           /\ waited' = IF waited < LongestDelay THEN waited + 1 ELSE LongestDelay
           /\ UNCHANGED <<gnss, work, at, gps_work_queue>>
<1>1. Delayable = {Timeout, Restart}
  BY Delays
<1>2. \A item \in Delayable : "delayed" \in work[item] => left[item] # 0
  BY DEF Tick, Due
<1>3. left[Timeout] \in Nat /\ left[Restart] \in Nat
  BY DelayTypes
<1> QED
  BY <1>1, <1>2, <1>3 DEF Tick, Capped, modemVars

\* The handlers of the timeout and of the restart.
LEMMA Handled ==
    ASSUME TypeOK, handle_gps_timed_out_fn \/ handle_restart_gps_fn
    PROVE  \/ /\ at = "stop" /\ at' = "schedule_restart" /\ gnss' = "stopped"
              /\ waited' = IF gnss = "stopped" THEN waited ELSE 0
              /\ UNCHANGED <<work, left, gps_work_queue>>
           \/ /\ at = "schedule_restart" /\ at' = "return"
              /\ work'[Timeout] = work[Timeout] /\ left'[Timeout] = left[Timeout]
              /\ work'[Restart] = Schedule(work[Restart])
              /\ left'[Restart] = IF CanSchedule(work[Restart]) THEN GPS_RESTART_DELAY
                                  ELSE left[Restart]
              /\ UNCHANGED <<gnss, gps_work_queue, waited>>
           \/ /\ at = "start" /\ at' = "return" /\ gnss' \in {"searching", "failed"}
              /\ waited' = 0 \/ waited' = waited
              /\ UNCHANGED <<work, left, gps_work_queue>>
<1>1. CASE GnssStop
  BY <1>1 DEF GnssStop, workVars
<1>2. CASE ScheduleRestart
  <2>1. /\ Restart \in WorkItem /\ Restart \in Delayable /\ Timeout # Restart
        /\ Timeout \in WorkItem /\ Timeout \in Delayable
        /\ Delay[Restart] = GPS_RESTART_DELAY
        /\ work \in [WorkItem -> SUBSET Flags] /\ left \in [Delayable -> Nat]
    BY DelayTypes, Delays
  <2>2. /\ work' = [work EXCEPT ![Restart] = Schedule(@)]
        /\ left' = [left EXCEPT ![Restart] = IF CanSchedule(work[Restart]) THEN Delay[Restart]
                                             ELSE @]
    BY <1>2 DEF ScheduleRestart, Scheduled, Restart
  <2> QED
    BY <1>2, <2>1, <2>2 DEF ScheduleRestart, modemVars
<1>3. CASE GnssStart \/ GnssStartFails
  BY <1>3 DEF GnssStart, GnssStartFails, workVars
<1> QED
  BY <1>1, <1>2, <1>3 DEF handle_gps_timed_out_fn, handle_restart_gps_fn

LEMMA Returned ==
    ASSUME TypeOK, HandlerReturns
    PROVE  /\ \A item \in WorkItem : work'[item] = work[item] \ {"running", "canceling"}
           /\ at = "return" /\ at' = "idle"
           /\ UNCHANGED <<gnss, left, gps_work_queue, waited>>
BY DEF HandlerReturns, Return, modemVars

-----------------------------------------------------------------------------
(* A stop lasts its delay. *)

\* The steps of Next, as the lemmas above name them.
LEMMA StepCases ==
    ASSUME [Next]_gpsVars
    PROVE  \/ gnss_event_handler
           \/ StartHandler
           \/ HandlerReturns
           \/ handle_gps_timed_out_fn \/ handle_restart_gps_fn
           \/ pvt_data_handler_fn \/ UNCHANGED gpsVars
           \/ \E item \in Delayable : TimerExpires(item)
           \/ Tick
BY DEF Next, WorkQueueThread

\* What the invariant of GpsProofs says of the restart and of the thread.
LEMMA RestartFacts ==
    ASSUME IInv
    PROVE  /\ TypeOK /\ QueueInv
           /\ gnss # "stopped" => {"delayed", "queued"} \cap work[Restart] = {}
           /\ gnss # "stopped" => at # "start"
           /\ at = "start" => /\ gnss = "stopped"
                              /\ {"delayed", "queued"} \cap work[Restart] = {}
           /\ at = "schedule_restart" => gnss = "stopped"
           /\ ~({"delayed", "queued"} \subseteq work[Restart])
           /\ "canceling" \notin work[Restart]
           /\ "running" \in work[Timeout] => at \in {"stop", "schedule_restart", "return"}
           /\ "canceling" \in work[Timeout] => "running" \in work[Timeout]
           /\ "running" \in work[Restart] => at \in {"start", "return"}
           /\ gnss = "stopped" => IsPending(work[Restart]) \/ at = "schedule_restart"
<1>1. TypeOK /\ QueueInv /\ RunInv /\ GnssInv
  BY DEF IInv
<1>2. /\ "canceling" \notin work[Restart]
      /\ "canceling" \in work[Timeout] => "running" \in work[Timeout]
      /\ "running" \in work[Timeout] => at \in {"stop", "schedule_restart", "return"}
      /\ "running" \in work[Restart] => at \in {"start", "return"}
  BY <1>1, Handlers DEF RunInv
<1>3. gnss = "stopped" => IsPending(work[Restart]) \/ at = "schedule_restart"
  BY <1>1 DEF GnssInv, RestartPending, Restart
<1> QED
  BY <1>1, <1>2, <1>3 DEF GnssInv

LEMMA RestartDelayStep == IInv /\ RestartDelayInv /\ [Next]_gpsVars => RestartDelayInv'
<1> SUFFICES ASSUME IInv, RestartDelayInv, [Next]_gpsVars
             PROVE  RestartDelayInv'
  OBVIOUS
<1>t. TypeOK /\ QueueInv
  BY RestartFacts
<1>1. CASE gnss_event_handler
  <2>1. work'[Restart] = work[Restart] /\ at' = at /\ gnss # "stopped"
    BY <1>1, <1>t, Events
  <2> QED
    BY <2>1, RestartFacts DEF RestartDelayInv
<1>2. CASE StartHandler
  <2> DEFINE head == Head(gps_work_queue)
  <2>1. /\ head \in WorkItem
        /\ "queued" \in work[head]
        /\ \A item \in WorkItem \ {head} : work'[item] = work[item]
        /\ work'[head] = (work[head] \ {"queued"}) \cup {"running"}
        /\ at' = FirstStep[head]
        /\ UNCHANGED <<gnss, left, waited>>
    BY <1>2, <1>t, Started
  <2> HIDE DEF head
  <2>2. CASE head = Restart
    BY <2>1, <2>2, RestartFacts DEF RestartDelayInv
  <2>3. CASE head # Restart
    <3>1. work'[Restart] = work[Restart] /\ at' # "start"
      BY <2>1, <2>3, Handlers
    <3> QED
      BY <3>1, <2>1 DEF RestartDelayInv
  <2> QED
    BY <2>2, <2>3
<1>3. CASE HandlerReturns
  BY <1>3, <1>t, Returned, DelayTypes DEF RestartDelayInv
<1>4. CASE handle_gps_timed_out_fn \/ handle_restart_gps_fn
  <2>1. CASE at = "stop" /\ at' = "schedule_restart"
    <3>1. UNCHANGED <<work, left>> /\ waited' = IF gnss = "stopped" THEN waited ELSE 0
      BY <1>4, <1>t, <2>1, Handled
    <3> QED
      BY <2>1, <3>1, RestartFacts DEF RestartDelayInv
  <2>2. CASE at = "schedule_restart" /\ at' = "return"
    <3>1. /\ work'[Restart] = Schedule(work[Restart])
          /\ left'[Restart] = IF CanSchedule(work[Restart]) THEN GPS_RESTART_DELAY
                              ELSE left[Restart]
          /\ waited' = waited
      BY <1>4, <1>t, <2>2, Handled
    <3>2. GPS_RESTART_DELAY \in Nat /\ waited \in Nat
      BY <1>t, DelayTypes
    <3> QED
      BY <2>2, <3>1, <3>2 DEF RestartDelayInv, Schedule, CanSchedule
  <2>3. CASE at = "start" /\ at' = "return"
    <3>1. UNCHANGED work
      BY <1>4, <1>t, <2>3, Handled
    <3> QED
      BY <2>3, <3>1, RestartFacts DEF RestartDelayInv
  <2> QED
    BY <1>4, <1>t, <2>1, <2>2, <2>3, Handled
<1>5. CASE pvt_data_handler_fn \/ UNCHANGED gpsVars
  BY <1>5, ReportSteps DEF RestartDelayInv
<1>6. ASSUME NEW item \in Delayable, TimerExpires(item)
      PROVE  RestartDelayInv'
  <2>1. /\ item \in {Timeout, Restart}
        /\ "delayed" \in work[item] /\ left[item] = 0
        /\ \A other \in WorkItem \ {item} : work'[other] = work[other]
        /\ work'[item] = IF "canceling" \in work[item] THEN work[item] \ {"delayed"}
                         ELSE (work[item] \ {"delayed"}) \cup {"queued"}
        /\ UNCHANGED <<at, left, waited>>
    BY <1>6, <1>t, Expired
  <2>2. waited \in Nat /\ Restart \in WorkItem /\ Timeout # Restart
    BY <1>t, DelayTypes
  <2>3. CASE item = Restart
    BY <2>1, <2>2, <2>3 DEF RestartDelayInv
  <2>4. CASE item = Timeout
    BY <2>1, <2>2, <2>4 DEF RestartDelayInv
  <2> QED
    BY <2>1, <2>3, <2>4
<1>7. CASE Tick
  <2>1. /\ left'[Restart] = IF "delayed" \in work[Restart] THEN left[Restart] - 1
                            ELSE left[Restart]
        /\ "delayed" \in work[Restart] => left[Restart] > 0
        /\ waited' = IF waited < LongestDelay THEN waited + 1 ELSE LongestDelay
        /\ UNCHANGED <<work, at>>
    BY <1>7, <1>t, Ticked
  <2>2. /\ waited \in Nat /\ waited <= LongestDelay /\ left[Restart] \in Nat
        /\ GPS_RESTART_DELAY \in Nat /\ LongestDelay \in Nat
        /\ GPS_RESTART_DELAY <= LongestDelay
    BY <1>t, DelayTypes
  <2> QED
    BY <2>1, <2>2 DEF RestartDelayInv
<1> QED
  BY <1>1, <1>2, <1>3, <1>4, <1>5, <1>6, <1>7, StepCases

-----------------------------------------------------------------------------
(* A timeout that is queued is in the queue. *)

LEMMA TimeoutRunStep == IInv /\ TimeoutRunInv /\ [Next]_gpsVars => TimeoutRunInv'
<1> SUFFICES ASSUME IInv, TimeoutRunInv, [Next]_gpsVars
             PROVE  TimeoutRunInv'
  OBVIOUS
<1>t. TypeOK /\ QueueInv
  BY RestartFacts
<1>w. /\ Timeout \in WorkItem /\ Restart \in WorkItem /\ PvtData \in WorkItem
      /\ gps_work_queue \in Seq(WorkItem)
  BY <1>t, DelayTypes
<1>a. ASSUME NEW item \in WorkItem,
             gps_work_queue' \in {gps_work_queue, Append(gps_work_queue, item)},
             \E i \in 1 .. Len(gps_work_queue) : gps_work_queue[i] = Timeout
      PROVE  \E i \in 1 .. Len(gps_work_queue') : gps_work_queue'[i] = Timeout
  <2>1. CASE gps_work_queue' = gps_work_queue
    BY <1>a, <2>1
  <2>2. CASE gps_work_queue' = Append(gps_work_queue, item)
    <3> PICK i \in 1 .. Len(gps_work_queue) : gps_work_queue[i] = Timeout
      BY <1>a
    <3>1. /\ i \in 1 .. Len(Append(gps_work_queue, item))
          /\ Append(gps_work_queue, item)[i] = Timeout
      BY <1>w
    <3> QED
      BY <2>2, <3>1
  <2> QED
    BY <1>a, <2>1, <2>2
<1>1. CASE gnss_event_handler
  <2>1. CASE gnss' = "asleep"
    <3>1. at' = at /\ work'[Timeout] = Cancel(work[Timeout])
      BY <1>1, <1>t, <2>1, Events
    <3> QED
      BY <3>1 DEF TimeoutRunInv, Cancel
  <2>2. CASE gnss' # "asleep"
    <3>1. /\ at' = at
          /\ \/ work'[Timeout] = work[Timeout]
             \/ work'[Timeout] = work[Timeout] \cup {"delayed"}
          /\ gps_work_queue' \in {gps_work_queue, Append(gps_work_queue, PvtData)}
      BY <1>1, <1>t, <2>2, Events
    <3> QED
      BY <1>w, <1>a, <3>1 DEF TimeoutRunInv
  <2> QED
    BY <2>1, <2>2
<1>2. CASE StartHandler
  <2> DEFINE head == Head(gps_work_queue)
  <2>1. /\ head \in WorkItem /\ head = gps_work_queue[1] /\ Len(gps_work_queue) > 0
        /\ \A item \in WorkItem \ {head} : work'[item] = work[item]
        /\ work'[head] = (work[head] \ {"queued"}) \cup {"running"}
        /\ at' = FirstStep[head]
        /\ gps_work_queue' = Tail(gps_work_queue)
    BY <1>2, <1>t, Started
  <2> HIDE DEF head
  <2>2. CASE head = Timeout
    BY <2>1, <2>2 DEF TimeoutRunInv
  <2>3. CASE head # Timeout
    <3>1. work'[Timeout] = work[Timeout] /\ at' \notin {"stop", "schedule_restart"}
      BY <1>w, <2>1, <2>3, Handlers
    <3>2. ASSUME NEW i \in 1 .. Len(gps_work_queue), gps_work_queue[i] = Timeout
          PROVE  \E j \in 1 .. Len(gps_work_queue') : gps_work_queue'[j] = Timeout
      <4>1. i - 1 \in 1 .. Len(Tail(gps_work_queue)) /\ Tail(gps_work_queue)[i - 1] = Timeout
        BY <1>w, <2>1, <2>3, <3>2
      <4> QED
        BY <2>1, <4>1
    <3> QED
      BY <3>1, <3>2 DEF TimeoutRunInv
  <2> QED
    BY <2>2, <2>3
<1>3. CASE HandlerReturns
  BY <1>3, <1>t, <1>w, Returned DEF TimeoutRunInv
<1>4. CASE handle_gps_timed_out_fn \/ handle_restart_gps_fn
  <2>1. /\ work'[Timeout] = work[Timeout] /\ gps_work_queue' = gps_work_queue
        /\ at' \in {"stop", "schedule_restart"} => at \in {"stop", "schedule_restart"}
    BY <1>4, <1>t, Handled
  <2> QED
    BY <2>1 DEF TimeoutRunInv
<1>5. CASE pvt_data_handler_fn \/ UNCHANGED gpsVars
  <2>1. /\ UNCHANGED <<work, gps_work_queue>>
        /\ at' = at \/ at' \notin {"stop", "schedule_restart"}
    BY <1>5, ReportSteps
  <2> QED
    BY <2>1 DEF TimeoutRunInv
<1>6. ASSUME NEW item \in Delayable, TimerExpires(item)
      PROVE  TimeoutRunInv'
  <2>1. /\ item \in {Timeout, Restart}
        /\ \A other \in WorkItem \ {item} : work'[other] = work[other]
        /\ work'[item] = IF "canceling" \in work[item] THEN work[item] \ {"delayed"}
                         ELSE (work[item] \ {"delayed"}) \cup {"queued"}
        /\ gps_work_queue' = IF "queued" \in work'[item] \ work[item]
                             THEN Append(gps_work_queue, item) ELSE gps_work_queue
        /\ at' = at
    BY <1>6, <1>t, Expired
  <2>2. "running" \in work[Timeout] => "running" \in work'[Timeout]
    BY <1>w, <2>1
  <2>3. ASSUME "queued" \in work'[Timeout]
        PROVE  \E i \in 1 .. Len(gps_work_queue') : gps_work_queue'[i] = Timeout
    <3>1. CASE "queued" \in work[Timeout]
      BY <1>w, <1>a, <2>1, <3>1 DEF TimeoutRunInv
    <3>2. CASE "queued" \notin work[Timeout]
      <4>1. item = Timeout /\ gps_work_queue' = Append(gps_work_queue, Timeout)
        BY <1>w, <2>1, <2>3, <3>2
      <4>2. /\ Len(gps_work_queue) + 1 \in 1 .. Len(gps_work_queue')
            /\ gps_work_queue'[Len(gps_work_queue) + 1] = Timeout
        BY <1>w, <4>1
      <4> QED
        BY <4>2
    <3> QED
      BY <3>1, <3>2
  <2> QED
    BY <2>1, <2>2, <2>3 DEF TimeoutRunInv
<1>7. CASE Tick
  BY <1>7, <1>t, Ticked DEF TimeoutRunInv
<1> QED
  BY <1>1, <1>2, <1>3, <1>4, <1>5, <1>6, <1>7, StepCases

-----------------------------------------------------------------------------
(* A timeout left over from a stopped search is over before the restart. *)

LEMMA TimeoutFirstStep ==
    ASSUME GPS_TIMEOUT <= GPS_RESTART_DELAY,
           IInv, TimeoutRunInv, TimeoutFirstInv, [Next]_gpsVars
    PROVE  TimeoutFirstInv'
<1>t. TypeOK /\ QueueInv /\ QueueInv'
  BY InvStep DEF IInv
<1>w. /\ Timeout \in WorkItem /\ Restart \in WorkItem /\ Timeout # Restart
      /\ gps_work_queue \in Seq(WorkItem) /\ Len(gps_work_queue) \in Nat
      /\ left[Timeout] \in Nat /\ left[Restart] \in Nat
  BY <1>t, DelayTypes
<1>1. CASE gnss_event_handler
  <2>1. work'[Restart] = work[Restart] /\ at' = at /\ gnss # "stopped"
    BY <1>1, <1>t, Events
  <2>2. {"delayed", "queued"} \cap work'[Restart] = {} /\ at' # "start"
    BY <2>1, RestartFacts
  <2>3. \A i \in 1 .. Len(gps_work_queue') : gps_work_queue'[i] # Restart
    BY <1>t, <2>2 DEF QueueInv
  <2> QED
    BY <2>2, <2>3 DEF TimeoutFirstInv
<1>2. CASE StartHandler
  <2> DEFINE head == Head(gps_work_queue)
  <2>1. /\ head \in WorkItem /\ head = gps_work_queue[1] /\ Len(gps_work_queue) > 0
        /\ "queued" \in work[head]
        /\ \A item \in WorkItem \ {head} : work'[item] = work[item]
        /\ work'[head] = (work[head] \ {"queued"}) \cup {"running"}
        /\ at' = FirstStep[head]
        /\ gps_work_queue' = Tail(gps_work_queue)
        /\ left' = left
    BY <1>2, <1>t, Started
  <2> HIDE DEF head
  <2>2. \A i, j \in 1 .. Len(gps_work_queue') :
            gps_work_queue'[i] = Restart /\ gps_work_queue'[j] = Timeout => j < i
    <3> SUFFICES ASSUME NEW i \in 1 .. Len(gps_work_queue'),
                        NEW j \in 1 .. Len(gps_work_queue'),
                        gps_work_queue'[i] = Restart, gps_work_queue'[j] = Timeout
                 PROVE  j < i
      OBVIOUS
    <3>1. /\ i + 1 \in 1 .. Len(gps_work_queue) /\ gps_work_queue[i + 1] = Restart
          /\ j + 1 \in 1 .. Len(gps_work_queue) /\ gps_work_queue[j + 1] = Timeout
      BY <1>w, <2>1
    <3>2. j + 1 < i + 1
      BY <3>1 DEF TimeoutFirstInv
    <3> QED
      BY <1>w, <2>1, <3>2
  <2>3. /\ "delayed" \in work'[Timeout] => "delayed" \in work[Timeout]
        /\ "delayed" \in work'[Restart] => "delayed" \in work[Restart]
        /\ "queued" \in work'[Timeout] => "queued" \in work[Timeout]
        /\ "queued" \in work'[Restart] => "queued" \in work[Restart]
    BY <1>w, <2>1
  <2>4. ASSUME at' = "start"
        PROVE  {"delayed", "queued"} \cap work[Timeout] = {}
    <3>1. head = Restart
      BY <2>1, <2>4, Handlers
    <3>2. "delayed" \notin work[Timeout]
      BY <2>1, <3>1 DEF TimeoutFirstInv
    <3>3. \A j \in 1 .. Len(gps_work_queue) : gps_work_queue[j] # Timeout
      <4> SUFFICES ASSUME NEW j \in 1 .. Len(gps_work_queue), gps_work_queue[j] = Timeout
                   PROVE  FALSE
        OBVIOUS
      <4>1. 1 \in 1 .. Len(gps_work_queue)
        BY <1>w, <2>1
      <4>2. j < 1
        BY <2>1, <3>1, <4>1 DEF TimeoutFirstInv
      <4> QED
        BY <4>2
    <3> QED
      BY <3>2, <3>3 DEF TimeoutRunInv
  <2> QED
    BY <2>1, <2>2, <2>3, <2>4 DEF TimeoutFirstInv
<1>3. CASE HandlerReturns
  BY <1>3, <1>t, <1>w, Returned DEF TimeoutFirstInv
<1>4. CASE handle_gps_timed_out_fn \/ handle_restart_gps_fn
  <2>1. CASE at = "schedule_restart" /\ at' = "return"
    <3>1. /\ work'[Timeout] = work[Timeout] /\ left'[Timeout] = left[Timeout]
          /\ work'[Restart] = Schedule(work[Restart])
          /\ left'[Restart] = IF CanSchedule(work[Restart]) THEN GPS_RESTART_DELAY
                              ELSE left[Restart]
          /\ gps_work_queue' = gps_work_queue
      BY <1>4, <1>t, <2>1, Handled
    <3>2. /\ left[Timeout] <= GPS_TIMEOUT /\ GPS_TIMEOUT \in Nat
          /\ GPS_RESTART_DELAY \in Nat
      BY <1>t, DelayTypes
    <3>3. left[Timeout] <= GPS_RESTART_DELAY
      BY <1>w, <3>2
    <3> QED
      BY <2>1, <3>1, <3>3 DEF TimeoutFirstInv, Schedule, CanSchedule
  <2>2. CASE at' # "start" /\ UNCHANGED <<work, left, gps_work_queue>>
    BY <2>2 DEF TimeoutFirstInv
  <2> QED
    BY <1>4, <1>t, <2>1, <2>2, Handled
<1>5. CASE pvt_data_handler_fn \/ UNCHANGED gpsVars
  <2>1. UNCHANGED <<work, left, gps_work_queue>> /\ (at' = at \/ at' # "start")
    BY <1>5, ReportSteps
  <2> QED
    BY <2>1 DEF TimeoutFirstInv
<1>6. ASSUME NEW item \in Delayable, TimerExpires(item)
      PROVE  TimeoutFirstInv'
  <2>1. /\ item \in {Timeout, Restart}
        /\ "delayed" \in work[item] /\ left[item] = 0
        /\ item = Restart => ~("delayed" \in work[Timeout] /\ left[Timeout] = 0)
        /\ \A other \in WorkItem \ {item} : work'[other] = work[other]
        /\ work'[item] = IF "canceling" \in work[item] THEN work[item] \ {"delayed"}
                         ELSE (work[item] \ {"delayed"}) \cup {"queued"}
        /\ gps_work_queue' = IF "queued" \in work'[item] \ work[item]
                             THEN Append(gps_work_queue, item) ELSE gps_work_queue
        /\ left' = left /\ at' = at
    BY <1>6, <1>t, Expired
  <2>2. CASE item = Timeout
    <3>1. "queued" \notin work[Restart] /\ at # "start"
      BY <2>1, <2>2 DEF TimeoutFirstInv
    <3>2. work'[Restart] = work[Restart] /\ "delayed" \notin work'[Timeout]
      BY <1>w, <2>1, <2>2
    <3>3. \A i \in 1 .. Len(gps_work_queue') : gps_work_queue'[i] # Restart
      BY <1>t, <3>1, <3>2 DEF QueueInv
    <3> QED
      BY <2>1, <3>1, <3>2, <3>3 DEF TimeoutFirstInv
  <2>3. CASE item = Restart
    <3>1. "delayed" \notin work[Timeout]
      BY <1>w, <2>1, <2>3 DEF TimeoutFirstInv
    <3>2. work'[Timeout] = work[Timeout]
      BY <1>w, <2>1, <2>3
    <3>3. \A i, j \in 1 .. Len(gps_work_queue') :
              gps_work_queue'[i] = Restart /\ gps_work_queue'[j] = Timeout => j < i
      <4>1. CASE gps_work_queue' = gps_work_queue
        BY <4>1 DEF TimeoutFirstInv
      <4>2. CASE gps_work_queue' = Append(gps_work_queue, Restart)
        <5> SUFFICES ASSUME NEW i \in 1 .. Len(gps_work_queue'),
                            NEW j \in 1 .. Len(gps_work_queue'),
                            gps_work_queue'[i] = Restart, gps_work_queue'[j] = Timeout
                     PROVE  j < i
          OBVIOUS
        <5>1. j \in 1 .. Len(gps_work_queue) /\ gps_work_queue[j] = Timeout
          BY <1>w, <4>2
        <5>2. CASE i \in 1 .. Len(gps_work_queue)
          <6>1. gps_work_queue[i] = Restart
            BY <1>w, <4>2, <5>2
          <6> QED
            BY <5>1, <5>2, <6>1 DEF TimeoutFirstInv
        <5>3. CASE i = Len(gps_work_queue) + 1
          BY <1>w, <5>1, <5>3
        <5> QED
          BY <1>w, <4>2, <5>2, <5>3
      <4> QED
        BY <2>1, <2>3, <4>1, <4>2
    <3> QED
      BY <2>1, <3>1, <3>2, <3>3 DEF TimeoutFirstInv
  <2> QED
    BY <2>1, <2>2, <2>3
<1>7. CASE Tick
  <2>1. /\ left'[Timeout] = IF "delayed" \in work[Timeout] THEN left[Timeout] - 1
                            ELSE left[Timeout]
        /\ left'[Restart] = IF "delayed" \in work[Restart] THEN left[Restart] - 1
                            ELSE left[Restart]
        /\ UNCHANGED <<work, at, gps_work_queue>>
    BY <1>7, <1>t, Ticked
  <2> QED
    BY <1>w, <2>1 DEF TimeoutFirstInv
<1> QED
  BY <1>1, <1>2, <1>3, <1>4, <1>5, <1>6, <1>7, StepCases

-----------------------------------------------------------------------------
(* A search has its timeout. *)

LEMMA TimeoutDelayStep ==
    ASSUME IInv, TimeoutRunInv, TimeoutFirstInv, TimeoutDelayInv, [Next]_gpsVars
    PROVE  TimeoutDelayInv'
<1>t. TypeOK /\ QueueInv
  BY RestartFacts
<1>w. /\ Timeout \in WorkItem /\ Restart \in WorkItem /\ Timeout # Restart
      /\ left[Timeout] \in Nat /\ waited \in Nat
      /\ GPS_TIMEOUT \in Nat /\ LongestDelay \in Nat /\ GPS_TIMEOUT <= LongestDelay
      /\ waited <= LongestDelay
  BY <1>t, DelayTypes
<1>1. CASE gnss_event_handler
  <2>1. CASE gnss' = "asleep"
    <3>1. gnss # "stopped" /\ at' = at /\ work'[Timeout] = Cancel(work[Timeout])
      BY <1>1, <1>t, <2>1, Events
    <3>2. at = "stop" => "canceling" \in work'[Timeout]
      BY <3>1 DEF TimeoutRunInv, Cancel
    <3>3. {"delayed", "queued"} \cap work'[Timeout] = {}
      BY <3>1 DEF Cancel
    <3> QED
      BY <2>1, <3>1, <3>2, <3>3 DEF TimeoutDelayInv
  <2>2. CASE gnss' # "asleep"
    <3>1. /\ gnss # "stopped" /\ at' = at
          /\ \/ work'[Timeout] = work[Timeout] /\ left'[Timeout] = left[Timeout]
             \/ /\ work[Timeout] \subseteq {"running"}
                /\ work'[Timeout] = work[Timeout] \cup {"delayed"}
                /\ left'[Timeout] = GPS_TIMEOUT
          /\ waited' = waited \/ (gnss = "asleep" /\ waited' = 0)
      BY <1>1, <1>t, <2>2, Events
    <3>2. CASE waited' = waited
      BY <1>w, <2>2, <3>1, <3>2 DEF TimeoutDelayInv
    <3>3. CASE gnss = "asleep" /\ waited' = 0
      BY <1>w, <2>2, <3>1, <3>3 DEF TimeoutDelayInv
    <3> QED
      BY <3>1, <3>2, <3>3
  <2> QED
    BY <2>1, <2>2
<1>2. CASE StartHandler
  <2> DEFINE head == Head(gps_work_queue)
  <2>1. /\ head \in WorkItem
        /\ "queued" \in work[head]
        /\ \A item \in WorkItem \ {head} : work'[item] = work[item]
        /\ work'[head] = (work[head] \ {"queued"}) \cup {"running"}
        /\ at' = FirstStep[head]
        /\ UNCHANGED <<gnss, left, waited>>
    BY <1>2, <1>t, Started
  <2> HIDE DEF head
  <2>2. CASE head = Timeout
    <3>1. gnss # "asleep"
      BY <2>1, <2>2 DEF TimeoutDelayInv
    <3>2. gnss # "stopped" => waited >= GPS_TIMEOUT
      BY <2>1, <2>2 DEF TimeoutDelayInv
    <3> QED
      BY <2>1, <2>2, <3>1, <3>2 DEF TimeoutDelayInv
  <2>3. CASE head # Timeout
    <3>1. work'[Timeout] = work[Timeout] /\ at' # "stop"
      BY <1>w, <2>1, <2>3, Handlers
    <3> QED
      BY <2>1, <3>1 DEF TimeoutDelayInv
  <2> QED
    BY <2>2, <2>3
<1>3. CASE HandlerReturns
  BY <1>3, <1>t, <1>w, Returned DEF TimeoutDelayInv
<1>4. CASE handle_gps_timed_out_fn \/ handle_restart_gps_fn
  <2>1. CASE at' = "schedule_restart" /\ gnss' = "stopped"
    BY <2>1 DEF TimeoutDelayInv
  <2>2. CASE at = "schedule_restart" /\ at' = "return"
    <3>1. UNCHANGED gnss
      BY <1>4, <1>t, <2>2, Handled
    <3> QED
      BY <2>2, <3>1, RestartFacts DEF TimeoutDelayInv
  <2>3. CASE at = "start" /\ at' = "return"
    <3>1. UNCHANGED work /\ gnss' \in {"searching", "failed"}
      BY <1>4, <1>t, <2>3, Handled
    <3>2. {"delayed", "queued"} \cap work[Timeout] = {}
      BY <2>3 DEF TimeoutFirstInv
    <3> QED
      BY <2>3, <3>1, <3>2 DEF TimeoutDelayInv
  <2> QED
    BY <1>4, <1>t, <2>1, <2>2, <2>3, Handled
<1>5. CASE pvt_data_handler_fn \/ UNCHANGED gpsVars
  <2>1. UNCHANGED <<gnss, work, left, waited>> /\ (at' = at \/ at' # "stop")
    BY <1>5, ReportSteps
  <2> QED
    BY <2>1 DEF TimeoutDelayInv
<1>6. ASSUME NEW item \in Delayable, TimerExpires(item)
      PROVE  TimeoutDelayInv'
  <2>1. /\ item \in {Timeout, Restart}
        /\ "delayed" \in work[item] /\ left[item] = 0
        /\ \A other \in WorkItem \ {item} : work'[other] = work[other]
        /\ work'[item] = IF "canceling" \in work[item] THEN work[item] \ {"delayed"}
                         ELSE (work[item] \ {"delayed"}) \cup {"queued"}
        /\ UNCHANGED <<gnss, left, at, waited>>
    BY <1>6, <1>t, Expired
  <2>2. CASE item = Timeout
    <3>1. gnss # "asleep" /\ (gnss # "stopped" => waited >= GPS_TIMEOUT)
      BY <1>w, <2>1, <2>2 DEF TimeoutDelayInv
    <3> QED
      BY <1>w, <2>1, <2>2, <3>1 DEF TimeoutDelayInv
  <2>3. CASE item = Restart
    <3>1. work'[Timeout] = work[Timeout]
      BY <1>w, <2>1, <2>3
    <3> QED
      BY <2>1, <3>1 DEF TimeoutDelayInv
  <2> QED
    BY <2>1, <2>2, <2>3
<1>7. CASE Tick
  <2>1. /\ left'[Timeout] = IF "delayed" \in work[Timeout] THEN left[Timeout] - 1
                            ELSE left[Timeout]
        /\ "delayed" \in work[Timeout] => left[Timeout] > 0
        /\ waited' = IF waited < LongestDelay THEN waited + 1 ELSE LongestDelay
        /\ UNCHANGED <<gnss, work, at>>
    BY <1>7, <1>t, Ticked
  <2> QED
    BY <1>w, <2>1 DEF TimeoutDelayInv
<1> QED
  BY <1>1, <1>2, <1>3, <1>4, <1>5, <1>6, <1>7, StepCases

-----------------------------------------------------------------------------

LEMMA DelaysInit ==
    gps_init => RestartDelayInv /\ TimeoutRunInv /\ TimeoutDelayInv /\ TimeoutFirstInv
<1> SUFFICES ASSUME gps_init
             PROVE  RestartDelayInv /\ TimeoutRunInv /\ TimeoutDelayInv /\ TimeoutFirstInv
  OBVIOUS
<1>1. /\ work[Timeout] = {} /\ work[Restart] = {}
      /\ at = "idle" /\ gnss = "searching" /\ gps_work_queue = <<>>
  BY Handlers DEF gps_init
<1>2. RestartDelayInv /\ TimeoutRunInv /\ TimeoutDelayInv
  BY <1>1 DEF RestartDelayInv, TimeoutRunInv, TimeoutDelayInv
<1>3. TimeoutFirstInv
  BY <1>1 DEF TimeoutFirstInv
<1> QED
  BY <1>2, <1>3

\* A GNSS that is stopped stays stopped for the whole restart delay: no event, no
\* cancellation and no second timeout gets it started earlier (gps.cpp,
\* handle_gps_timed_out_fn and handle_restart_gps_fn).
THEOREM StopLastsItsDelay == Spec => NoEarlyRestart
<1> DEFINE Inv == IInv /\ RestartDelayInv
           Late == gnss = "stopped" /\ gnss' # "stopped" => waited >= GPS_RESTART_DELAY
<1>1. gps_init => Inv
  BY InvInit, DelaysInit
<1>2. Inv /\ [Next]_gpsVars => Inv'
  BY InvStep, RestartDelayStep
<1>3. Inv /\ [Next]_gpsVars => [Late]_gpsVars
  <2> SUFFICES ASSUME IInv, RestartDelayInv, [Next]_gpsVars,
                      gnss = "stopped", gnss' # "stopped"
               PROVE  waited >= GPS_RESTART_DELAY
    OBVIOUS
  <2>t. TypeOK /\ QueueInv
    BY RestartFacts
  <2>1. CASE at = "start"
    BY <2>1 DEF RestartDelayInv
  <2>2. CASE gnss_event_handler
    BY <2>t, <2>2, Events
  <2>3. CASE StartHandler \/ HandlerReturns \/ Tick
    BY <2>t, <2>3, Started, Returned, Ticked
  <2>4. CASE handle_gps_timed_out_fn \/ handle_restart_gps_fn
    BY <2>t, <2>1, <2>4, Handled
  <2>5. CASE pvt_data_handler_fn \/ UNCHANGED gpsVars
    BY <2>5, ReportSteps
  <2>6. ASSUME NEW item \in Delayable, TimerExpires(item)
        PROVE  FALSE
    BY <2>t, <2>6, Expired
  <2> QED
    BY <2>2, <2>3, <2>4, <2>5, <2>6, StepCases
<1> HIDE DEF Inv, Late
<1>4. [][Late]_gpsVars => NoEarlyRestart
  BY DEF NoEarlyRestart, Late
<1> QED
  BY <1>1, <1>2, <1>3, <1>4, PTL DEF Spec

\* Where the timeout is no longer than the restart delay, as in Kconfig's
\* defaults, a search is stopped only when it has lasted GPS_TIMEOUT, unless the
\* fix that cancels the timeout comes while its handler runs (gps.cpp,
\* handle_pvt_event, gnss_event_handler and handle_gps_timed_out_fn).  Without
\* the assumption the timeout of a stopped search ends the next one.
THEOREM SearchHasItsTime ==
    ASSUME GPS_TIMEOUT <= GPS_RESTART_DELAY
    PROVE  Spec => NoPrematureStop
<1> DEFINE Inv == IInv /\ TimeoutRunInv /\ TimeoutFirstInv /\ TimeoutDelayInv
           Late == gnss # "stopped" /\ gnss' = "stopped"
                   => waited >= GPS_TIMEOUT \/ "canceling" \in work["gps_timed_out"]
<1>1. gps_init => Inv
  BY InvInit, DelaysInit
<1>2. Inv /\ [Next]_gpsVars => Inv'
  BY InvStep, TimeoutRunStep, TimeoutFirstStep, TimeoutDelayStep
<1>3. Inv /\ [Next]_gpsVars => [Late]_gpsVars
  <2> SUFFICES ASSUME IInv, TimeoutDelayInv, [Next]_gpsVars,
                      gnss # "stopped", gnss' = "stopped"
               PROVE  waited >= GPS_TIMEOUT \/ "canceling" \in work[Timeout]
    BY DEF Timeout
  <2>t. TypeOK /\ QueueInv
    BY RestartFacts
  <2>1. CASE at = "stop"
    BY <2>1 DEF TimeoutDelayInv
  <2>2. CASE gnss_event_handler
    BY <2>t, <2>2, Events
  <2>3. CASE StartHandler \/ HandlerReturns \/ Tick
    BY <2>t, <2>3, Started, Returned, Ticked
  <2>4. CASE handle_gps_timed_out_fn \/ handle_restart_gps_fn
    BY <2>t, <2>1, <2>4, Handled
  <2>5. CASE pvt_data_handler_fn \/ UNCHANGED gpsVars
    BY <2>5, ReportSteps
  <2>6. ASSUME NEW item \in Delayable, TimerExpires(item)
        PROVE  FALSE
    BY <2>t, <2>6, Expired
  <2> QED
    BY <2>2, <2>3, <2>4, <2>5, <2>6, StepCases
<1> HIDE DEF Inv, Late
<1>4. [][Late]_gpsVars => NoPrematureStop
  BY DEF NoPrematureStop, Late
<1> QED
  BY <1>1, <1>2, <1>3, <1>4, PTL DEF Spec

=============================================================================
