-------------------------------- MODULE Gps ---------------------------------
(***************************************************************************)
(* src/src/gps/gps.cpp: the modem's GNSS in periodic mode, the interrupt   *)
(* handler of its events, and the work queue whose one thread runs three   *)
(* handlers: the search timeout, the restart after it, and the report of a *)
(* fix.                                                                    *)
(*                                                                         *)
(* The event handler runs in interrupt context, so an event of the modem   *)
(* and everything the handler does about it are one step, which may come   *)
(* between any two steps of the work queue's thread.                       *)
(*                                                                         *)
(* A fix is known by its number; time passes in ticks.                     *)
(***************************************************************************)
EXTENDS Naturals, Sequences, ZephyrWork

CONSTANTS
    GPS_TIMEOUT,        \* ticks; CONFIG_GPS_TIMEOUT_SECONDS
    GPS_RESTART_DELAY,  \* ticks; CONFIG_GPS_RESTART_DELAY_SECONDS
    RATE_LIMIT,         \* ticks; CONFIG_GPS_PACKET_RATE_LIMIT_MILLISECONDS
    StartMayFail,       \* whether nrf_modem_gnss_start() can fail
    MaxFixes            \* bound: valid fixes in a behaviour

ASSUME TimesAssumption ==
    /\ GPS_TIMEOUT \in Nat \ {0}
    /\ GPS_RESTART_DELAY \in Nat \ {0}
    /\ RATE_LIMIT \in Nat
ASSUME StartAssumption == StartMayFail \in BOOLEAN
ASSUME MaxFixesAssumption == MaxFixes \in Nat

VARIABLES
    gnss,                   \* what the modem's GNSS is doing
    heard,                  \* an event came since the search began
    modem_is_free_signal,   \* the k_poll_signal of the network requests
    work,                   \* flags of the three work items
    left,                   \* ticks left of the two delays
    gps_work_queue,         \* items submitted and not started, oldest first
    at,                     \* where the work queue's thread is
    fixes,                  \* number of the last valid fix
    pvt_frame,              \* the fix in pvt_data_work.pvt_frame
    built,                  \* the fix each half of the packet was read from
    reported,               \* history: the packet given to the queue last
    since_sent,             \* ticks since last_uptime_sent, up to RATE_LIMIT
    waited                  \* history: ticks this search, or this stop, has
                            \* lasted, up to LongestDelay

modemVars == <<gnss, heard, modem_is_free_signal>>
workVars == <<work, left, gps_work_queue>>
fixVars == <<fixes, pvt_frame>>
reportVars == <<built, reported, since_sent>>
gpsVars == <<modemVars, workVars, at, fixVars, reportVars, waited>>

\* gps_timed_out_work, restart_gps_work and pvt_data_work.
WorkItem == {"gps_timed_out", "restart_gps", "pvt_data"}
Delayable == WorkItem \ {"pvt_data"}
Delay == [gps_timed_out |-> GPS_TIMEOUT, restart_gps |-> GPS_RESTART_DELAY]

LongestDelay ==
    IF GPS_TIMEOUT < GPS_RESTART_DELAY THEN GPS_RESTART_DELAY ELSE GPS_TIMEOUT

\* "asleep" between periodic fixes, "gave_up" after the modem's own fix_retry,
\* "failed" when the start that was to end a stop returned an error.
Gnss == {"stopped", "searching", "fixed", "asleep", "gave_up", "failed"}
Searching == gnss \in {"searching", "fixed"}

Steps == {"idle", "stop", "schedule_restart", "start", "check", "info",
          "position", "time", "put", "submit", "return"}
FirstStep == [gps_timed_out |-> "stop", restart_gps |-> "start", pvt_data |-> "check"]

\* A packet under construction: the fixes its position and its time came from.
Packet == [position : 0 .. MaxFixes, time : 0 .. MaxFixes]

Capped(n, max) == IF n < max THEN n + 1 ELSE max

TypeOK ==
    /\ gnss \in Gnss
    /\ heard \in BOOLEAN
    /\ modem_is_free_signal \in BOOLEAN
    /\ work \in [WorkItem -> SUBSET Flags]
    /\ left \in [Delayable -> Nat]
    /\ \A item \in Delayable : left[item] <= Delay[item]
    /\ gps_work_queue \in Seq(WorkItem)
    /\ at \in Steps
    /\ fixes \in 0 .. MaxFixes
    /\ pvt_frame \in 0 .. fixes
    /\ built \in Packet
    /\ reported \in Packet
    /\ since_sent \in 0 .. RATE_LIMIT
    /\ waited \in 0 .. LongestDelay

\* Mutant: last_uptime_sent starts at 0.
gps_init_JustSent ==
    /\ gnss = "searching"
    /\ heard = FALSE
    /\ modem_is_free_signal = FALSE
    /\ work = [item \in WorkItem |-> {}]
    /\ left = [item \in Delayable |-> 0]
    /\ gps_work_queue = <<>>
    /\ at = "idle"
    /\ fixes = 0
    /\ pvt_frame = 0
    /\ built = [position |-> 0, time |-> 0]
    /\ reported = [position |-> 0, time |-> 0]
    /\ since_sent = 0
    /\ waited = 0

\* gps_init() returned 0: the GNSS has been started and nothing was heard yet.
\* last_uptime_sent lies a whole rate limit in the past.
gps_init ==
    /\ gnss = "searching"
    /\ heard = FALSE
    /\ modem_is_free_signal = FALSE
    /\ work = [item \in WorkItem |-> {}]
    /\ left = [item \in Delayable |-> 0]
    /\ gps_work_queue = <<>>
    /\ at = "idle"
    /\ fixes = 0
    /\ pvt_frame = 0
    /\ built = [position |-> 0, time |-> 0]
    /\ reported = [position |-> 0, time |-> 0]
    /\ since_sent = RATE_LIMIT
    /\ waited = 0

-----------------------------------------------------------------------------
(* Work items. *)

Scheduled(item) ==
    /\ work' = [work EXCEPT ![item] = Schedule(@)]
    /\ left' = [left EXCEPT ![item] = IF CanSchedule(work[item]) THEN Delay[item] ELSE @]

\* An item is appended to the queue when it gets its "queued" flag.
Enqueued(item, flags) ==
    /\ work' = [work EXCEPT ![item] = flags]
    /\ gps_work_queue' = IF "queued" \in flags \ work[item]
                         THEN Append(gps_work_queue, item) ELSE gps_work_queue

Due(item) == "delayed" \in work[item] /\ left[item] = 0

\* A delay is over.  When both are over in one tick, the timeout's began first:
\* while both run the GNSS is stopped and no event starts the timeout's.
TimerExpires(item) ==
    /\ Due(item)
    /\ item = "restart_gps" => ~Due("gps_timed_out")
    /\ Enqueued(item, Expire(work[item]))
    /\ UNCHANGED <<modemVars, left, at, fixVars, reportVars, waited>>

StartHandler ==
    /\ at = "idle"
    /\ gps_work_queue # <<>>
    /\ LET item == Head(gps_work_queue) IN
           /\ work' = [work EXCEPT ![item] = Run(@)]
           /\ at' = FirstStep[item]
    /\ gps_work_queue' = Tail(gps_work_queue)
    /\ UNCHANGED <<modemVars, left, fixVars, reportVars, waited>>

HandlerReturns ==
    /\ at = "return"
    /\ at' = "idle"
    /\ work' = [item \in WorkItem |-> Return(work[item])]
    /\ UNCHANGED <<modemVars, left, gps_work_queue, fixVars, reportVars, waited>>

-----------------------------------------------------------------------------
(* gnss_event_handler, each event with the modem's step that causes it. *)

\* NRF_MODEM_GNSS_EVT_PERIODIC_WAKEUP
PeriodicWakeup ==
    /\ gnss \in {"asleep", "gave_up"}
    /\ gnss' = "searching"
    /\ heard' = TRUE
    /\ modem_is_free_signal' = FALSE
    /\ Scheduled("gps_timed_out")
    /\ waited' = IF gnss = "asleep" THEN 0 ELSE waited
    /\ UNCHANGED <<gps_work_queue, at, fixVars, reportVars>>

\* Mutant: the timeout is not cancelled.
SleepAfterFix_KeepsTimeout ==
    /\ gnss = "fixed"
    /\ gnss' = "asleep"
    /\ modem_is_free_signal' = TRUE
    /\ UNCHANGED <<heard, workVars, at, fixVars, reportVars, waited>>

\* NRF_MODEM_GNSS_EVT_SLEEP_AFTER_FIX
SleepAfterFix ==
    /\ gnss = "fixed"
    /\ gnss' = "asleep"
    /\ modem_is_free_signal' = TRUE
    /\ work' = [work EXCEPT !["gps_timed_out"] = Cancel(@)]
    /\ left' = [left EXCEPT !["gps_timed_out"] = 0]
    /\ gps_work_queue' = Without(gps_work_queue, "gps_timed_out")
    /\ UNCHANGED <<heard, at, fixVars, reportVars, waited>>

\* NRF_MODEM_GNSS_EVT_SLEEP_AFTER_TIMEOUT, which the handler ignores.
SleepAfterTimeout ==
    /\ gnss = "searching"
    /\ gnss' = "gave_up"
    /\ UNCHANGED <<heard, modem_is_free_signal, workVars, at, fixVars, reportVars, waited>>

\* Mutant: the timeout is not started, only the frame is handled.
Pvt_NoTimeout(valid) ==
    /\ Searching
    /\ heard' = TRUE
    /\ ~valid
    /\ UNCHANGED <<gnss, modem_is_free_signal, workVars, at, fixVars, reportVars, waited>>

\* Mutant: every PVT event starts the timeout anew.
Pvt_RestartsTimeout(valid) ==
    /\ Searching
    /\ heard' = TRUE
    /\ ~valid
    /\ work' = [work EXCEPT !["gps_timed_out"] = @ \cup {"delayed"}]
    /\ left' = [left EXCEPT !["gps_timed_out"] = GPS_TIMEOUT]
    /\ UNCHANGED <<gnss, modem_is_free_signal, gps_work_queue, at, fixVars,
                   reportVars, waited>>

\* Mutant: NRF_MODEM_GNSS_PVT_FLAG_FIX_VALID is not looked at.
Pvt_AnyFrame(valid) ==
    /\ Searching
    /\ heard' = TRUE
    /\ IF valid
       THEN /\ fixes < MaxFixes
            /\ gnss' = "fixed"
            /\ fixes' = fixes + 1
            /\ pvt_frame' = fixes + 1
       ELSE UNCHANGED <<gnss, fixVars>>
    /\ Enqueued("pvt_data", Submit(work["pvt_data"]))
    /\ UNCHANGED <<left, modem_is_free_signal, at, reportVars, waited>>

\* NRF_MODEM_GNSS_EVT_PVT, handle_pvt_event: the timeout is started if nothing
\* of it is pending; a frame with a valid fix overwrites the last one, reported
\* or not.  valid is FALSE as well when the frame cannot be read.
Pvt(valid) ==
    /\ Searching
    /\ heard' = TRUE
    /\ IF valid
       THEN /\ fixes < MaxFixes
            /\ gnss' = "fixed"
            /\ fixes' = fixes + 1
            /\ pvt_frame' = fixes + 1
       ELSE UNCHANGED <<gnss, fixVars>>
    /\ LET timeout == work["gps_timed_out"]
           pvt == IF valid THEN Submit(work["pvt_data"]) ELSE work["pvt_data"]
       IN  /\ work' = [work EXCEPT !["gps_timed_out"] =
                                      IF IsPending(timeout) THEN @ ELSE Schedule(@),
                                   !["pvt_data"] = pvt]
           /\ left' = [left EXCEPT !["gps_timed_out"] =
                                      IF IsPending(timeout) THEN @ ELSE GPS_TIMEOUT]
           /\ gps_work_queue' = IF "queued" \in pvt \ work["pvt_data"]
                                THEN Append(gps_work_queue, "pvt_data")
                                ELSE gps_work_queue
    /\ UNCHANGED <<modem_is_free_signal, at, reportVars, waited>>

-----------------------------------------------------------------------------
(* handle_gps_timed_out_fn and handle_restart_gps_fn *)

GnssStop ==
    /\ at = "stop"
    /\ at' = "schedule_restart"
    /\ gnss' = "stopped"
    /\ waited' = IF gnss = "stopped" THEN waited ELSE 0
    /\ UNCHANGED <<heard, modem_is_free_signal, workVars, fixVars, reportVars>>

\* Mutant: no restart when the timeout has been cancelled meanwhile.
ScheduleRestart_UnlessCancelled ==
    /\ at = "schedule_restart"
    /\ at' = "return"
    /\ IF "canceling" \in work["gps_timed_out"] THEN UNCHANGED <<work, left>>
       ELSE Scheduled("restart_gps")
    /\ UNCHANGED <<modemVars, gps_work_queue, fixVars, reportVars, waited>>

\* Mutant: the restart is scheduled with K_NO_WAIT.
ScheduleRestart_NoDelay ==
    /\ at = "schedule_restart"
    /\ at' = "return"
    /\ Enqueued("restart_gps", Submit(work["restart_gps"]))
    /\ UNCHANGED <<modemVars, left, fixVars, reportVars, waited>>

ScheduleRestart ==
    /\ at = "schedule_restart"
    /\ at' = "return"
    /\ Scheduled("restart_gps")
    /\ UNCHANGED <<modemVars, gps_work_queue, fixVars, reportVars, waited>>

\* nrf_modem_gnss_start(), called only while the GNSS is stopped ...
GnssStart ==
    /\ at = "start"
    /\ at' = "return"
    /\ gnss' = "searching"
    /\ heard' = FALSE
    /\ waited' = 0
    /\ UNCHANGED <<modem_is_free_signal, workVars, fixVars, reportVars>>

\* ... whose error, if it returns one, is not looked at.
GnssStartFails ==
    /\ StartMayFail
    /\ at = "start"
    /\ at' = "return"
    /\ gnss' = "failed"
    /\ UNCHANGED <<heard, modem_is_free_signal, workVars, fixVars, reportVars, waited>>

-----------------------------------------------------------------------------
(* pvt_data_handler_fn, and send_gps_update up to its message queue. *)

\* Mutant: the time of the next packet is stored as the time of the last one.
CheckRate_StoresNext ==
    /\ at = "check"
    /\ IF since_sent >= RATE_LIMIT
       THEN at' = "info" /\ since_sent' = 0 - RATE_LIMIT
       ELSE at' = "return" /\ UNCHANGED since_sent
    /\ UNCHANGED <<modemVars, workVars, fixVars, built, reported, waited>>

CheckRate ==
    /\ at = "check"
    /\ IF since_sent >= RATE_LIMIT
       THEN at' = "info" /\ since_sent' = 0
       ELSE at' = "return" /\ UNCHANGED since_sent
    /\ UNCHANGED <<modemVars, workVars, fixVars, built, reported, waited>>

\* get_provider_info() and get_battery_soc() block; the frame, passed by
\* reference, can be overwritten meanwhile.
GetInfo ==
    /\ at = "info"
    /\ at' = "position"
    /\ UNCHANGED <<modemVars, workVars, fixVars, reportVars, waited>>

\* build_gps_packet() reads the frame's position first and its time last.
ReadPosition ==
    /\ at = "position"
    /\ at' = "time"
    /\ built' = [built EXCEPT !.position = pvt_frame]
    /\ UNCHANGED <<modemVars, workVars, fixVars, reported, since_sent, waited>>

ReadTime ==
    /\ at = "time"
    /\ at' = "put"
    /\ built' = [built EXCEPT !.time = pvt_frame]
    /\ UNCHANGED <<modemVars, workVars, fixVars, reported, since_sent, waited>>

PutReport ==
    /\ at = "put"
    /\ at' = "submit"
    /\ reported' = built
    /\ UNCHANGED <<modemVars, workVars, fixVars, built, since_sent, waited>>

\* The message queue is full.
ReportRejected ==
    /\ at = "put"
    /\ at' = "return"
    /\ UNCHANGED <<modemVars, workVars, fixVars, reportVars, waited>>

SubmitReport ==
    /\ at = "submit"
    /\ at' = "return"
    /\ UNCHANGED <<modemVars, workVars, fixVars, reportVars, waited>>

-----------------------------------------------------------------------------

Tick ==
    /\ \A item \in Delayable : ~Due(item)
    /\ left' = [item \in Delayable |->
                   IF "delayed" \in work[item] THEN left[item] - 1 ELSE left[item]]
    /\ since_sent' = Capped(since_sent, RATE_LIMIT)
    /\ waited' = Capped(waited, LongestDelay)
    /\ UNCHANGED <<modemVars, work, gps_work_queue, at, fixVars, built, reported>>

gnss_event_handler ==
    \/ PeriodicWakeup \/ SleepAfterFix \/ SleepAfterTimeout
    \/ \E valid \in BOOLEAN : Pvt(valid)

handle_gps_timed_out_fn == GnssStop \/ ScheduleRestart
handle_restart_gps_fn == GnssStart \/ GnssStartFails
pvt_data_handler_fn ==
    \/ CheckRate \/ GetInfo \/ ReadPosition \/ ReadTime
    \/ PutReport \/ ReportRejected \/ SubmitReport

WorkQueueThread ==
    \/ StartHandler \/ HandlerReturns
    \/ handle_gps_timed_out_fn \/ handle_restart_gps_fn \/ pvt_data_handler_fn

Next ==
    \/ gnss_event_handler
    \/ WorkQueueThread
    \/ \E item \in Delayable : TimerExpires(item)
    \/ Tick

Spec == gps_init /\ [][Next]_gpsVars

(***************************************************************************)
(* The thread is scheduled and time passes.  The modem reports once a      *)
(* second while it searches and wakes up for every periodic fix.           *)
(***************************************************************************)
Fairness ==
    /\ WF_gpsVars(WorkQueueThread)
    /\ \A item \in Delayable : WF_gpsVars(TimerExpires(item))
    /\ WF_gpsVars(Tick)
    /\ WF_gpsVars(PeriodicWakeup)
    /\ WF_gpsVars(Pvt(FALSE))

FairSpec == Spec /\ Fairness

-----------------------------------------------------------------------------
(* Safety *)

\* A stopped GNSS has its restart ahead of it, and a restart runs only while it
\* is stopped: no timing of events, cancellations and handlers makes the
\* schedule of the restart a lost call.
RestartPending ==
    /\ gnss = "stopped" => IsPending(work["restart_gps"]) \/ at = "schedule_restart"
    /\ at = "start" => gnss = "stopped"

\* Once the modem has been heard, a search that has not ended is under a timeout
\* (one that is running, due, or just being handled), although
\* k_work_schedule() does nothing while the item is being cancelled.
SearchIsWatched ==
    Searching \/ gnss = "gave_up" => ~heard \/ IsPending(work["gps_timed_out"])

\* What a packet says is never older than what the packet before it said, and
\* never a frame that no fix wrote, although the frame can change between the
\* reading of its position and of its time.
ReportsInOrder ==
    at = "put" => /\ 1 <= built.position
                  /\ reported.time <= built.position
                  /\ built.position <= built.time

\* Kconfig GPS_TIMEOUT_SECONDS: a search is stopped only when it has lasted that
\* long (a fix that comes while the timeout is handled is too late to stop it).
\* It needs GPS_TIMEOUT <= GPS_RESTART_DELAY, as in the defaults.
NoPrematureStop ==
    [][gnss # "stopped" /\ gnss' = "stopped"
        => waited >= GPS_TIMEOUT \/ "canceling" \in work["gps_timed_out"]]_gpsVars

\* gps.cpp:22, "stop GPS for GPS_RESTART_DELAY": never for less.
NoEarlyRestart ==
    [][gnss = "stopped" /\ gnss' # "stopped" => waited >= GPS_RESTART_DELAY]_gpsVars

-----------------------------------------------------------------------------
(* Liveness *)

\* A search ends: by a fix, or by the stop that a restart follows.
SearchEnds == Searching ~> gnss \in {"asleep", "stopped"}

\* A stop ends.
StopEnds == gnss = "stopped" ~> gnss # "stopped"

\* gps.cpp:58, "Always report first fix".
FirstFixReported == fixes > 0 /\ built.time = 0 ~> built.time > 0

=============================================================================
