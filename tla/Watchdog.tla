------------------------------ MODULE Watchdog ------------------------------
(***************************************************************************)
(* src/src/util/watchdog.cpp: the hardware watchdog, which resets the      *)
(* device when it was not fed for the length of its window, and the kernel *)
(* timer whose interrupt feeds it.                                         *)
(*                                                                         *)
(* The timer's interrupt does not look at any thread, so nothing but a     *)
(* kernel that has halted (interrupts locked) keeps it from feeding.  The  *)
(* module has no Next of its own: Boot runs its steps.                     *)
(***************************************************************************)
EXTENDS Naturals

CONSTANTS
    FEED_START,     \* ticks; K_SECONDS(1)
    FEED_PERIOD,    \* ticks; K_SECONDS(5)
    WINDOW          \* ticks; wdt_config.window.max, 10000 ms

ASSUME WatchdogAssumption ==
    /\ FEED_START \in Nat \ {0} /\ FEED_PERIOD \in Nat \ {0} /\ WINDOW \in Nat
    /\ FEED_START < WINDOW /\ FEED_PERIOD < WINDOW

VARIABLES
    wdt_running,    \* wdt_setup() has succeeded: only a reset stops it now
    wdt_timer,      \* "off", or the ticks until wdt_timer expires
    unfed           \* ticks since the watchdog was set up or fed

watchdogVars == <<wdt_running, wdt_timer, unfed>>

\* A value of wdt_timer that is no number of ticks: the timer is not started.
NotStarted == WINDOW

WatchdogTypeOK ==
    /\ wdt_running \in BOOLEAN
    /\ wdt_timer \in 0 .. WINDOW
    /\ unfed \in 0 .. WINDOW

WatchdogOff ==
    /\ wdt_running = FALSE
    /\ wdt_timer = NotStarted
    /\ unfed = 0

-----------------------------------------------------------------------------

\* The end of watchdog_init(): wdt_setup(), from which the watchdog runs, and
\* k_timer_start(), before a tick has passed.
SetUpWatchdog ==
    /\ wdt_running' = TRUE
    /\ unfed' = 0
    /\ wdt_timer' = FEED_START

TimerDue == wdt_timer = 0

\* Mutant: the timer is started without a period.
Feed_Once ==
    /\ TimerDue
    /\ unfed' = 0
    /\ wdt_timer' = NotStarted
    /\ UNCHANGED wdt_running

\* wdt_feed_fn(), in interrupt context; the timer is periodic.
Feed ==
    /\ TimerDue
    /\ unfed' = 0
    /\ wdt_timer' = FEED_PERIOD
    /\ UNCHANGED wdt_running

Expired == wdt_running /\ unfed >= WINDOW

\* Time passes: with interrupts, no further than to the timer's expiry.
WatchdogTick(interrupts) ==
    /\ wdt_running /\ ~Expired
    /\ interrupts => ~TimerDue
    /\ unfed' = unfed + 1
    /\ wdt_timer' = IF interrupts /\ wdt_timer # NotStarted THEN wdt_timer - 1
                    ELSE wdt_timer
    /\ UNCHANGED wdt_running

=============================================================================
