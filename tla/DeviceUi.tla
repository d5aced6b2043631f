------------------------------ MODULE DeviceUi ------------------------------
(***************************************************************************)
(* src/src/ui/device_ui.cpp: the button, whose clicks toggle the power     *)
(* mode, and the LED, which blinks the mode chosen; with PowerMode and     *)
(* the two other callers of set_power_mode(), main() and the handler of    *)
(* network requests.                                                       *)
(*                                                                         *)
(* Both work items run on the system work queue, whose one thread is       *)
(* blocked while it is inside set_power_mode().  The input event handler   *)
(* is written as an interrupt handler: it may run between any two steps    *)
(* of the threads.                                                         *)
(***************************************************************************)
EXTENDS PowerMode, Integers, Sequences, ZephyrWork

CONSTANTS
    TRACKCAR_LOW_POWER,                 \* Kconfig: main() starts in low power
    LOW_POWER_MODE_ACTIVATED_LENGTH,    \* flashes; 10 in device_ui.h
    HIGH_POWER_MODE_ACTIVATED_LENGTH,   \* flashes; 4
    MaxPresses,                         \* bound: presses of the button
    MaxReplies                          \* bound: DEBUG words from the server

ASSUME LowPowerAssumption == TRACKCAR_LOW_POWER \in BOOLEAN
ASSUME LengthAssumption ==
    /\ LOW_POWER_MODE_ACTIVATED_LENGTH \in 1 .. 127
    /\ HIGH_POWER_MODE_ACTIVATED_LENGTH \in 1 .. 127
ASSUME BoundsAssumption == MaxPresses \in 0 .. 255 /\ MaxReplies \in Nat

VARIABLES
    boot,               \* main(): "before", "switching" or "after" its own call
    replies,            \* DEBUG words received
    held,               \* the button: "up", or pressed for less or more than 1 s
    isr_data,           \* presses, last_action, and where pressed_down_at is
    copy,               \* the button handler's local copy of isr_data
    pressed,            \* number of presses so far
    unspent,            \* history: short presses minus toggles
    work,               \* flags of led_work and button_work
    queue,              \* the system work queue
    sys,                \* where its thread is
    high_power,         \* toggle_power_mode's static
    blink,              \* led_work: pattern, length, index
    led,                \* POWER_INDICATOR_LED is on
    flashes             \* history: how often this pattern turned it on

inputVars == <<held, isr_data, pressed>>
ledVars == <<blink, led, flashes>>
workVars == <<work, queue>>
otherVars == <<boot, replies>>
uiVars == <<powerVars, otherVars, inputVars, copy, unspent, workVars, sys,
            high_power, ledVars>>

UiItem == {"led", "button"}
Length == [Low |-> LOW_POWER_MODE_ACTIVATED_LENGTH,
           High |-> HIGH_POWER_MODE_ACTIVATED_LENGTH]

\* "zero": the handler cleared pressed_down_at, or nothing was pressed yet.
ButtonAction == {"ShortPress", "LongPress", "Unknown"}
NoPress == [presses |-> 0, last_action |-> "Unknown", pressed_down_at |-> "zero"]

NoPattern == [pattern |-> "none", length |-> 0, index |-> 0]

TypeOK ==
    /\ PowerTypeOK
    /\ boot \in {"before", "switching", "after"}
    /\ replies \in 0 .. MaxReplies
    /\ held \in {"up", "short", "long"}
    /\ isr_data \in [presses : 0 .. 255, last_action : ButtonAction,
                     pressed_down_at : {"zero", "press"}]
    /\ copy \in [presses : 0 .. 255, last_action : ButtonAction,
                 pressed_down_at : {"zero", "press"}]
    /\ pressed \in 0 .. MaxPresses
    /\ unspent \in Int
    /\ work \in [UiItem -> SUBSET Flags]
    /\ queue \in Seq(UiItem)
    /\ sys \in {"idle", "copied", "presses_clear", "time_clear", "clicked",
               "switching", "led"}
    /\ high_power \in BOOLEAN
    /\ blink \in [pattern : PowerModes \cup {"none"}, length : 0 .. 255,
                  index : 0 .. 255]
    /\ led \in BOOLEAN
    /\ flashes \in Nat
    /\ \E mode \in PowerModes : flashes <= Length[mode]

\* device_ui_init(): the LED is off, both items are initialised.
device_ui_init ==
    /\ PowerInit
    /\ boot = "before"
    /\ replies = 0
    /\ held = "up"
    /\ isr_data = NoPress
    /\ copy = NoPress
    /\ pressed = 0
    /\ unspent = 0
    /\ work = [item \in UiItem |-> {}]
    /\ queue = <<>>
    /\ sys = "idle"
    /\ high_power = TRUE
    /\ blink = NoPattern
    /\ led = FALSE
    /\ flashes = 0

-----------------------------------------------------------------------------
(* main() and the network thread *)

BootLowPower ==
    /\ TRACKCAR_LOW_POWER
    /\ boot = "before"
    /\ boot' = "switching"
    /\ set_power_mode("main", "Low")
    /\ UNCHANGED <<replies, inputVars, copy, unspent, workVars, sys, high_power, ledVars>>

\* The rest of main(), which starts the network thread.
BootGoesOn ==
    /\ boot = IF TRACKCAR_LOW_POWER THEN "switching" ELSE "before"
    /\ Outside("main")
    /\ boot' = "after"
    /\ UNCHANGED <<powerVars, replies, inputVars, copy, unspent, workVars, sys,
                   high_power, ledVars>>

\* "DEBUG=ON" or "DEBUG=OFF" in the answer to a request.
DebugReply(mode) ==
    /\ boot = "after"
    /\ replies < MaxReplies
    /\ replies' = replies + 1
    /\ set_power_mode("network", mode)
    /\ UNCHANGED <<boot, inputVars, copy, unspent, workVars, sys, high_power, ledVars>>

\* A thread inside set_power_mode() goes on.
SwitchingGoesOn(t) ==
    /\ PowerStep(t)
    /\ UNCHANGED <<otherVars, inputVars, copy, unspent, workVars, sys, high_power, ledVars>>

-----------------------------------------------------------------------------
(* button_event_isr *)

\* Off the queue, unless its handler is running.
CancelButton ==
    /\ work' = [work EXCEPT !["button"] = Cancel(@)]
    /\ queue' = Without(queue, "button")

Press ==
    /\ held = "up" /\ pressed < MaxPresses
    /\ held' = "short"
    /\ pressed' = pressed + 1
    /\ CancelButton
    /\ isr_data' = [presses |-> (isr_data.presses + 1) % 256,
                    last_action |-> "Unknown", pressed_down_at |-> "press"]
    /\ UNCHANGED <<powerVars, otherVars, copy, unspent, sys, high_power, ledVars>>

\* A second goes by with the button down.
HeldLong ==
    /\ held = "short"
    /\ held' = "long"
    /\ UNCHANGED <<powerVars, otherVars, isr_data, pressed, copy, unspent,
                   workVars, sys, high_power, ledVars>>

\* The duration is counted from pressed_down_at, so from power-on, more than a
\* second ago, if the handler cleared it.  k_work_schedule() comes after the
\* cancellation, and does nothing if the handler is still running then.
Release ==
    /\ held # "up"
    /\ held' = "up"
    /\ LET short == held = "short" /\ isr_data.pressed_down_at = "press" IN
           isr_data' = [isr_data EXCEPT
               !.last_action = IF short THEN "ShortPress" ELSE "LongPress",
               !.pressed_down_at = "press"]
    /\ work' = [work EXCEPT !["button"] = Schedule(Cancel(@))]
    /\ queue' = Without(queue, "button")
    /\ unspent' = IF held = "short" THEN unspent + 1 ELSE unspent
    /\ UNCHANGED <<powerVars, otherVars, pressed, copy, sys, high_power, ledVars>>

-----------------------------------------------------------------------------
(* The system work queue *)

TimerExpires(item) ==
    /\ "delayed" \in work[item]
    /\ work' = [work EXCEPT ![item] = Expire(@)]
    /\ queue' = IF "queued" \in Expire(work[item]) THEN Append(queue, item) ELSE queue
    /\ UNCHANGED <<powerVars, otherVars, inputVars, copy, unspent, sys, high_power, ledVars>>

\* button_data_work_handler: the copy of isr_data, in one step: with the input
\* thread of prj.conf (CONFIG_INPUT=y, in Zephyr the lowest priority there is) the
\* event handler does not preempt the work queue within it ...
TakeButton ==
    /\ sys = "idle" /\ queue # <<>> /\ Head(queue) = "button"
    /\ queue' = Tail(queue)
    /\ work' = [work EXCEPT !["button"] = Run(@)]
    /\ sys' = "copied"
    /\ copy' = isr_data
    /\ UNCHANGED <<powerVars, otherVars, inputVars, unspent, high_power, ledVars>>

\* ... the reset of what was copied, in three stores, without regard to what
\* came meanwhile ...
ClearButton ==
    /\ \/ /\ sys = "copied" /\ sys' = "presses_clear"
          /\ isr_data' = [isr_data EXCEPT !.presses = 0]
       \/ /\ sys = "presses_clear" /\ sys' = "time_clear"
          /\ isr_data' = [isr_data EXCEPT !.pressed_down_at = "zero"]
       \/ /\ sys = "time_clear" /\ sys' = "clicked"
          /\ isr_data' = [isr_data EXCEPT !.last_action = "Unknown"]
    /\ UNCHANGED <<powerVars, otherVars, held, pressed, copy, unspent, workVars,
                   high_power, ledVars>>

\* Mutant: the length of the press does not matter.
Toggle_AnyPress ==
    /\ sys = "clicked"
    /\ copy.presses = 1
    /\ sys' = "switching"
    /\ high_power' = ~high_power
    /\ unspent' = unspent - 1
    /\ set_power_mode("system", IF high_power THEN "Low" ELSE "High")
    /\ UNCHANGED <<otherVars, inputVars, copy, workVars, ledVars>>

\* ... and toggle_power_mode() for a single short press.
Toggle ==
    /\ sys = "clicked"
    /\ copy.presses = 1 /\ copy.last_action = "ShortPress"
    /\ sys' = "switching"
    /\ high_power' = ~high_power
    /\ unspent' = unspent - 1
    /\ set_power_mode("system", IF high_power THEN "Low" ELSE "High")
    /\ UNCHANGED <<otherVars, inputVars, copy, workVars, ledVars>>

IgnoreClick ==
    /\ sys = "clicked"
    /\ ~(copy.presses = 1 /\ copy.last_action = "ShortPress")
    /\ sys' = "idle"
    /\ copy' = NoPress
    /\ work' = [work EXCEPT !["button"] = Return(@)]
    /\ UNCHANGED <<powerVars, otherVars, inputVars, unspent, queue, high_power, ledVars>>

\* Mutant: blink_pattern() does not double the length.
BlinkPattern_NotDoubled ==
    /\ sys = "switching" /\ Outside("system")
    /\ sys' = "idle"
    /\ LET mode == IF high_power THEN "High" ELSE "Low" IN
           blink' = [pattern |-> mode, length |-> Length[mode], index |-> 0]
    /\ flashes' = 0
    /\ copy' = NoPress
    /\ work' = [button |-> Return(work["button"]), led |-> {"queued"}]
    /\ queue' = Append(Without(queue, "led"), "led")
    /\ UNCHANGED <<powerVars, otherVars, inputVars, unspent, high_power, led>>

\* set_power_mode() has returned: blink_pattern() cancels the pattern that is
\* running and schedules the first step of the new one with K_NO_WAIT.
BlinkPattern ==
    /\ sys = "switching" /\ Outside("system")
    /\ sys' = "idle"
    /\ LET mode == IF high_power THEN "High" ELSE "Low" IN
           blink' = [pattern |-> mode, length |-> (2 * Length[mode]) % 256, index |-> 0]
    /\ flashes' = 0
    /\ copy' = NoPress
    /\ work' = [button |-> Return(work["button"]), led |-> {"queued"}]
    /\ queue' = Append(Without(queue, "led"), "led")
    /\ UNCHANGED <<powerVars, otherVars, inputVars, unspent, high_power, led>>

TakeLed ==
    /\ sys = "idle" /\ queue # <<>> /\ Head(queue) = "led"
    /\ queue' = Tail(queue)
    /\ work' = [work EXCEPT !["led"] = Run(@)]
    /\ sys' = "led"
    /\ UNCHANGED <<powerVars, otherVars, inputVars, copy, unspent, high_power, ledVars>>

\* Mutant: the next step is not scheduled.
BlinkStep_Once ==
    /\ sys = "led"
    /\ sys' = "idle"
    /\ flashes' = IF blink.index % 2 = 0 THEN flashes + 1 ELSE flashes
    /\ IF blink.index + 1 >= blink.length
       THEN led' = FALSE /\ blink' = NoPattern
       ELSE led' = (blink.index % 2 = 0) /\ blink' = [blink EXCEPT !.index = @ + 1]
    /\ work' = [work EXCEPT !["led"] = Return(@)]
    /\ UNCHANGED <<powerVars, otherVars, inputVars, copy, unspent, queue, high_power>>

\* Mutant: the handler goes on after the last step.
BlinkStep_NoReturn ==
    /\ sys = "led"
    /\ sys' = "idle"
    /\ IF blink.index + 1 >= blink.length
       THEN led' = FALSE /\ blink' = NoPattern
       ELSE led' = (blink.index % 2 = 0) /\ blink' = [blink EXCEPT !.index = @ + 1]
    /\ flashes' = IF blink.index % 2 = 0 THEN flashes + 1 ELSE flashes
    /\ work' = [work EXCEPT !["led"] = Return(Schedule(@))]
    /\ UNCHANGED <<powerVars, otherVars, inputVars, copy, unspent, queue, high_power>>

\* led_work_handler: even steps turn the LED on, the last one ends the pattern.
BlinkStep ==
    /\ sys = "led"
    /\ sys' = "idle"
    /\ flashes' = IF blink.index % 2 = 0 THEN flashes + 1 ELSE flashes
    /\ IF blink.index + 1 >= blink.length
       THEN /\ led' = FALSE
            /\ blink' = NoPattern
            /\ work' = [work EXCEPT !["led"] = Return(@)]
       ELSE /\ led' = (blink.index % 2 = 0)
            /\ blink' = [blink EXCEPT !.index = @ + 1]
            /\ work' = [work EXCEPT !["led"] = Return(Schedule(@))]
    /\ UNCHANGED <<powerVars, otherVars, inputVars, copy, unspent, queue, high_power>>

-----------------------------------------------------------------------------

button_event_isr == Press \/ HeldLong \/ Release
button_data_work_handler == TakeButton \/ ClearButton \/ Toggle \/ IgnoreClick \/ BlinkPattern
led_work_handler == TakeLed \/ BlinkStep

SystemWorkQueue == button_data_work_handler \/ led_work_handler \/ SwitchingGoesOn("system")

Next ==
    \/ BootLowPower \/ BootGoesOn
    \/ \E mode \in PowerModes : DebugReply(mode)
    \/ \E t \in {"main", "network"} : SwitchingGoesOn(t)
    \/ button_event_isr
    \/ \E item \in UiItem : TimerExpires(item)
    \/ SystemWorkQueue

Spec == device_ui_init /\ [][Next]_uiVars

\* The system work queue's thread is scheduled and its timers expire.
FairSpec ==
    /\ Spec
    /\ WF_uiVars(SystemWorkQueue)
    /\ \A item \in UiItem : WF_uiVars(TimerExpires(item))

-----------------------------------------------------------------------------

\* The mode is toggled at most once for each short press, although the handler
\* copies and clears the button's data while presses go on.
TogglesAreClicks == unspent >= 0

\* A step of the LED's handler always finds a pattern and an index inside it:
\* blink_pattern() cancels the pattern that is running, and the last step
\* leaves nothing scheduled.
PatternInBounds ==
    work["led"] # {} => blink.pattern # "none" /\ blink.index < blink.length

\* device_ui.h:7, "Length is how many times the LED will turn ON", and the LED
\* is off afterwards.
FlashesCounted ==
    [][blink.pattern # "none" /\ blink'.pattern = "none"
        => flashes' = Length[blink.pattern] /\ ~led']_uiVars

\* The LED never stays on.
LedGoesOff == led ~> ~led

=============================================================================
