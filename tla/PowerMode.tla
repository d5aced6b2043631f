----------------------------- MODULE PowerMode ------------------------------
(***************************************************************************)
(* src/src/low_power/low_power.cpp and src/src/sensors/pmic.cpp: switching *)
(* the board between its two power modes.                                  *)
(*                                                                         *)
(* set_power_mode() takes no lock and is called by three threads: main()   *)
(* while booting, the system work queue for the button, the network work   *)
(* queue for a DEBUG answer of the server.  Every device call can block,   *)
(* so a call in progress is a step of its thread per device call.  The     *)
(* module has no Next of its own: DeviceUi says who calls when.            *)
(***************************************************************************)
EXTENDS Integers

CONSTANT DevicesMayFail     \* whether a device call can return an error

ASSUME DevicesAssumption == DevicesMayFail \in BOOLEAN

VARIABLES
    rp2040,         \* npm1300_buck2, the supply of the RP2040, is on
    buck2_refcnt,   \* Zephyr's count of its enables less disables
    pulldown,       \* its pulldown, bit 3 of BUCKCTRL0, is set
    uart,           \* the console is not suspended
    accelerometer,  \* its sampling rate is not 0
    nor,            \* the external flash is not suspended
    at,             \* where each thread is in set_power_mode
    rc_ok,          \* each call's rc is 0 so far
    alone,          \* history: no other call overlapped each call so far
    settled,        \* history: the mode set by the last call, if that call
                    \* returned 0 and overlapped no other; otherwise "unknown"
    in_step         \* history: the regulator's count was such, when that call,
                    \* or the one alone now, began, that it switches the supply

deviceVars == <<rp2040, buck2_refcnt, pulldown, uart, accelerometer, nor>>
callVars == <<at, rc_ok, alone, in_step, settled>>
powerVars == <<deviceVars, callVars>>

Thread == {"main", "system", "network"}
PowerModes == {"Low", "High"}

LowSteps == {"disable_buck2", "enable_pulldown", "suspend_accelerometer",
             "suspend_nor", "sleep", "suspend_uart"}
HighSteps == {"resume_uart", "disable_pulldown", "enable_buck2"}
FirstCall == [Low |-> "disable_buck2", High |-> "resume_uart"]

Outside(t) == at[t] = "outside"

PowerTypeOK ==
    /\ rp2040 \in BOOLEAN
    /\ buck2_refcnt \in Int
    /\ pulldown \in BOOLEAN
    /\ uart \in BOOLEAN
    /\ accelerometer \in BOOLEAN
    /\ nor \in BOOLEAN
    /\ at \in [Thread -> LowSteps \cup HighSteps \cup {"outside"}]
    /\ rc_ok \in [Thread -> BOOLEAN]
    /\ alone \in [Thread -> BOOLEAN]
    /\ in_step \in BOOLEAN
    /\ settled \in PowerModes \cup {"unknown"}

\* After power-on everything runs, and the regulator's driver has counted a
\* supply that is on.
PowerInit ==
    /\ rp2040 = TRUE
    /\ buck2_refcnt = 1
    /\ pulldown = FALSE
    /\ uart = TRUE
    /\ accelerometer = TRUE
    /\ nor = TRUE
    /\ at = [t \in Thread |-> "outside"]
    /\ rc_ok = [t \in Thread |-> TRUE]
    /\ alone = [t \in Thread |-> FALSE]
    /\ in_step = TRUE
    /\ settled = "High"

-----------------------------------------------------------------------------

set_power_mode(t, mode) ==
    /\ Outside(t)
    /\ at' = [at EXCEPT ![t] = FirstCall[mode]]
    /\ UNCHANGED rc_ok
    /\ alone' = [o \in Thread |-> o = t /\ \A u \in Thread : Outside(u)]
    /\ in_step' = (alone'[t] => IF mode = "Low" THEN buck2_refcnt <= 1
                                                ELSE buck2_refcnt >= 0)
    /\ settled' = "unknown"
    /\ UNCHANGED deviceVars

\* One device call of thread t.  It can succeed only if possible holds (a
\* device that is suspended cannot be suspended again: -EALREADY).
DeviceCall(t, step, ok, possible) ==
    /\ at[t] = step
    /\ IF possible THEN ok \/ DevicesMayFail ELSE ~ok

\* rc |= the result of the call.
GoesOn(t, step, ok) ==
    /\ at' = [at EXCEPT ![t] = step]
    /\ rc_ok' = [rc_ok EXCEPT ![t] = @ /\ ok]
    /\ UNCHANGED <<alone, in_step, settled>>

Returns(t, mode, ok) ==
    /\ at' = [at EXCEPT ![t] = "outside"]
    /\ settled' = IF alone[t] /\ rc_ok[t] /\ ok THEN mode ELSE "unknown"
    /\ rc_ok' = [rc_ok EXCEPT ![t] = TRUE]
    /\ alone' = [alone EXCEPT ![t] = FALSE]
    /\ in_step' = (settled' = mode => in_step)

\* mfd_npm1300_reg_update(.., data, BIT(3)): bit 3 of the register becomes bit
\* 3 of data.
Bit3(data) == (data \div 8) % 2 = 1

\* disable_rp2040(): regulator_disable(), which counts, and switches the supply
\* off, which can fail, only when the count comes to 0 ...
DisableBuck2(t) == \E ok \in BOOLEAN :
    /\ DeviceCall(t, "disable_buck2", ok, TRUE)
    /\ ok \/ buck2_refcnt = 1
    /\ buck2_refcnt' = IF ok THEN buck2_refcnt - 1 ELSE buck2_refcnt
    /\ rp2040' = IF ok /\ buck2_refcnt = 1 THEN FALSE ELSE rp2040
    /\ GoesOn(t, IF ok THEN "enable_pulldown" ELSE "suspend_accelerometer", ok)
    /\ UNCHANGED <<pulldown, uart, accelerometer, nor>>

\* ... then the register update, with 1 for its data.
EnablePulldown(t) == \E ok \in BOOLEAN :
    /\ DeviceCall(t, "enable_pulldown", ok, TRUE)
    /\ pulldown' = IF ok THEN Bit3(1) ELSE pulldown
    /\ GoesOn(t, "suspend_accelerometer", ok)
    /\ UNCHANGED <<rp2040, buck2_refcnt, uart, accelerometer, nor>>

SuspendAccelerometer(t) == \E ok \in BOOLEAN :
    /\ DeviceCall(t, "suspend_accelerometer", ok, TRUE)
    /\ accelerometer' = (accelerometer /\ ~ok)
    /\ GoesOn(t, "suspend_nor", ok)
    /\ UNCHANGED <<rp2040, buck2_refcnt, pulldown, uart, nor>>

SuspendNor(t) == \E ok \in BOOLEAN :
    /\ DeviceCall(t, "suspend_nor", ok, nor)
    /\ nor' = (nor /\ ~ok)
    /\ GoesOn(t, "sleep", ok)
    /\ UNCHANGED <<rp2040, buck2_refcnt, pulldown, uart, accelerometer>>

\* k_sleep(K_MSEC(500)), for the log to be written.
SleepBeforeUart(t) ==
    /\ at[t] = "sleep"
    /\ GoesOn(t, "suspend_uart", TRUE)
    /\ UNCHANGED deviceVars

SuspendUart(t) == \E ok \in BOOLEAN :
    /\ DeviceCall(t, "suspend_uart", ok, uart)
    /\ uart' = (uart /\ ~ok)
    /\ Returns(t, "Low", ok)
    /\ UNCHANGED <<rp2040, buck2_refcnt, pulldown, accelerometer, nor>>

ResumeUart(t) == \E ok \in BOOLEAN :
    /\ DeviceCall(t, "resume_uart", ok, ~uart)
    /\ uart' = (uart \/ ok)
    /\ GoesOn(t, "disable_pulldown", ok)
    /\ UNCHANGED <<rp2040, buck2_refcnt, pulldown, accelerometer, nor>>

\* enable_rp2040(): the register update first; its error ends the call.
DisablePulldown(t) == \E ok \in BOOLEAN :
    /\ DeviceCall(t, "disable_pulldown", ok, TRUE)
    /\ pulldown' = IF ok THEN Bit3(0) ELSE pulldown
    /\ IF ok THEN GoesOn(t, "enable_buck2", ok) ELSE Returns(t, "High", ok)
    /\ UNCHANGED <<rp2040, buck2_refcnt, uart, accelerometer, nor>>

\* Mutant: the regulator's error is logged and not returned.
EnableBuck2_IgnoresError(t) == \E ok \in BOOLEAN :
    /\ DeviceCall(t, "enable_buck2", ok, TRUE)
    /\ ok \/ buck2_refcnt = 0
    /\ buck2_refcnt' = IF ok THEN buck2_refcnt + 1 ELSE buck2_refcnt
    /\ rp2040' = IF ok /\ buck2_refcnt = 0 THEN TRUE ELSE rp2040
    /\ Returns(t, "High", TRUE)
    /\ UNCHANGED <<pulldown, uart, accelerometer, nor>>

\* regulator_enable(): the supply is switched on when the count comes to 1.
EnableBuck2(t) == \E ok \in BOOLEAN :
    /\ DeviceCall(t, "enable_buck2", ok, TRUE)
    /\ ok \/ buck2_refcnt = 0
    /\ buck2_refcnt' = IF ok THEN buck2_refcnt + 1 ELSE buck2_refcnt
    /\ rp2040' = IF ok /\ buck2_refcnt = 0 THEN TRUE ELSE rp2040
    /\ Returns(t, "High", ok)
    /\ UNCHANGED <<pulldown, uart, accelerometer, nor>>

PowerStep(t) ==
    \/ DisableBuck2(t) \/ EnablePulldown(t)
    \/ SuspendAccelerometer(t) \/ SuspendNor(t)
    \/ SleepBeforeUart(t) \/ SuspendUart(t)
    \/ ResumeUart(t) \/ DisablePulldown(t) \/ EnableBuck2(t)

-----------------------------------------------------------------------------

\* What the 0 of set_power_mode() is worth, for a call that overlapped no other:
\* whatever earlier calls, failed or overlapping, had left behind, after Low the
\* console, the accelerometer and the flash are off, after High the console is on
\* and the pulldown off.  The RP2040's supply has followed if, and only if, the
\* regulator's count was at most 1 when Low began, at least 0 when High began.
\* Nothing is said of the pulldown after Low (PulldownWhenOff is about that), nor
\* of the accelerometer and the flash after High, which resumes neither.
WholeMode ==
    /\ settled = "Low" => ~uart /\ ~accelerometer /\ ~nor /\ (rp2040 <=> ~in_step)
    /\ settled = "High" => uart /\ ~pulldown /\ (rp2040 <=> in_step)

\* pmic.cpp:27, "When we want actual low power, disable the RP2040, AND enable
\* the buck2 pulldown".
PulldownWhenOff == settled = "Low" => pulldown

=============================================================================
