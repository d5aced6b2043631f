--------------------------- MODULE DeviceUiProofs ---------------------------
(***************************************************************************)
(* The safety of DeviceUi and PowerMode for every length of the patterns   *)
(* and every number of presses and of DEBUG words.                         *)
(*                                                                         *)
(* The power modes come first: the supply and the regulator's count        *)
(* (SupplyInv), and how far a call of set_power_mode() that nothing        *)
(* disturbs has brought the board (CallInv).  Then the system work queue   *)
(* (QueueInv), the pattern of the LED (BlinkInv) and the clicks that are   *)
(* still to be handled (ClickInv).                                         *)
(***************************************************************************)
EXTENDS DeviceUi, ZephyrWorkProofs

\* What a call of set_power_mode() that is alone and without an error so far
\* has done before each of its steps.
Progress(t) ==
    /\ at[t] = "disable_buck2" => (in_step <=> buck2_refcnt <= 1)
    /\ at[t] \in {"enable_pulldown", "suspend_accelerometer", "suspend_nor", "sleep",
                  "suspend_uart"} => (rp2040 <=> ~in_step)
    /\ at[t] \in {"suspend_nor", "sleep", "suspend_uart"} => ~accelerometer
    /\ at[t] \in {"sleep", "suspend_uart"} => ~nor
    /\ at[t] \in {"resume_uart", "disable_pulldown", "enable_buck2"}
           => (in_step <=> buck2_refcnt >= 0)
    /\ at[t] \in {"disable_pulldown", "enable_buck2"} => uart
    /\ at[t] = "enable_buck2" => ~pulldown

\* The supply is on exactly while the regulator counts more enables than disables.
SupplyInv == rp2040 <=> buck2_refcnt >= 1

\* A call that is alone has all other threads outside, and so has a settled mode.
CallInv ==
    /\ \A t, u \in Thread : alone[t] /\ u # t => Outside(u)
    /\ \A t \in Thread : settled # "unknown" => Outside(t)
    /\ \A t \in Thread : alone[t] /\ rc_ok[t] => Progress(t)
    /\ WholeMode

\* The queue holds the items with the "queued" flag, each once.
QueueInv ==
    /\ \A i \in 1 .. Len(queue) : "queued" \in work[queue[i]]
    /\ \A i, j \in 1 .. Len(queue) : queue[i] = queue[j] => i = j
    /\ \A item \in UiItem : "delayed" \in work[item] => "queued" \notin work[item]

\* The LED's item is pending in one way at a time, and only while there is a
\* pattern, whose steps so far have turned the LED on every other time.
BlinkInv ==
    /\ work["led"] \in {{}, {"delayed"}, {"queued"}, {"running"}}
    /\ sys = "led" => work["led"] = {"running"}
    /\ work["led"] # {} => blink.pattern # "none"
    /\ blink.pattern # "none" => /\ blink.length = 2 * Length[blink.pattern]
                                 /\ blink.index < blink.length
                                 /\ flashes = (blink.index + 1) \div 2

Owed(yes) == IF yes THEN 1 ELSE 0

\* The handler has copied the button's data and not yet cleared all of it.
Clearing == {"copied", "presses_clear", "time_clear"}

\* A short press that is not handled yet has been counted: the one in the
\* handler's copy, and the one in the button's data unless it is that one.
ClickInv ==
    /\ held # "up" => isr_data.last_action = "Unknown"
    /\ unspent >=   Owed(sys \in Clearing \cup {"clicked"}
                            /\ copy.last_action = "ShortPress")
                  + Owed(sys \notin Clearing /\ isr_data.last_action = "ShortPress")

-----------------------------------------------------------------------------
(* The power modes. *)

Inside == LowSteps \cup HighSteps

LEMMA PowerSteps ==
    /\ Inside = {"disable_buck2", "enable_pulldown", "suspend_accelerometer", "suspend_nor",
                 "sleep", "suspend_uart", "resume_uart", "disable_pulldown", "enable_buck2"}
    /\ PowerModes = {"Low", "High"}
    /\ FirstCall["Low"] = "disable_buck2" /\ FirstCall["High"] = "resume_uart"
    /\ "outside" \notin Inside
BY DEF Inside, LowSteps, HighSteps, PowerModes, FirstCall

\* A call has one of the two ends of a step: it goes on, or it returns.
LEMMA GoesOnTypes ==
    ASSUME PowerTypeOK, NEW t \in Thread, NEW step \in Inside, NEW ok \in BOOLEAN,
           GoesOn(t, step, ok)
    PROVE  /\ at' \in [Thread -> Inside \cup {"outside"}]
           /\ rc_ok' \in [Thread -> BOOLEAN] /\ alone' \in [Thread -> BOOLEAN]
           /\ in_step' \in BOOLEAN /\ settled' \in PowerModes \cup {"unknown"}
<1>1. rc_ok' \in [Thread -> BOOLEAN]
  BY Zenon DEF PowerTypeOK, GoesOn
<1>2. at' \in [Thread -> Inside \cup {"outside"}]
  BY DEF PowerTypeOK, GoesOn, Inside
<1> QED
  BY <1>1, <1>2 DEF PowerTypeOK, GoesOn

LEMMA ReturnsTypes ==
    ASSUME PowerTypeOK, NEW t \in Thread, NEW mode \in PowerModes, NEW ok \in BOOLEAN,
           Returns(t, mode, ok)
    PROVE  /\ at' \in [Thread -> Inside \cup {"outside"}]
           /\ rc_ok' \in [Thread -> BOOLEAN] /\ alone' \in [Thread -> BOOLEAN]
           /\ in_step' \in BOOLEAN /\ settled' \in PowerModes \cup {"unknown"}
<1>1. at' \in [Thread -> Inside \cup {"outside"}]
  BY DEF PowerTypeOK, Returns, Inside
<1>2. rc_ok' \in [Thread -> BOOLEAN] /\ alone' \in [Thread -> BOOLEAN]
  BY DEF PowerTypeOK, Returns
<1>3. settled' \in PowerModes \cup {"unknown"}
  BY DEF Returns
<1>4. in_step' \in BOOLEAN
  BY DEF Returns
<1> QED
  BY <1>1, <1>2, <1>3, <1>4

LEMMA SwitchTypes ==
    ASSUME PowerTypeOK, NEW t \in Thread, NEW mode \in PowerModes, set_power_mode(t, mode)
    PROVE  PowerTypeOK'
<1>1. FirstCall[mode] \in Inside
  BY PowerSteps
<1>2. at' \in [Thread -> Inside \cup {"outside"}]
  BY <1>1 DEF PowerTypeOK, set_power_mode, Inside
<1>3. alone' \in [Thread -> BOOLEAN]
  BY Zenon DEF set_power_mode
<1>4. in_step' \in BOOLEAN
  BY DEF set_power_mode
<1> QED
  BY <1>2, <1>3, <1>4 DEF PowerTypeOK, set_power_mode, deviceVars, Inside

\* What a device call makes of its thread, and what it leaves alone.
LEMMA StepTypes ==
    ASSUME PowerTypeOK, NEW t \in Thread, PowerStep(t)
    PROVE  PowerTypeOK'
<1>d. /\ rp2040 \in BOOLEAN /\ buck2_refcnt \in Int /\ pulldown \in BOOLEAN
      /\ uart \in BOOLEAN /\ accelerometer \in BOOLEAN /\ nor \in BOOLEAN
      /\ Bit3(0) \in BOOLEAN /\ Bit3(1) \in BOOLEAN
  BY DEF PowerTypeOK, Bit3
<1>1. ASSUME NEW ok \in BOOLEAN, NEW step \in Inside, GoesOn(t, step, ok)
             \/ \E mode \in PowerModes : Returns(t, mode, ok),
             rp2040' \in BOOLEAN, buck2_refcnt' \in Int, pulldown' \in BOOLEAN,
             uart' \in BOOLEAN, accelerometer' \in BOOLEAN, nor' \in BOOLEAN
      PROVE  PowerTypeOK'
  BY <1>1, GoesOnTypes, ReturnsTypes DEF PowerTypeOK, Inside
<1>2. "suspend_uart" \in Inside /\ "enable_pulldown" \in Inside
      /\ "suspend_accelerometer" \in Inside /\ "suspend_nor" \in Inside
      /\ "sleep" \in Inside /\ "disable_pulldown" \in Inside /\ "enable_buck2" \in Inside
      /\ "Low" \in PowerModes /\ "High" \in PowerModes
  BY PowerSteps
<1>3. CASE DisableBuck2(t)
  <2> PICK ok \in BOOLEAN :
          /\ buck2_refcnt' = IF ok THEN buck2_refcnt - 1 ELSE buck2_refcnt
          /\ rp2040' = IF ok /\ buck2_refcnt = 1 THEN FALSE ELSE rp2040
          /\ GoesOn(t, IF ok THEN "enable_pulldown" ELSE "suspend_accelerometer", ok)
          /\ UNCHANGED <<pulldown, uart, accelerometer, nor>>
    BY <1>3 DEF DisableBuck2
  <2>1. buck2_refcnt' \in Int
    BY <1>d
  <2>2. rp2040' \in BOOLEAN
    BY <1>d
  <2>3. \E step \in Inside : GoesOn(t, step, ok)
    BY <1>2
  <2> QED
    BY <1>1, <1>d, <2>1, <2>2, <2>3
<1>4. CASE EnablePulldown(t)
  BY <1>d, <1>1, <1>2, <1>4 DEF EnablePulldown
<1>5. CASE SuspendAccelerometer(t)
  BY <1>d, <1>1, <1>2, <1>5 DEF SuspendAccelerometer
<1>6. CASE SuspendNor(t)
  BY <1>d, <1>1, <1>2, <1>6 DEF SuspendNor
<1>7. CASE SleepBeforeUart(t)
  BY <1>d, <1>1, <1>2, <1>7 DEF SleepBeforeUart, deviceVars
<1>8. CASE SuspendUart(t)
  BY <1>d, <1>1, <1>2, <1>8 DEF SuspendUart
<1>9. CASE ResumeUart(t)
  BY <1>d, <1>1, <1>2, <1>9 DEF ResumeUart
<1>10. CASE DisablePulldown(t)
  <2> PICK ok \in BOOLEAN :
          /\ pulldown' = IF ok THEN Bit3(0) ELSE pulldown
          /\ IF ok THEN GoesOn(t, "enable_buck2", ok) ELSE Returns(t, "High", ok)
          /\ UNCHANGED <<rp2040, buck2_refcnt, uart, accelerometer, nor>>
    BY <1>10 DEF DisablePulldown
  <2>1. pulldown' \in BOOLEAN
    BY <1>d
  <2>2. GoesOn(t, "enable_buck2", ok) \/ Returns(t, "High", ok)
    OBVIOUS
  <2> QED
    BY <1>1, <1>2, <1>d, <2>1, <2>2
<1>11. CASE EnableBuck2(t)
  <2> PICK ok \in BOOLEAN :
          /\ buck2_refcnt' = IF ok THEN buck2_refcnt + 1 ELSE buck2_refcnt
          /\ rp2040' = IF ok /\ buck2_refcnt = 0 THEN TRUE ELSE rp2040
          /\ Returns(t, "High", ok)
          /\ UNCHANGED <<pulldown, uart, accelerometer, nor>>
    BY <1>11 DEF EnableBuck2
  <2>1. buck2_refcnt' \in Int
    BY <1>d
  <2>2. rp2040' \in BOOLEAN
    BY <1>d
  <2> QED
    BY <1>1, <1>2, <1>d, <2>1, <2>2
<1> QED
  BY <1>3, <1>4, <1>5, <1>6, <1>7, <1>8, <1>9, <1>10, <1>11 DEF PowerStep

\* A call begins: it is alone if all threads are outside, and no other is.
LEMMA CallBegins ==
    ASSUME PowerTypeOK, CallInv, NEW t \in Thread, NEW mode \in PowerModes,
           set_power_mode(t, mode)
    PROVE  CallInv'
<1>1. settled' = "unknown" /\ UNCHANGED buck2_refcnt
  BY DEF set_power_mode, deviceVars
<1>2. \A x \in Thread : alone'[x] => x = t /\ \A u \in Thread : Outside(u)
  BY DEF set_power_mode
<1>3. /\ at'[t] = FirstCall[mode]
      /\ \A u \in Thread \ {t} : at'[u] = at[u]
  BY DEF set_power_mode, PowerTypeOK
<1>4. alone'[t] => /\ mode = "Low" => (in_step' <=> buck2_refcnt <= 1)
                   /\ mode = "High" => (in_step' <=> buck2_refcnt >= 0)
  BY Zenon, PowerSteps DEF set_power_mode
<1>5. \A x, u \in Thread : alone'[x] /\ u # x => Outside(u)'
  BY <1>2, <1>3 DEF Outside
<1>6. alone'[t] => Progress(t)'
  <2>1. CASE mode = "Low"
    BY <1>1, <1>3, <1>4, <2>1, PowerSteps DEF Progress
  <2>2. CASE mode = "High"
    BY <1>1, <1>3, <1>4, <2>2, PowerSteps DEF Progress
  <2> QED
    BY <2>1, <2>2, PowerSteps
<1>7. \A x \in Thread : alone'[x] /\ rc_ok'[x] => Progress(x)'
  BY <1>2, <1>6
<1>8. WholeMode'
  BY <1>1 DEF WholeMode
<1> QED
  BY <1>1, <1>5, <1>7, <1>8 DEF CallInv

\* A thread inside a call: no mode is settled, and no other call is alone.
LEMMA InsideCall ==
    ASSUME CallInv, NEW t \in Thread, ~Outside(t)
    PROVE  /\ settled = "unknown"
           /\ \A x \in Thread \ {t} : ~alone[x]
BY DEF CallInv

LEMMA CallGoesOn ==
    ASSUME PowerTypeOK, CallInv, NEW t \in Thread, ~Outside(t), NEW step, NEW ok \in BOOLEAN,
           GoesOn(t, step, ok),
           alone[t] /\ rc_ok[t] /\ ok => Progress(t)'
    PROVE  CallInv'
<1>1. settled' = "unknown" /\ \A x \in Thread \ {t} : ~alone'[x]
  BY InsideCall DEF GoesOn
<1>2. /\ \A u \in Thread \ {t} : at'[u] = at[u]
      /\ alone' = alone
  BY DEF GoesOn, PowerTypeOK
<1>3. rc_ok'[t] => rc_ok[t] /\ ok
  BY DEF GoesOn, PowerTypeOK
<1>4. \A x, u \in Thread : alone'[x] /\ u # x => Outside(u)'
  BY <1>1, <1>2 DEF CallInv, Outside
<1>5. \A x \in Thread : alone'[x] /\ rc_ok'[x] => Progress(x)'
  BY <1>1, <1>2, <1>3
<1>6. WholeMode'
  BY <1>1 DEF WholeMode
<1> QED
  BY <1>1, <1>4, <1>5, <1>6 DEF CallInv

LEMMA CallReturns ==
    ASSUME PowerTypeOK, CallInv, NEW t \in Thread, ~Outside(t), NEW mode, NEW ok \in BOOLEAN,
           Returns(t, mode, ok),
           alone[t] /\ rc_ok[t] /\ ok => WholeMode'
    PROVE  CallInv'
<1>1. \A x \in Thread : ~alone'[x]
  BY InsideCall DEF Returns, PowerTypeOK
<1>2. /\ at'[t] = "outside"
      /\ \A u \in Thread \ {t} : at'[u] = at[u]
  BY DEF Returns, PowerTypeOK
<1>3. settled' # "unknown" => alone[t] /\ rc_ok[t] /\ ok
  BY DEF Returns
<1>4. \A u \in Thread : settled' # "unknown" => Outside(u)'
  BY <1>2, <1>3 DEF CallInv, Outside
<1>5. WholeMode'
  BY <1>3 DEF WholeMode
<1> QED
  BY <1>1, <1>4, <1>5 DEF CallInv

\* Only the two calls of the regulator touch the supply and its count.
LEMMA SupplyStep ==
    ASSUME PowerTypeOK, SupplyInv, NEW t \in Thread, PowerStep(t)
    PROVE  SupplyInv'
<1>t. buck2_refcnt \in Int
  BY DEF PowerTypeOK
<1>1. CASE DisableBuck2(t)
  <2> PICK ok \in BOOLEAN :
          /\ buck2_refcnt' = IF ok THEN buck2_refcnt - 1 ELSE buck2_refcnt
          /\ rp2040' = IF ok /\ buck2_refcnt = 1 THEN FALSE ELSE rp2040
    BY <1>1 DEF DisableBuck2
  <2> QED
    BY <1>t DEF SupplyInv
<1>2. CASE EnableBuck2(t)
  <2> PICK ok \in BOOLEAN :
          /\ buck2_refcnt' = IF ok THEN buck2_refcnt + 1 ELSE buck2_refcnt
          /\ rp2040' = IF ok /\ buck2_refcnt = 0 THEN TRUE ELSE rp2040
    BY <1>2 DEF EnableBuck2
  <2> QED
    BY <1>t DEF SupplyInv
<1>3. CASE ~DisableBuck2(t) /\ ~EnableBuck2(t)
  <2>1. UNCHANGED <<rp2040, buck2_refcnt>>
    BY <1>3 DEF PowerStep, EnablePulldown, SuspendAccelerometer, SuspendNor, SleepBeforeUart,
                SuspendUart, ResumeUart, DisablePulldown, deviceVars
  <2> QED
    BY <2>1 DEF SupplyInv
<1> QED
  BY <1>1, <1>2, <1>3

LEMMA CallStep ==
    ASSUME PowerTypeOK, SupplyInv, CallInv, NEW t \in Thread, PowerStep(t)
    PROVE  CallInv'
<1>0. alone[t] /\ rc_ok[t] => Progress(t)
  BY DEF CallInv
<1>t. \A step : GoesOn(t, step, TRUE) \/ GoesOn(t, step, FALSE) => at'[t] = step
  BY DEF GoesOn, PowerTypeOK
<1>1. CASE DisableBuck2(t)
  <2> PICK ok \in BOOLEAN :
          /\ at[t] = "disable_buck2"
          /\ rp2040' = IF ok /\ buck2_refcnt = 1 THEN FALSE ELSE rp2040
          /\ GoesOn(t, IF ok THEN "enable_pulldown" ELSE "suspend_accelerometer", ok)
    BY <1>1 DEF DisableBuck2, DeviceCall
  <2>1. buck2_refcnt \in Int /\ in_step' = in_step
    BY DEF PowerTypeOK, GoesOn
  <2>2. ASSUME alone[t], rc_ok[t], ok
        PROVE  Progress(t)'
    <3>1. in_step <=> buck2_refcnt <= 1
      BY <1>0, <2>2 DEF Progress
    <3>2. rp2040' <=> buck2_refcnt >= 2
      BY <2>1, <2>2 DEF SupplyInv
    <3>3. rp2040' <=> ~in_step'
      BY <2>1, <3>1, <3>2
    <3>4. at'[t] = "enable_pulldown"
      BY <1>t, <2>2
    <3> QED
      BY <3>3, <3>4 DEF Progress
  <2> QED
    BY <2>2, CallGoesOn DEF Outside
<1>2. CASE EnablePulldown(t)
  <2> PICK ok \in BOOLEAN :
          /\ at[t] = "enable_pulldown"
          /\ GoesOn(t, "suspend_accelerometer", ok)
          /\ UNCHANGED rp2040
    BY <1>2 DEF EnablePulldown, DeviceCall
  <2>1. alone[t] /\ rc_ok[t] /\ ok => Progress(t)'
    BY <1>0, <1>t DEF Progress, GoesOn
  <2> QED
    BY <2>1, CallGoesOn DEF Outside
<1>3. CASE SuspendAccelerometer(t)
  <2> PICK ok \in BOOLEAN :
          /\ at[t] = "suspend_accelerometer"
          /\ accelerometer' = (accelerometer /\ ~ok)
          /\ GoesOn(t, "suspend_nor", ok)
          /\ UNCHANGED rp2040
    BY <1>3 DEF SuspendAccelerometer, DeviceCall
  <2>1. alone[t] /\ rc_ok[t] /\ ok => Progress(t)'
    BY <1>0, <1>t DEF Progress, GoesOn
  <2> QED
    BY <2>1, CallGoesOn DEF Outside
<1>4. CASE SuspendNor(t)
  <2> PICK ok \in BOOLEAN :
          /\ at[t] = "suspend_nor"
          /\ nor' = (nor /\ ~ok)
          /\ GoesOn(t, "sleep", ok)
          /\ UNCHANGED <<rp2040, accelerometer>>
    BY <1>4 DEF SuspendNor, DeviceCall
  <2>1. alone[t] /\ rc_ok[t] /\ ok => Progress(t)'
    BY <1>0, <1>t DEF Progress, GoesOn
  <2> QED
    BY <2>1, CallGoesOn DEF Outside
<1>5. CASE SleepBeforeUart(t)
  <2>0. /\ at[t] = "sleep"
        /\ GoesOn(t, "suspend_uart", TRUE)
        /\ UNCHANGED <<rp2040, accelerometer, nor>>
    BY <1>5 DEF SleepBeforeUart, deviceVars
  <2>1. alone[t] /\ rc_ok[t] => Progress(t)'
    BY <1>0, <1>t, <2>0 DEF Progress, GoesOn
  <2> QED
    BY <2>0, <2>1, CallGoesOn DEF Outside
<1>6. CASE SuspendUart(t)
  <2> PICK ok \in BOOLEAN :
          /\ at[t] = "suspend_uart"
          /\ uart' = (uart /\ ~ok)
          /\ Returns(t, "Low", ok)
          /\ UNCHANGED <<rp2040, accelerometer, nor>>
    BY <1>6 DEF SuspendUart, DeviceCall
  <2>1. alone[t] /\ rc_ok[t] /\ ok => WholeMode'
    BY <1>0 DEF Progress, Returns, WholeMode
  <2> QED
    BY <2>1, CallReturns DEF Outside
<1>7. CASE ResumeUart(t)
  <2> PICK ok \in BOOLEAN :
          /\ at[t] = "resume_uart"
          /\ uart' = (uart \/ ok)
          /\ GoesOn(t, "disable_pulldown", ok)
          /\ UNCHANGED buck2_refcnt
    BY <1>7 DEF ResumeUart, DeviceCall
  <2>1. alone[t] /\ rc_ok[t] /\ ok => Progress(t)'
    BY <1>0, <1>t DEF Progress, GoesOn
  <2> QED
    BY <2>1, CallGoesOn DEF Outside
<1>8. CASE DisablePulldown(t)
  <2> PICK ok \in BOOLEAN :
          /\ at[t] = "disable_pulldown"
          /\ pulldown' = IF ok THEN Bit3(0) ELSE pulldown
          /\ IF ok THEN GoesOn(t, "enable_buck2", ok) ELSE Returns(t, "High", ok)
          /\ UNCHANGED <<buck2_refcnt, uart>>
    BY <1>8 DEF DisablePulldown, DeviceCall
  <2>1. CASE ok
    <3>1. ~Bit3(0)
      BY DEF Bit3
    <3>2. alone[t] /\ rc_ok[t] => Progress(t)'
      BY <1>0, <1>t, <2>1, <3>1 DEF Progress, GoesOn
    <3> QED
      BY <2>1, <3>2, CallGoesOn DEF Outside
  <2>2. CASE ~ok
    BY <2>2, CallReturns DEF Outside
  <2> QED
    BY <2>1, <2>2
<1>9. CASE EnableBuck2(t)
  <2> PICK ok \in BOOLEAN :
          /\ at[t] = "enable_buck2"
          /\ rp2040' = IF ok /\ buck2_refcnt = 0 THEN TRUE ELSE rp2040
          /\ Returns(t, "High", ok)
          /\ UNCHANGED <<pulldown, uart>>
    BY <1>9 DEF EnableBuck2, DeviceCall
  <2>1. buck2_refcnt \in Int
    BY DEF PowerTypeOK
  <2>2. ASSUME alone[t], rc_ok[t], ok
        PROVE  WholeMode'
    <3>1. /\ in_step <=> buck2_refcnt >= 0
          /\ uart' /\ ~pulldown'
      BY <1>0, <2>2 DEF Progress
    <3>2. rp2040' <=> buck2_refcnt >= 0
      BY <2>1, <2>2 DEF SupplyInv
    <3>3. settled' = "High" /\ (in_step' <=> in_step)
      BY <2>2 DEF Returns
    <3> QED
      BY <3>1, <3>2, <3>3 DEF WholeMode
  <2> QED
    BY <2>2, CallReturns DEF Outside
<1> QED
  BY <1>1, <1>2, <1>3, <1>4, <1>5, <1>6, <1>7, <1>8, <1>9 DEF PowerStep

-----------------------------------------------------------------------------
(* The system work queue. *)

QueueTypeOK ==
    /\ queue \in Seq(UiItem)
    /\ work \in [UiItem -> SUBSET Flags]

LEMMA UiItems == UiItem = {"led", "button"} /\ "led" # "button"
BY DEF UiItem

\* The flags of an item change, not the one of being queued.
LEMMA Reflagged ==
    ASSUME QueueTypeOK, QueueInv, NEW item \in UiItem, NEW flags \in SUBSET Flags,
           "queued" \in flags <=> "queued" \in work[item],
           "delayed" \in flags => "queued" \notin flags,
           work' = [work EXCEPT ![item] = flags],
           queue' = queue
    PROVE  QueueTypeOK' /\ QueueInv'
BY DEF QueueTypeOK, QueueInv

\* An item is cancelled.
LEMMA Dequeued ==
    ASSUME QueueTypeOK, QueueInv, NEW item \in UiItem, NEW flags \in SUBSET Flags,
           "queued" \notin flags,
           work' = [work EXCEPT ![item] = flags],
           queue' = Without(queue, item)
    PROVE  QueueTypeOK' /\ QueueInv'
<1>t. /\ queue \in Seq(UiItem) /\ work \in [UiItem -> SUBSET Flags]
      /\ \A i, j \in 1 .. Len(queue) : queue[i] = queue[j] => i = j
  BY DEF QueueTypeOK, QueueInv
<1>1. /\ queue' \in Seq(UiItem)
      /\ \A i \in 1 .. Len(queue') :
             /\ queue'[i] # item
             /\ \E k \in 1 .. Len(queue) : queue'[i] = queue[k]
      /\ \A i, j \in 1 .. Len(queue') : queue'[i] = queue'[j] => i = j
  BY <1>t, WithoutItem
<1>2. work' \in [UiItem -> SUBSET Flags]
  BY <1>t
<1>3. \A i \in 1 .. Len(queue') : "queued" \in work'[queue'[i]]
  BY <1>t, <1>1 DEF QueueInv
<1>4. \A other \in UiItem : "delayed" \in work'[other] => "queued" \notin work'[other]
  BY <1>t DEF QueueInv
<1> QED
  BY <1>1, <1>2, <1>3, <1>4 DEF QueueTypeOK, QueueInv

\* The delay of an item is over.
LEMMA Enqueued ==
    ASSUME QueueTypeOK, QueueInv, NEW item \in UiItem, NEW flags \in SUBSET Flags,
           "queued" \notin work[item], "queued" \in flags, "delayed" \notin flags,
           work' = [work EXCEPT ![item] = flags],
           queue' = Append(queue, item)
    PROVE  QueueTypeOK' /\ QueueInv'
<1>t. /\ queue \in Seq(UiItem) /\ work \in [UiItem -> SUBSET Flags]
      /\ \A i, j \in 1 .. Len(queue) : queue[i] = queue[j] => i = j
      /\ \A i \in 1 .. Len(queue) : queue[i] # item
  BY DEF QueueTypeOK, QueueInv
<1>1. /\ \A i \in 1 .. Len(queue') :
             \/ i \in 1 .. Len(queue) /\ queue'[i] = queue[i]
             \/ queue'[i] = item
      /\ \A i, j \in 1 .. Len(queue') : queue'[i] = queue'[j] => i = j
  BY <1>t, AppendItem
<1>2. queue' \in Seq(UiItem) /\ work' \in [UiItem -> SUBSET Flags]
  BY <1>t
<1>3. \A i \in 1 .. Len(queue') : "queued" \in work'[queue'[i]]
  BY <1>t, <1>1 DEF QueueInv
<1>4. \A other \in UiItem : "delayed" \in work'[other] => "queued" \notin work'[other]
  BY <1>t DEF QueueInv
<1> QED
  BY <1>1, <1>2, <1>3, <1>4 DEF QueueTypeOK, QueueInv

\* The thread takes the first item.
LEMMA Taken ==
    ASSUME QueueTypeOK, QueueInv, NEW item \in UiItem,
           queue # <<>>, Head(queue) = item,
           work' = [work EXCEPT ![item] = Run(@)],
           queue' = Tail(queue)
    PROVE  /\ QueueTypeOK' /\ QueueInv'
           /\ "queued" \in work[item] /\ work'[item] # {}
           /\ \A other \in UiItem \ {item} : work'[other] = work[other]
<1>t. /\ queue \in Seq(UiItem) /\ work \in [UiItem -> SUBSET Flags]
      /\ \A i, j \in 1 .. Len(queue) : queue[i] = queue[j] => i = j
      /\ \A i \in 1 .. Len(queue) : "queued" \in work[queue[i]]
  BY DEF QueueTypeOK, QueueInv
<1>1. Len(queue) > 0 /\ queue[1] = item /\ "queued" \in work[item]
  BY <1>t
<1>2. \A i \in 1 .. Len(queue') : /\ i + 1 \in 1 .. Len(queue)
                                  /\ queue'[i] = queue[i + 1] /\ queue'[i] # item
  BY <1>t, <1>1
<1>3. /\ queue' \in Seq(UiItem) /\ work' \in [UiItem -> SUBSET Flags]
      /\ work'[item] = (work[item] \ {"queued"}) \cup {"running"}
      /\ \A other \in UiItem \ {item} : work'[other] = work[other]
  <2>1. queue' \in Seq(UiItem)
    BY <1>t, <1>1
  <2>2. work[item] \in SUBSET Flags
    BY <1>t
  <2>3. Run(work[item]) \in SUBSET Flags
    BY <2>2, FlagOps
  <2> QED
    BY <1>t, <2>1, <2>3 DEF Run
<1>4. \A i, j \in 1 .. Len(queue') : queue'[i] = queue'[j] => i = j
  BY <1>t, <1>2
<1>5. \A i \in 1 .. Len(queue') : "queued" \in work'[queue'[i]]
  BY <1>t, <1>2, <1>3
<1>6. \A other \in UiItem : "delayed" \in work'[other] => "queued" \notin work'[other]
  BY <1>3 DEF QueueInv
<1> QED
  BY <1>1, <1>3, <1>4, <1>5, <1>6 DEF QueueTypeOK, QueueInv

\* The LED's item joins a queue that does not hold it.
LEMMA AppendLed ==
    ASSUME NEW rest \in Seq(UiItem),
           \A i \in 1 .. Len(rest) : rest[i] # "led",
           \A i, j \in 1 .. Len(rest) : rest[i] = rest[j] => i = j
    PROVE  /\ \A i \in 1 .. Len(Append(rest, "led")) :
                  \/ i \in 1 .. Len(rest) /\ Append(rest, "led")[i] = rest[i]
                  \/ Append(rest, "led")[i] = "led"
           /\ \A i, j \in 1 .. Len(Append(rest, "led")) :
                  Append(rest, "led")[i] = Append(rest, "led")[j] => i = j
<1>1. "led" \in UiItem
  BY UiItems
<1> QED
  BY <1>1, AppendItem

\* A pattern is cancelled and another one queued, at the end of the button's
\* handler.
LEMMA Requeued ==
    ASSUME QueueTypeOK, QueueInv,
           work' = [button |-> Return(work["button"]), led |-> {"queued"}],
           queue' = Append(Without(queue, "led"), "led")
    PROVE  QueueTypeOK' /\ QueueInv'
<1>t. /\ queue \in Seq(UiItem) /\ work \in [UiItem -> SUBSET Flags]
      /\ \A i, j \in 1 .. Len(queue) : queue[i] = queue[j] => i = j
      /\ "led" \in UiItem /\ "button" \in UiItem
  BY UiItems DEF QueueTypeOK, QueueInv
<1> DEFINE rest == Without(queue, "led")
<1>1. /\ rest \in Seq(UiItem)
      /\ \A i \in 1 .. Len(rest) : /\ rest[i] # "led"
                                   /\ \E k \in 1 .. Len(queue) : rest[i] = queue[k]
      /\ \A i, j \in 1 .. Len(rest) : rest[i] = rest[j] => i = j
  BY <1>t, WithoutItem
<1>2. queue' = Append(rest, "led")
  OBVIOUS
<1> HIDE DEF rest
<1>r. rest \in Seq(UiItem) /\ \A i \in 1 .. Len(rest) : rest[i] # "led"
  BY <1>1
<1>3. /\ \A i \in 1 .. Len(queue') :
             \/ i \in 1 .. Len(rest) /\ queue'[i] = rest[i]
             \/ queue'[i] = "led"
      /\ \A i, j \in 1 .. Len(queue') : queue'[i] = queue'[j] => i = j
  BY ONLY <1>r, <1>1, <1>2, AppendLed
<1>4. /\ work'["button"] = Return(work["button"]) /\ work'["led"] = {"queued"}
      /\ Return(work["button"]) \in SUBSET Flags /\ {"queued"} \in SUBSET Flags
  BY <1>t, FlagOps DEF Flags
<1>5. work' \in [UiItem -> SUBSET Flags]
  BY <1>4, UiItems
<1>6. \A i \in 1 .. Len(rest) : rest[i] = "button" /\ "queued" \in work["button"]
  BY <1>t, <1>1, UiItems DEF QueueInv
<1>7. \A i \in 1 .. Len(queue') : "queued" \in work'[queue'[i]]
  BY <1>3, <1>4, <1>6 DEF Return
<1>8. \A item \in UiItem : "delayed" \in work'[item] => "queued" \notin work'[item]
  BY <1>t, <1>4, UiItems DEF QueueInv, Return
<1>9. queue' \in Seq(UiItem)
  BY ONLY <1>t, <1>r, <1>2
<1> QED
  BY <1>3, <1>5, <1>7, <1>8, <1>9 DEF QueueTypeOK, QueueInv

\* The steps of Next.
LEMMA UiSteps ==
    ASSUME [Next]_uiVars
    PROVE  \/ BootLowPower \/ BootGoesOn
           \/ \E mode \in PowerModes : DebugReply(mode)
           \/ \E t \in Thread : SwitchingGoesOn(t)
           \/ Press \/ HeldLong \/ Release
           \/ \E item \in UiItem : TimerExpires(item)
           \/ TakeButton \/ ClearButton \/ Toggle \/ IgnoreClick \/ BlinkPattern
           \/ TakeLed \/ BlinkStep
           \/ UNCHANGED uiVars
BY DEF Next, SystemWorkQueue, button_data_work_handler, led_work_handler,
       button_event_isr, Thread

LEMMA QueueStep ==
    ASSUME QueueTypeOK, QueueInv, [Next]_uiVars
    PROVE  QueueTypeOK' /\ QueueInv'
<1>t. /\ "led" \in UiItem /\ "button" \in UiItem
      /\ \A item \in UiItem : work[item] \in SUBSET Flags
  BY UiItems DEF QueueTypeOK
<1>1. CASE UNCHANGED workVars
  BY <1>1 DEF workVars, QueueTypeOK, QueueInv
<1>2. CASE Press \/ Release
  <2>1. PICK flags \in {Cancel(work["button"]), Schedule(Cancel(work["button"]))} :
            /\ work' = [work EXCEPT !["button"] = flags]
            /\ queue' = Without(queue, "button")
    BY <1>2 DEF Press, CancelButton, Release
  <2>2. flags \in SUBSET Flags /\ "queued" \notin flags
    BY <1>t, FlagOps DEF Cancel, Schedule
  <2> QED
    BY <1>t, <2>1, <2>2, Dequeued
<1>3. ASSUME NEW item \in UiItem, TimerExpires(item)
      PROVE  QueueTypeOK' /\ QueueInv'
  <2> DEFINE flags == Expire(work[item])
  <2>1. /\ "delayed" \in work[item] /\ "queued" \notin work[item]
        /\ work' = [work EXCEPT ![item] = flags]
        /\ queue' = IF "queued" \in flags THEN Append(queue, item) ELSE queue
    BY <1>3 DEF TimerExpires, QueueInv
  <2>2. flags \in SUBSET Flags /\ "delayed" \notin flags
    BY <1>t, FlagOps DEF Expire, Submit
  <2> HIDE DEF flags
  <2>3. CASE "queued" \in flags
    BY <2>1, <2>2, <2>3, Enqueued
  <2>4. CASE "queued" \notin flags
    BY <2>1, <2>2, <2>4, Reflagged
  <2> QED
    BY <2>3, <2>4
<1>4. CASE TakeButton \/ TakeLed
  BY <1>4, <1>t, Taken DEF TakeButton, TakeLed
<1>5. CASE IgnoreClick \/ BlinkStep
  <2>1. PICK item \in UiItem :
        \E flags \in {Return(work[item]), Return(Schedule(work[item]))} :
            /\ work' = [work EXCEPT ![item] = flags]
            /\ queue' = queue
    BY <1>5, <1>t DEF IgnoreClick, BlinkStep
  <2> PICK flags \in {Return(work[item]), Return(Schedule(work[item]))} :
            /\ work' = [work EXCEPT ![item] = flags]
            /\ queue' = queue
    BY <2>1
  <2>2. /\ flags \in SUBSET Flags
        /\ "queued" \in flags <=> "queued" \in work[item]
        /\ "delayed" \in flags => "queued" \notin flags
    <3>1. work[item] \in SUBSET Flags /\ ("delayed" \in work[item] => "queued" \notin work[item])
      BY <1>t DEF QueueInv
    <3>2. flags \in SUBSET Flags
      BY <3>1, FlagOps
    <3> QED
      BY <3>1, <3>2 DEF Return, Schedule, CanSchedule
  <2> QED
    BY <2>2, Reflagged
<1>6. CASE BlinkPattern
  BY <1>6, Requeued DEF BlinkPattern
<1>7. CASE \/ BootLowPower \/ BootGoesOn \/ \E mode \in PowerModes : DebugReply(mode)
           \/ \E t \in Thread : SwitchingGoesOn(t)
           \/ HeldLong \/ ClearButton \/ Toggle \/ UNCHANGED uiVars
  <2>1. UNCHANGED workVars
    BY <1>7 DEF BootLowPower, BootGoesOn, DebugReply, SwitchingGoesOn, HeldLong, ClearButton,
                Toggle, uiVars
  <2> QED
    BY <1>1, <2>1
<1> QED
  BY <1>2, <1>3, <1>4, <1>5, <1>6, <1>7, UiSteps

-----------------------------------------------------------------------------
(* The LED. *)

Blinks == [pattern : PowerModes \cup {"none"}, length : 0 .. 255, index : 0 .. 255]

LedTypeOK ==
    /\ blink \in Blinks
    /\ led \in BOOLEAN
    /\ flashes \in Nat
    /\ \E mode \in PowerModes : flashes <= Length[mode]

LEMMA Lengths ==
    /\ \A mode \in PowerModes : Length[mode] \in 1 .. 127
    /\ "none" \notin PowerModes /\ "Low" \in PowerModes /\ "High" \in PowerModes
BY LengthAssumption DEF LengthAssumption, Length, PowerModes

LEMMA BlinkFields ==
    ASSUME NEW b \in Blinks
    PROVE  b.pattern \in PowerModes \cup {"none"} /\ b.length \in 0 .. 255 /\ b.index \in 0 .. 255
BY DEF Blinks

LEMMA BlinkNone == NoPattern \in Blinks /\ NoPattern.pattern = "none"
BY DEF NoPattern, Blinks

LEMMA BlinkMoved ==
    ASSUME NEW b \in Blinks, NEW next, next = [b EXCEPT !.index = @ + 1], b.index + 1 \in 0 .. 255
    PROVE  /\ next \in Blinks
           /\ next.pattern = b.pattern /\ next.length = b.length /\ next.index = b.index + 1
BY DEF Blinks

\* Every other step of a pattern turns the LED on, and the first one does.
LEMMA BlinkOn ==
    ASSUME QueueTypeOK, LedTypeOK, BlinkInv, BlinkStep
    PROVE  /\ LedTypeOK' /\ BlinkInv'
           /\ blink.pattern # "none"
           /\ blink'.pattern = "none" => flashes' = Length[blink.pattern] /\ ~led'
<1> DEFINE length == Length[blink.pattern]
<1>1. /\ blink.pattern \in PowerModes /\ blink.pattern # "none"
      /\ work["led"] = {"running"}
      /\ length \in 1 .. 127 /\ length \in Nat
      /\ blink.index \in 0 .. 255 /\ blink.index \in Nat
      /\ blink.length = 2 * length /\ blink.index < 2 * length
      /\ flashes = (blink.index + 1) \div 2 /\ flashes \in Nat
      /\ blink \in Blinks
  <2>1. /\ sys = "led" /\ work["led"] = {"running"} /\ blink.pattern # "none"
        /\ blink \in Blinks /\ flashes \in Nat
    BY DEF BlinkStep, BlinkInv, LedTypeOK
  <2>2. /\ blink.length = 2 * length /\ blink.index < blink.length
        /\ flashes = (blink.index + 1) \div 2
    BY <2>1 DEF BlinkInv
  <2>3. blink.pattern \in PowerModes /\ blink.index \in 0 .. 255
    BY <2>1, BlinkFields
  <2>4. length \in 1 .. 127
    BY <2>3, Lengths
  <2> HIDE DEF length
  <2> QED
    BY <2>1, <2>2, <2>3, <2>4
<1> HIDE DEF length
<1>2. /\ flashes' = IF blink.index % 2 = 0 THEN flashes + 1 ELSE flashes
      /\ sys' = "idle"
  BY DEF BlinkStep
<1>3. /\ blink.index + 1 >= 2 * length => flashes' = length
      /\ blink.index + 1 < 2 * length => flashes' = (blink.index + 2) \div 2 /\ flashes' <= length
      /\ flashes' \in Nat
  <2> DEFINE index == blink.index
             count == flashes
             on == flashes'
  <2>1. /\ length \in Nat /\ index \in Nat /\ count \in Nat
        /\ index < 2 * length /\ count = (index + 1) \div 2
        /\ on = IF index % 2 = 0 THEN count + 1 ELSE count
    BY <1>1, <1>2
  <2> HIDE DEF index, count, on
  <2>2. /\ index + 1 >= 2 * length => on = length
        /\ index + 1 < 2 * length => on = (index + 2) \div 2 /\ on <= length
        /\ on \in Nat
    BY <2>1
  <2> QED
    BY <2>2 DEF index, on
<1>4. LedTypeOK' /\ BlinkInv'
      /\ (blink'.pattern = "none" => flashes' = length /\ ~led')
  <2>1. CASE blink.index + 1 >= blink.length
    <3>1. led' = FALSE /\ blink' = NoPattern /\ flashes' = length
      BY <1>1, <1>3, <2>1 DEF BlinkStep
    <3>2. work'["led"] = Return(work["led"])
      BY <2>1 DEF BlinkStep, QueueTypeOK, UiItem
    <3>3. blink' \in Blinks /\ blink'.pattern = "none"
      BY <3>1, BlinkNone
    <3>4. LedTypeOK'
      <4>1. flashes' \in Nat /\ flashes' <= Length[blink.pattern]
        BY <1>1, <3>1 DEF length
      <4> QED
        BY <1>1, <3>1, <3>3, <4>1 DEF LedTypeOK
    <3>5. work'["led"] = {}
      BY <1>1, <3>2 DEF Return
    <3> QED
      BY <1>2, <3>1, <3>3, <3>4, <3>5 DEF BlinkInv
  <2>2. CASE ~(blink.index + 1 >= blink.length)
    <3>1. /\ led' = (blink.index % 2 = 0)
          /\ blink' = [blink EXCEPT !.index = @ + 1]
      BY <2>2 DEF BlinkStep
    <3>2. blink.index + 1 \in 0 .. 255 /\ blink.index + 1 < 2 * length
      BY <1>1, <2>2
    <3>3. /\ blink' \in Blinks /\ blink'.pattern = blink.pattern
          /\ blink'.length = 2 * length /\ blink'.index = blink.index + 1
      BY <1>1, <3>1, <3>2, BlinkMoved
    <3>4. led' \in BOOLEAN
      BY <3>1
    <3>5. LedTypeOK'
      <4>1. flashes' \in Nat /\ flashes' <= Length[blink.pattern]
        BY <1>1, <1>3, <3>2 DEF length
      <4> QED
        BY <1>1, <3>3, <3>4, <4>1 DEF LedTypeOK
    <3>6. /\ blink'.index < blink'.length
          /\ flashes' = (blink'.index + 1) \div 2
      BY <1>1, <1>3, <3>2, <3>3
    <3>7. work'["led"] = Return(Schedule({"running"}))
      BY <1>1, <2>2 DEF BlinkStep, QueueTypeOK, UiItem
    <3>8. work'["led"] = {"delayed"}
      BY <3>7 DEF Return, Schedule, CanSchedule
    <3>9. BlinkInv'
      BY <1>1, <1>2, <3>3, <3>6, <3>8 DEF BlinkInv, length
    <3> QED
      BY <1>1, <3>3, <3>5, <3>9
  <2> QED
    BY <2>1, <2>2
<1> QED
  BY <1>1, <1>4 DEF length

\* The first step of a new pattern is queued.
LEMMA BlinkBegins ==
    ASSUME QueueTypeOK, LedTypeOK, BlinkInv, BlinkPattern
    PROVE  LedTypeOK' /\ BlinkInv' /\ blink'.pattern # "none"
<1> DEFINE mode == IF high_power THEN "High" ELSE "Low"
           length == Length[mode]
<1>1. mode \in PowerModes /\ length \in 1 .. 127
  BY Lengths
<1>2. /\ blink' = [pattern |-> mode, length |-> (2 * length) % 256, index |-> 0]
      /\ flashes' = 0 /\ led' = led /\ sys' = "idle"
      /\ work'["led"] = {"queued"}
  BY DEF BlinkPattern
<1>3. mode # "none"
  OBVIOUS
<1> HIDE DEF mode
<1>4. length \in Nat /\ length <= 127 /\ length >= 1 /\ 0 <= Length[mode]
  BY <1>1
<1> HIDE DEF length
<1>5. (2 * length) % 256 = 2 * length /\ 2 * length \in 0 .. 255 /\ 0 \in 0 .. 255
      /\ 0 < 2 * length /\ 0 = (0 + 1) \div 2
  BY <1>4
<1>6. blink' = [pattern |-> mode, length |-> 2 * length, index |-> 0]
  BY <1>2, <1>5
<1>7. /\ blink' \in Blinks /\ blink'.pattern = mode /\ blink'.length = 2 * length
      /\ blink'.index = 0
  <2>1. mode \in PowerModes \cup {"none"}
    BY <1>1
  <2>2. 2 * length \in 0 .. 255 /\ 0 \in 0 .. 255
    BY <1>5
  <2> DEFINE twice == 2 * length
  <2>3. twice \in 0 .. 255 /\ blink' = [pattern |-> mode, length |-> twice, index |-> 0]
    BY <1>6, <2>2
  <2> HIDE DEF twice
  <2>4. blink'.pattern = mode /\ blink'.length = twice /\ blink'.index = 0
    BY ONLY <2>3
  <2>5. blink' \in Blinks
    BY ONLY <2>1, <2>2, <2>3 DEF Blinks
  <2> QED
    BY <2>4, <2>5 DEF twice
<1>8. LedTypeOK'
  BY <1>1, <1>2, <1>4, <1>7 DEF LedTypeOK
<1>9. BlinkInv'
  BY <1>2, <1>3, <1>5, <1>7 DEF BlinkInv, length
<1> QED
  BY <1>3, <1>7, <1>8, <1>9

\* No other step touches the pattern.
LEMMA BlinkKept ==
    ASSUME LedTypeOK, BlinkInv, UNCHANGED ledVars,
           \/ work'["led"] = work["led"] /\ (sys' = sys \/ sys' # "led")
           \/ work["led"] = {"delayed"} /\ work'["led"] = {"queued"} /\ sys' = sys
           \/ work["led"] = {"queued"} /\ work'["led"] = {"running"}
    PROVE  LedTypeOK' /\ BlinkInv'
<1>1. LedTypeOK'
  BY DEF LedTypeOK, ledVars
<1>2. BlinkInv'
  BY DEF BlinkInv, ledVars
<1> QED
  BY <1>1, <1>2

LEMMA BlinkCases ==
    ASSUME QueueTypeOK, QueueInv, LedTypeOK, BlinkInv, [Next]_uiVars
    PROVE  \/ BlinkStep \/ BlinkPattern
           \/ LedTypeOK' /\ BlinkInv' /\ UNCHANGED ledVars
<1>t. "led" \in UiItem /\ "button" \in UiItem /\ "led" # "button"
      /\ work \in [UiItem -> SUBSET Flags]
  BY UiItems DEF QueueTypeOK
<1>1. CASE UNCHANGED ledVars /\ work'["led"] = work["led"] /\ (sys' = sys \/ sys' # "led")
  BY <1>1, BlinkKept
<1>2. CASE \/ BootLowPower \/ BootGoesOn \/ \E mode \in PowerModes : DebugReply(mode)
           \/ \E t \in Thread : SwitchingGoesOn(t)
           \/ HeldLong \/ ClearButton \/ Toggle \/ UNCHANGED uiVars
  <2>1. UNCHANGED workVars /\ UNCHANGED ledVars /\ (sys' = sys \/ sys' # "led")
    BY <1>2 DEF BootLowPower, BootGoesOn, DebugReply, SwitchingGoesOn, HeldLong, ClearButton,
                Toggle, uiVars
  <2> QED
    BY <1>1, <2>1 DEF workVars
<1>3. CASE Press \/ Release \/ TakeButton \/ IgnoreClick
  <2>1. UNCHANGED ledVars /\ (sys' = sys \/ sys' # "led")
    BY <1>3 DEF Press, Release, TakeButton, IgnoreClick
  <2>2. work'["led"] = work["led"]
    BY <1>3, <1>t DEF Press, CancelButton, Release, TakeButton, IgnoreClick
  <2> QED
    BY <1>1, <2>1, <2>2
<1>4. ASSUME NEW item \in UiItem, TimerExpires(item)
      PROVE  LedTypeOK' /\ BlinkInv' /\ UNCHANGED ledVars
  <2>1. /\ UNCHANGED ledVars /\ sys' = sys
        /\ "delayed" \in work[item] /\ work' = [work EXCEPT ![item] = Expire(work[item])]
    BY <1>4 DEF TimerExpires
  <2>2. CASE item = "led"
    <3>1. work["led"] = {"delayed"}
      BY <2>1, <2>2 DEF BlinkInv
    <3>2. work'["led"] = {"queued"}
      BY <1>t, <2>1, <2>2, <3>1 DEF Expire, Submit
    <3> QED
      BY <2>1, <3>1, <3>2, BlinkKept
  <2>3. CASE item # "led"
    <3>1. work'["led"] = work["led"]
      BY <1>t, <2>1, <2>3
    <3> QED
      BY <2>1, <3>1, BlinkKept
  <2> QED
    BY <2>2, <2>3
<1>5. CASE TakeLed
  <2>1. "queued" \in work["led"]
    BY <1>5, <1>t, Taken DEF TakeLed
  <2>2. work["led"] = {"queued"}
    BY <2>1 DEF BlinkInv
  <2>3. work'["led"] = {"running"} /\ UNCHANGED ledVars
    BY <1>5, <1>t, <2>2 DEF TakeLed, Run
  <2> QED
    BY <2>2, <2>3, BlinkKept
<1> QED
  BY <1>2, <1>3, <1>4, <1>5, UiSteps

LEMMA LedStep ==
    ASSUME QueueTypeOK, QueueInv, LedTypeOK, BlinkInv, [Next]_uiVars
    PROVE  LedTypeOK' /\ BlinkInv'
BY BlinkCases, BlinkOn, BlinkBegins

-----------------------------------------------------------------------------
(* The button. *)

ButtonData == [presses : 0 .. 255, last_action : ButtonAction,
               pressed_down_at : {"zero", "press"}]

ButtonTypeOK ==
    /\ isr_data \in ButtonData
    /\ copy \in ButtonData
    /\ unspent \in Int
    /\ held \in {"up", "short", "long"}
    /\ sys \in {"idle", "copied", "presses_clear", "time_clear", "clicked",
               "switching", "led"}

LEMMA NoPressData == NoPress \in ButtonData /\ NoPress.last_action = "Unknown"
BY DEF NoPress, ButtonData, ButtonAction

LEMMA PressedData ==
    ASSUME NEW d \in ButtonData, NEW next,
           next = [presses |-> (d.presses + 1) % 256,
                   last_action |-> "Unknown", pressed_down_at |-> "press"]
    PROVE  next \in ButtonData /\ next.last_action = "Unknown"
<1>1. d.presses \in 0 .. 255
  BY DEF ButtonData
<1>2. (d.presses + 1) % 256 \in 0 .. 255
  BY <1>1
<1> QED
  BY <1>2 DEF ButtonData, ButtonAction

LEMMA ReleasedData ==
    ASSUME NEW d \in ButtonData, NEW next, NEW action \in {"ShortPress", "LongPress"},
           next = [d EXCEPT !.last_action = action, !.pressed_down_at = "press"]
    PROVE  next \in ButtonData /\ next.last_action = action
BY DEF ButtonData, ButtonAction

\* The stores that clear the data, one by one.
LEMMA ClearedData ==
    ASSUME NEW d \in ButtonData, NEW next
    PROVE  /\ next = [d EXCEPT !.presses = 0]
                  => next \in ButtonData /\ next.last_action = d.last_action
           /\ next = [d EXCEPT !.pressed_down_at = "zero"]
                  => next \in ButtonData /\ next.last_action = d.last_action
           /\ next = [d EXCEPT !.last_action = "Unknown"]
                  => next \in ButtonData /\ next.last_action = "Unknown"
<1>1. 0 \in 0 .. 255
  OBVIOUS
<1> QED
  BY <1>1 DEF ButtonData, ButtonAction

LEMMA ButtonPressed ==
    ASSUME ButtonTypeOK, ClickInv, Press
    PROVE  ButtonTypeOK' /\ ClickInv'
<1>1. isr_data' \in ButtonData /\ isr_data'.last_action = "Unknown"
  BY PressedData DEF Press, ButtonTypeOK
<1>2. held' = "short" /\ UNCHANGED <<copy, unspent, sys>>
  BY DEF Press
<1>3. ButtonTypeOK'
  BY <1>1, <1>2 DEF ButtonTypeOK
<1>4. ClickInv'
  BY <1>1, <1>2 DEF ClickInv, Owed, ButtonTypeOK
<1> QED
  BY <1>3, <1>4

LEMMA ButtonReleased ==
    ASSUME ButtonTypeOK, ClickInv, Release
    PROVE  ButtonTypeOK' /\ ClickInv'
<1> PICK action \in {"ShortPress", "LongPress"} :
        /\ isr_data' = [isr_data EXCEPT !.last_action = action, !.pressed_down_at = "press"]
        /\ action = "ShortPress" => held = "short"
  BY DEF Release
<1>1. isr_data' \in ButtonData /\ isr_data'.last_action = action
  BY ReleasedData DEF ButtonTypeOK
<1>2. /\ held # "up" /\ held' = "up" /\ UNCHANGED <<copy, sys>>
      /\ unspent' = IF held = "short" THEN unspent + 1 ELSE unspent
  BY DEF Release
<1>3. isr_data.last_action = "Unknown" /\ unspent \in Int
  BY <1>2 DEF ClickInv, ButtonTypeOK
<1>4. ButtonTypeOK'
  BY <1>1, <1>2, <1>3 DEF ButtonTypeOK
<1>5. ClickInv'
  BY <1>1, <1>2, <1>3 DEF ClickInv, Owed
<1> QED
  BY <1>4, <1>5

\* The handler copies the data, clears it, and acts on the copy.
LEMMA ButtonHandled ==
    ASSUME ButtonTypeOK, ClickInv, TakeButton \/ ClearButton \/ Toggle \/ IgnoreClick
    PROVE  ButtonTypeOK' /\ ClickInv'
<1>1. CASE TakeButton
  BY <1>1 DEF TakeButton, inputVars, ButtonTypeOK, ClickInv, Owed, Clearing
<1>2. CASE ClearButton
  <2>1. /\ UNCHANGED <<held, copy, unspent>>
        /\ sys \in Clearing /\ sys' \in Clearing \cup {"clicked"}
        /\ sys' = "clicked" => sys = "time_clear"
    BY <1>2 DEF ClearButton, Clearing
  <2>2. /\ isr_data' \in ButtonData
        /\ isr_data'.last_action = IF sys = "time_clear" THEN "Unknown"
                                                       ELSE isr_data.last_action
    BY <1>2, ClearedData DEF ClearButton, ButtonTypeOK
  <2> QED
    BY <2>1, <2>2 DEF ButtonTypeOK, ClickInv, Owed, Clearing
<1>3. CASE Toggle
  <2>1. /\ sys = "clicked" /\ sys' = "switching" /\ copy.last_action = "ShortPress"
        /\ unspent' = unspent - 1 /\ UNCHANGED <<held, isr_data, copy>>
    BY <1>3 DEF Toggle, inputVars
  <2> QED
    BY <2>1 DEF ButtonTypeOK, ClickInv, Owed, Clearing
<1>4. CASE IgnoreClick
  <2>1. copy' \in ButtonData
    BY <1>4, NoPressData DEF IgnoreClick
  <2>2. sys = "clicked" /\ sys' = "idle" /\ UNCHANGED <<held, isr_data, unspent>>
    BY <1>4 DEF IgnoreClick, inputVars
  <2> QED
    BY <2>1, <2>2 DEF ButtonTypeOK, ClickInv, Owed, Clearing
<1> QED
  BY <1>1, <1>2, <1>3, <1>4

LEMMA ButtonStep ==
    ASSUME ButtonTypeOK, ClickInv, [Next]_uiVars
    PROVE  ButtonTypeOK' /\ ClickInv'
<1>1. CASE UNCHANGED <<held, isr_data, copy, unspent, sys>>
  BY <1>1 DEF ButtonTypeOK, ClickInv
<1>2. CASE \/ BootLowPower \/ BootGoesOn \/ \E mode \in PowerModes : DebugReply(mode)
           \/ \E t \in Thread : SwitchingGoesOn(t)
           \/ \E item \in UiItem : TimerExpires(item)
           \/ UNCHANGED uiVars
  <2>1. UNCHANGED <<held, isr_data, copy, unspent, sys>>
    BY <1>2 DEF BootLowPower, BootGoesOn, DebugReply, SwitchingGoesOn, TimerExpires,
                inputVars, uiVars
  <2> QED
    BY <1>1, <2>1
<1>3. CASE HeldLong
  BY <1>3 DEF HeldLong, ButtonTypeOK, ClickInv
<1>4. CASE BlinkPattern
  <2>1. copy' \in ButtonData
    BY <1>4, NoPressData DEF BlinkPattern
  <2>2. sys = "switching" /\ sys' = "idle" /\ UNCHANGED <<held, isr_data, unspent>>
    BY <1>4 DEF BlinkPattern, inputVars
  <2> QED
    BY <2>1, <2>2 DEF ButtonTypeOK, ClickInv, Owed, Clearing
<1>5. CASE TakeLed \/ BlinkStep
  <2>1. /\ sys \in {"idle", "led"} /\ sys' \in {"idle", "led"}
        /\ UNCHANGED <<held, isr_data, copy, unspent>>
    BY <1>5 DEF TakeLed, BlinkStep, inputVars
  <2> QED
    BY <2>1 DEF ButtonTypeOK, ClickInv, Owed, Clearing
<1> QED
  BY <1>2, <1>3, <1>4, <1>5, ButtonPressed, ButtonReleased, ButtonHandled, UiSteps

-----------------------------------------------------------------------------
(* The whole. *)

\* The three threads' calls.
LEMMA CallsStep ==
    ASSUME PowerTypeOK, SupplyInv, CallInv, [Next]_uiVars
    PROVE  PowerTypeOK' /\ SupplyInv' /\ CallInv'
<1>1. /\ "main" \in Thread /\ "system" \in Thread /\ "network" \in Thread
      /\ "Low" \in PowerModes /\ "High" \in PowerModes
  BY DEF Thread, PowerModes
<1>2. ASSUME NEW t \in Thread, NEW mode \in PowerModes, set_power_mode(t, mode)
      PROVE  PowerTypeOK' /\ SupplyInv' /\ CallInv'
  <2>1. SupplyInv'
    BY <1>2 DEF set_power_mode, deviceVars, SupplyInv
  <2> QED
    BY <1>2, <2>1, SwitchTypes, CallBegins
<1>3. ASSUME NEW t \in Thread, PowerStep(t)
      PROVE  PowerTypeOK' /\ SupplyInv' /\ CallInv'
  BY <1>3, StepTypes, SupplyStep, CallStep
<1>4. CASE UNCHANGED powerVars
  BY <1>4 DEF powerVars, deviceVars, callVars, PowerTypeOK, SupplyInv, CallInv, Progress,
              WholeMode, Outside
<1>5. CASE BootLowPower \/ \E mode \in PowerModes : DebugReply(mode)
  BY <1>1, <1>2, <1>5 DEF BootLowPower, DebugReply
<1>6. CASE Toggle
  BY <1>1, <1>2, <1>6 DEF Toggle
<1>7. CASE \E t \in Thread : SwitchingGoesOn(t)
  BY <1>3, <1>7 DEF SwitchingGoesOn
<1>8. CASE \/ BootGoesOn \/ Press \/ HeldLong \/ Release
           \/ \E item \in UiItem : TimerExpires(item)
           \/ TakeButton \/ ClearButton \/ IgnoreClick \/ BlinkPattern
           \/ TakeLed \/ BlinkStep \/ UNCHANGED uiVars
  <2>1. UNCHANGED powerVars
    BY <1>8 DEF BootGoesOn, Press, HeldLong, Release, TimerExpires, TakeButton, ClearButton,
                IgnoreClick, BlinkPattern, TakeLed, BlinkStep, uiVars
  <2> QED
    BY <1>4, <2>1
<1> QED
  BY <1>5, <1>6, <1>7, <1>8, UiSteps

\* What remains of TypeOK.
CountTypeOK ==
    /\ boot \in {"before", "switching", "after"}
    /\ replies \in 0 .. MaxReplies
    /\ pressed \in 0 .. MaxPresses
    /\ high_power \in BOOLEAN

LEMMA CountStep == CountTypeOK /\ [Next]_uiVars => CountTypeOK'
<1> SUFFICES ASSUME CountTypeOK, [Next]_uiVars
             PROVE  CountTypeOK'
  OBVIOUS
<1> USE BoundsAssumption DEF BoundsAssumption, CountTypeOK
<1>1. CASE BootLowPower \/ BootGoesOn
  BY <1>1 DEF BootLowPower, BootGoesOn, inputVars
<1>2. CASE \E mode \in PowerModes : DebugReply(mode)
  BY <1>2 DEF DebugReply, inputVars
<1>3. CASE Press
  BY <1>3 DEF Press, otherVars
<1>4. CASE Toggle
  BY <1>4 DEF Toggle, otherVars, inputVars
<1>5. CASE \/ HeldLong \/ Release
           \/ \E t \in Thread : SwitchingGoesOn(t)
           \/ \E item \in UiItem : TimerExpires(item)
           \/ TakeButton \/ ClearButton \/ IgnoreClick \/ BlinkPattern
           \/ TakeLed \/ BlinkStep \/ UNCHANGED uiVars
  BY <1>5 DEF HeldLong, Release, SwitchingGoesOn, TimerExpires, TakeButton, ClearButton,
              IgnoreClick, BlinkPattern, TakeLed, BlinkStep, uiVars, otherVars, inputVars
<1> QED
  BY <1>1, <1>2, <1>3, <1>4, <1>5, UiSteps

LEMMA TypeParts ==
    TypeOK <=> PowerTypeOK /\ CountTypeOK /\ ButtonTypeOK /\ QueueTypeOK /\ LedTypeOK
BY DEF TypeOK, CountTypeOK, ButtonTypeOK, ButtonData, QueueTypeOK, LedTypeOK, Blinks

IInv ==
    /\ PowerTypeOK /\ CountTypeOK /\ ButtonTypeOK /\ QueueTypeOK /\ LedTypeOK
    /\ SupplyInv /\ CallInv /\ QueueInv /\ BlinkInv /\ ClickInv

LEMMA InvInit == device_ui_init => IInv
<1> SUFFICES ASSUME device_ui_init
             PROVE  IInv
  OBVIOUS
<1>1. PowerTypeOK
  <2>1. /\ rp2040 \in BOOLEAN /\ buck2_refcnt \in Int /\ pulldown \in BOOLEAN
        /\ uart \in BOOLEAN /\ accelerometer \in BOOLEAN /\ nor \in BOOLEAN
        /\ in_step \in BOOLEAN /\ settled \in PowerModes \cup {"unknown"}
    <3>1. settled \in PowerModes \cup {"unknown"}
      BY DEF device_ui_init, PowerInit, PowerModes
    <3>2. buck2_refcnt \in Int
      BY DEF device_ui_init, PowerInit
    <3> QED
      BY <3>1, <3>2, Zenon DEF device_ui_init, PowerInit
  <2>2. at \in [Thread -> LowSteps \cup HighSteps \cup {"outside"}]
    BY DEF device_ui_init, PowerInit
  <2>3. rc_ok \in [Thread -> BOOLEAN] /\ alone \in [Thread -> BOOLEAN]
    BY DEF device_ui_init, PowerInit
  <2> QED
    BY <2>1, <2>2, <2>3 DEF PowerTypeOK
<1>2. SupplyInv /\ CallInv
  <2>1. SupplyInv
    BY DEF device_ui_init, PowerInit, SupplyInv
  <2>2. CallInv
    BY DEF device_ui_init, PowerInit, CallInv, Outside, WholeMode
  <2> QED
    BY <2>1, <2>2
<1>3. CountTypeOK
  BY BoundsAssumption DEF BoundsAssumption, device_ui_init, CountTypeOK
<1>4. ButtonTypeOK /\ ClickInv
  BY NoPressData DEF device_ui_init, ButtonTypeOK, ClickInv, Owed, Clearing
<1>5. QueueTypeOK /\ QueueInv
  <2>1. queue = <<>> /\ \A item \in UiItem : work[item] = {}
    BY DEF device_ui_init
  <2>2. work \in [UiItem -> SUBSET Flags]
    BY DEF device_ui_init
  <2>3. queue \in Seq(UiItem) /\ Len(queue) = 0
    BY <2>1
  <2> QED
    BY <2>1, <2>2, <2>3 DEF QueueTypeOK, QueueInv
<1>6. LedTypeOK
  <2>1. flashes = 0 /\ 0 <= Length["Low"] /\ "Low" \in PowerModes
    <3>1. "Low" \in PowerModes /\ Length["Low"] \in 1 .. 127
      BY Lengths
    <3>2. flashes = 0
      BY DEF device_ui_init
    <3> QED
      BY <3>1, <3>2
  <2>2. led = FALSE /\ blink = NoPattern
    BY Zenon DEF device_ui_init
  <2> QED
    BY <2>1, <2>2, BlinkNone DEF LedTypeOK
<1>7. BlinkInv
  BY BlinkNone, UiItems DEF device_ui_init, BlinkInv
<1> QED
  BY <1>1, <1>2, <1>3, <1>4, <1>5, <1>6, <1>7 DEF IInv

LEMMA InvStep == IInv /\ [Next]_uiVars => IInv'
BY CallsStep, CountStep, ButtonStep, QueueStep, LedStep DEF IInv

LEMMA Invariance == Spec => []IInv
BY InvInit, InvStep, PTL DEF Spec

\* The state stays within its types, the arithmetic of uint8_t included.
THEOREM TypeCorrect == Spec => []TypeOK
<1>1. IInv => TypeOK
  BY TypeParts DEF IInv
<1> QED
  BY Invariance, <1>1, PTL

\* After a call of set_power_mode() that returned 0 and overlapped no other
\* (low_power.cpp and pmic.cpp): of Low, the console, the accelerometer and the
\* flash are off; of High, the console is on and the pulldown off; and the RP2040's
\* supply has followed exactly if the regulator's count, which failed or
\* overlapping calls may have put out of step, was at most 1 when that Low began,
\* at least 0 when that High began.  It promises neither the pulldown after Low
\* nor the accelerometer and the flash after High.
THEOREM ModeIsWhole == Spec => []WholeMode
<1>1. IInv => WholeMode
  BY DEF IInv, CallInv
<1> QED
  BY Invariance, <1>1, PTL

\* For each toggle of the mode there was a short press, although the handler of
\* the button reads and clears its data while the interrupt writes it
\* (device_ui.cpp, button_event_isr and button_data_work_handler).
THEOREM ToggleHasClick == Spec => []TogglesAreClicks
<1>1. IInv => TogglesAreClicks
  BY DEF IInv, ClickInv, ButtonTypeOK, Owed, Clearing, TogglesAreClicks
<1> QED
  BY Invariance, <1>1, PTL

\* A step of the LED finds a pattern and an index in it, although a click may
\* start a new pattern at any step of the old one (device_ui.cpp, blink_pattern
\* and led_work_handler).
THEOREM BlinksInBounds == Spec => []PatternInBounds
<1>1. IInv => PatternInBounds
  BY DEF IInv, BlinkInv, PatternInBounds
<1> QED
  BY Invariance, <1>1, PTL

\* A pattern that ends has turned the LED on as often as its length says, and
\* leaves it off (device_ui.h and device_ui.cpp, led_work_handler).
THEOREM FlashesAreCounted == Spec => FlashesCounted
<1> DEFINE Counted == blink.pattern # "none" /\ blink'.pattern = "none"
                         => flashes' = Length[blink.pattern] /\ ~led'
<1>1. IInv /\ [Next]_uiVars => [Counted]_uiVars
  <2> SUFFICES ASSUME IInv, [Next]_uiVars
               PROVE  Counted
    OBVIOUS
  <2>1. QueueTypeOK /\ QueueInv /\ LedTypeOK /\ BlinkInv
    BY DEF IInv
  <2>2. CASE BlinkStep
    BY <2>1, <2>2, BlinkOn
  <2>3. CASE BlinkPattern
    BY <2>1, <2>3, BlinkBegins
  <2>4. CASE UNCHANGED ledVars
    BY <2>4 DEF ledVars
  <2> QED
    BY <2>1, <2>2, <2>3, <2>4, BlinkCases
<1> HIDE DEF Counted
<1>2. [][Counted]_uiVars => FlashesCounted
  BY DEF FlashesCounted, Counted
<1> QED
  BY InvInit, InvStep, <1>1, <1>2, PTL DEF Spec

=============================================================================
