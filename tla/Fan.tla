-------------------------------- MODULE Fan --------------------------------
(***************************************************************************)
(* The control of the fan (fan.c) and the supervision of the MODBUS master *)
(* (modbus.c), over the millisecond counter (sys_timer.c).                 *)
(*                                                                         *)
(* The main loop calls do_fan, do_cli and do_modbus in this order.  do_fan *)
(* moves the duty cycle by one towards the request of the master, or       *)
(* towards a preconfigured one when no valid frame has been executed for   *)
(* the dead time.  The counter wraps, and it ticks between any two steps;  *)
(* a pass of the main loop takes at most MaxPass ticks, a longer one is    *)
(* ended by the hardware watchdog.                                         *)
(***************************************************************************)
EXTENDS Integers

CONSTANTS
  Settings,    \* the contents of the holding registers, see Setting
  Wrap,        \* the values of jiffies (2^32)
  Byte,        \* the values of a uint8_t
  Full,        \* duty cycle of a fan at full speed (100)
  InitialDuty, \* CFG_PWM_INITIAL_VALUE
  PwmTick,     \* ticks between two adjustments, for each unit of delay (100)
  DeadTick,    \* ticks of the dead time, for each unit of it (1000)
  MaxPass,     \* bound: ticks during a pass of the main loop
  Horizon      \* bound: the history variables count so many ticks

Setting == [unit : 0 .. 1, request : Nat, preconfig : Nat, min : Nat, max : Nat,
            delay : Nat, dead : Nat, frequency : Nat]

ASSUME FanAssumption ==
  /\ Settings \subseteq Setting
  /\ {Wrap, Byte, Full, PwmTick, DeadTick} \subseteq Nat \ {0}
  /\ Full < Byte - 1 /\ InitialDuty \in 0 .. Full /\ MaxPass \in Nat /\ Horizon \in Nat

VARIABLES
  jiffies, last_pwm_adjust, last_modbus_watchdog_period,
  regs,                    \* the holding registers
  modbus_watchdog_triggered,
  frame,                   \* a valid frame waits to be executed (frame_len # 0)
  pwm_to_fan,              \* also current_pwm, which is set from it
  compare,                 \* the duty cycle that the timer generates
  pwm_frequency, converter_off,
  pc,                      \* "fan", "adjust", "frequency", "cli", "modbus", "trigger", "parse"
  passed,                  \* ticks in this pass of the main loop
  silent,                  \* history: ticks since the last valid frame came
  silence,                 \* history: the dead time was over when the watchdog triggered
  sinceAdjust              \* history: ticks since the last adjustment
registers == <<regs, frame>>
output == <<pwm_to_fan, compare, pwm_frequency, converter_off>>
supervision == <<last_modbus_watchdog_period, modbus_watchdog_triggered, silence>>
clock == <<jiffies, passed, silent, sinceAdjust>>
vars == <<clock, last_pwm_adjust, registers, output, supervision, pc>>

TypeOK ==
  /\ jiffies \in 0 .. Wrap - 1 /\ last_pwm_adjust \in 0 .. Wrap - 1
  /\ last_modbus_watchdog_period \in 0 .. Wrap - 1
  /\ regs \in Settings /\ modbus_watchdog_triggered \in BOOLEAN /\ frame \in BOOLEAN
  /\ pwm_to_fan \in 0 .. Full      \* it selects a register of the fan curve, too
  /\ compare \in 0 .. Full /\ pwm_frequency \in 0 .. Byte - 1 /\ converter_off \in BOOLEAN
  /\ pc \in {"fan", "adjust", "frequency", "cli", "modbus", "trigger", "parse"}
  /\ passed \in 0 .. MaxPass /\ silent \in 0 .. Horizon /\ sinceAdjust \in 0 .. Horizon
  /\ silence \in BOOLEAN

Init ==
  /\ jiffies = 0 /\ last_pwm_adjust = 0 /\ last_modbus_watchdog_period = 0
  /\ regs \in Settings /\ modbus_watchdog_triggered = FALSE /\ frame = FALSE
  /\ pwm_to_fan = InitialDuty /\ compare = Full - InitialDuty
  /\ pwm_frequency = regs.frequency % Byte /\ converter_off = FALSE
  /\ pc = "fan" /\ passed = 0 /\ silent = 0 /\ silence = FALSE /\ sinceAdjust = 0
-----------------------------------------------------------------------------
(* Interrupts.                                                              *)

Later(n) == IF n < Horizon THEN n + 1 ELSE n

SysTick_Handler ==
  /\ passed < MaxPass /\ passed' = passed + 1
  /\ jiffies' = (jiffies + 1) % Wrap
  /\ silent' = Later(silent) /\ sinceAdjust' = Later(sinceAdjust)
  /\ UNCHANGED <<last_pwm_adjust, registers, output, supervision, pc>>

(* A valid frame for this slave is complete.                                *)
FrameComes ==
  /\ ~frame /\ frame' = TRUE /\ silent' = 0
  /\ UNCHANGED <<jiffies, passed, sinceAdjust, last_pwm_adjust, regs, output, supervision, pc>>
-----------------------------------------------------------------------------
(* do_fan                                                                   *)

(* Mutant: the difference is signed.                                        *)
ElapsedSigned(since) == jiffies - since
Elapsed(since) == (jiffies - since) % Wrap
AdjustPeriod == PwmTick * (1 + regs.delay)
DeadTime == DeadTick * (1 + regs.dead)

TestAdjust ==
  /\ pc = "fan"
  /\ pc' = IF Elapsed(last_pwm_adjust) >= AdjustPeriod THEN "adjust" ELSE "frequency"
  /\ UNCHANGED <<clock, last_pwm_adjust, registers, output, supervision>>

(* The duty cycle that set_pwm aims at; it is computed in a byte.           *)
Requested == (IF modbus_watchdog_triggered THEN regs.preconfig ELSE regs.request) % Byte
AtLeastMin == IF Requested < regs.min THEN regs.min % Byte ELSE Requested
AtMostMax == IF AtLeastMin > regs.max THEN regs.max % Byte ELSE AtLeastMin
Target == IF regs.unit = 0 THEN 0 ELSE AtMostMax

Capped(duty) == IF duty > Full THEN Full ELSE duty
(* Mutant: the second test takes in the target itself.                      *)
MovedTwice(duty, target) ==
  LET up == IF duty < target THEN duty + 1 ELSE duty
  IN  IF up >= target /\ up > 0 THEN up - 1 ELSE up
Moved(duty, target) ==
  LET up == IF duty < target THEN duty + 1 ELSE duty
  IN  IF up > target THEN up - 1 ELSE up

Adjust ==
  /\ pc = "adjust" /\ pc' = "frequency"
  /\ last_pwm_adjust' = jiffies /\ sinceAdjust' = 0
  /\ pwm_to_fan' = Capped(Moved(pwm_to_fan, Target))
  /\ compare' = Full - pwm_to_fan'
  /\ converter_off' = (regs.unit = 0)
  /\ UNCHANGED <<jiffies, passed, silent, registers, pwm_frequency, supervision>>

(* A new frequency resets the timer, which starts with the initial duty.    *)
SetFrequency ==
  /\ pc = "frequency" /\ pc' = "cli"
  /\ IF regs.frequency % Byte # pwm_frequency
     THEN pwm_frequency' = regs.frequency % Byte /\ compare' = Full - InitialDuty
     ELSE UNCHANGED <<pwm_frequency, compare>>
  /\ UNCHANGED <<clock, last_pwm_adjust, registers, pwm_to_fan, converter_off, supervision>>
-----------------------------------------------------------------------------
(* The console may write the holding registers.                             *)
do_cli ==
  /\ pc = "cli" /\ pc' = "modbus"
  /\ regs' \in Settings
  /\ UNCHANGED <<clock, last_pwm_adjust, frame, output, supervision>>
-----------------------------------------------------------------------------
(* do_modbus: the dead time is tested first, then a waiting frame executed. *)

TestDeadTime ==
  /\ pc = "modbus"
  /\ pc' = IF Elapsed(last_modbus_watchdog_period) >= DeadTime THEN "trigger" ELSE "parse"
  /\ UNCHANGED <<clock, last_pwm_adjust, registers, output, supervision>>

(* Mutant: after a time-out the pass ends without a look at the frame.      *)
TriggerAndReturn ==
  /\ pc = "trigger" /\ pc' = "fan" /\ passed' = 0
  /\ last_modbus_watchdog_period' = jiffies /\ modbus_watchdog_triggered' = TRUE
  /\ silence' = (silent >= DeadTime)
  /\ UNCHANGED <<jiffies, silent, sinceAdjust, last_pwm_adjust, registers, output>>
Trigger ==
  /\ pc = "trigger" /\ pc' = "parse"
  /\ last_modbus_watchdog_period' = jiffies /\ modbus_watchdog_triggered' = TRUE
  /\ silence' = (silent >= DeadTime)
  /\ UNCHANGED <<clock, last_pwm_adjust, registers, output>>

(* Mutant: every call counts as a frame.                                    *)
ParseAlways ==
  /\ pc = "parse" /\ pc' = "fan" /\ passed' = 0
  /\ modbus_watchdog_triggered' = FALSE /\ last_modbus_watchdog_period' = jiffies
  /\ regs' \in Settings /\ frame' = FALSE
  /\ UNCHANGED <<jiffies, silent, sinceAdjust, last_pwm_adjust, output, silence>>
(* The pass ends with do_alarms and do_led (Indicators).                    *)
ParseFrame ==
  /\ pc = "parse" /\ pc' = "fan" /\ passed' = 0
  /\ IF frame
     THEN /\ modbus_watchdog_triggered' = FALSE
          /\ last_modbus_watchdog_period' = jiffies
          /\ regs' \in Settings /\ frame' = FALSE
     ELSE UNCHANGED <<modbus_watchdog_triggered, last_modbus_watchdog_period, registers>>
  /\ UNCHANGED <<jiffies, silent, sinceAdjust, last_pwm_adjust, output, silence>>
-----------------------------------------------------------------------------
do_fan == TestAdjust \/ Adjust \/ SetFrequency
do_modbus == TestDeadTime \/ Trigger \/ ParseFrame
MainLoop == do_fan \/ do_cli \/ do_modbus

Next == SysTick_Handler \/ FrameComes \/ MainLoop
Spec == Init /\ [][Next]_vars

(* The main loop runs on, and time passes.                                  *)
FairSpec == Spec /\ WF_vars(MainLoop) /\ SF_vars(SysTick_Handler)
-----------------------------------------------------------------------------
(* Properties *)

(* The fan follows the preconfigured duty only after a whole dead time      *)
(* without a valid frame, although the dead time is tested while a frame    *)
(* may already wait to be executed (modbus.c:572-590, main.c:83-97).        *)
FallbackOnlyAfterSilence == pc = "adjust" /\ modbus_watchdog_triggered => silence

(* ... and it does so at the latest three passes after the dead time.       *)
FallbackInTime ==
  pc = "fan" /\ ~modbus_watchdog_triggered => silent < DeadTime + 3 * MaxPass

(* Adjustments keep their period, also when the counter wraps: never early, *)
(* and late by a pass of the main loop only (fan.c:217-221).                *)
AdjustKeepsPeriod ==
  /\ pc = "adjust" => sinceAdjust >= AdjustPeriod
  /\ pc = "frequency" => sinceAdjust < AdjustPeriod + MaxPass

(* While the registers stay as they are, and the watchdog as it is, the fan *)
(* comes to its duty and stays there, and the timer generates it; the duty  *)
(* does not swing around the target (fan.c:76-93), and the initial duty     *)
(* after a change of the frequency is left again (fan.c:244-250).           *)
FanSettles ==
  \A s \in Settings : \A w \in BOOLEAN :
    <>[](regs = s /\ modbus_watchdog_triggered = w) =>
      <>[](/\ pwm_to_fan = Capped(Target) /\ compare = Full - pwm_to_fan
           /\ converter_off = (s.unit = 0))
=============================================================================
