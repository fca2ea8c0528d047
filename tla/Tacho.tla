-------------------------------- MODULE Tacho --------------------------------
(***************************************************************************)
(* The measurement of the speed (fan.c).  The main loop starts one every   *)
(* two seconds: it clears the counter of the pulses, starts a timer of one *)
(* second and registers the interrupt that counts.  The interrupt of the   *)
(* timer ends the measurement, computes the speed and writes the deviation *)
(* to an input register; the main loop publishes the speed once a second.  *)
(*                                                                         *)
(* A pulse may come between any two steps.  The interrupt of the timer     *)
(* comes within a tick: critical sections are shorter than that.           *)
(***************************************************************************)
EXTENDS Integers

CONSTANTS
  Window,       \* ticks of a measurement (CFG_TACHO_MODULE, 31250 of its cycles)
  Period,       \* ticks between two measurements
  SyncPeriod,   \* ticks between two publications
  Pulses,       \* contents of HOLD_REG__PULSES_PER_REVOLUTION, as bytes
  Curves,       \* contents of the register of the fan curve for this duty
  PerMinute,    \* 60
  MaxPulses     \* bound: pulses in a second

TachoAssumption ==
  /\ {Window, Period, SyncPeriod, PerMinute} \subseteq Nat \ {0}
  /\ 2 < Window /\ Window < Period    \* get_fan_speed is over before the timer matches
  /\ Pulses \subseteq Nat /\ Curves \subseteq Nat \ {0} /\ MaxPulses \in Nat

VARIABLES
  cnt_tacho_1, fantacho1,
  registered,         \* the counting interrupt is registered
  timer,              \* ticks until the timer matches, 0 when it stands
  due, sync,          \* ticks until do_fan measures, publishes
  pc,                 \* "idle", "clear", "start", "enable"
  pulses_per_rotation, curve,           \* holding registers
  FAN_CURRENT_SPEED, RPM_DEVIATION,     \* input registers
  stalled,            \* the fan has stopped for good
  inWindow, early     \* history: pulses since the timer was started, and
                      \* those of them that came before the registration
registers == <<pulses_per_rotation, curve>>
published == <<FAN_CURRENT_SPEED, RPM_DEVIATION>>
history == <<inWindow, early>>
vars == <<cnt_tacho_1, fantacho1, registered, timer, due, sync, pc, registers, published, stalled, history>>

Speeds == {n * k : n \in 0 .. MaxPulses, k \in 0 .. PerMinute}
TypeOK ==
  /\ cnt_tacho_1 \in 0 .. MaxPulses /\ fantacho1 \in Speeds
  /\ registered \in BOOLEAN /\ timer \in 0 .. Window
  /\ due \in 0 .. Period /\ sync \in 0 .. SyncPeriod
  /\ pc \in {"idle", "clear", "start", "enable"}
  /\ pulses_per_rotation \in Pulses /\ curve \in Curves
  /\ FAN_CURRENT_SPEED \in Speeds /\ RPM_DEVIATION \in Nat /\ stalled \in BOOLEAN
  /\ inWindow \in 0 .. MaxPulses /\ early \in 0 .. inWindow

Init ==
  /\ cnt_tacho_1 = 0 /\ fantacho1 = 0 /\ registered = FALSE /\ timer = 0
  /\ due = Period /\ sync = SyncPeriod /\ pc = "idle"
  /\ pulses_per_rotation \in Pulses /\ curve \in Curves
  /\ FAN_CURRENT_SPEED = 0 /\ RPM_DEVIATION = 0 /\ stalled = FALSE
  /\ inWindow = 0 /\ early = 0
-----------------------------------------------------------------------------
(* The fan and the time.                                                    *)

(* A rising edge: EIC_Handler calls what is registered.                     *)
Pulse ==
  /\ ~stalled /\ inWindow < MaxPulses
  /\ cnt_tacho_1' = cnt_tacho_1 + (IF registered THEN 1 ELSE 0)
  /\ inWindow' = inWindow + 1
  /\ early' = early + (IF registered THEN 0 ELSE 1)
  /\ UNCHANGED <<fantacho1, registered, timer, due, sync, pc, registers, published, stalled>>

Stall ==
  /\ ~stalled /\ stalled' = TRUE
  /\ UNCHANGED <<cnt_tacho_1, fantacho1, registered, timer, due, sync, pc, registers, published, history>>

Match == timer = 1
Less(n) == IF n > 0 THEN n - 1 ELSE 0

Tick ==
  /\ ~Match                             \* its interrupt is served first
  /\ pc # "idle" => due = Period        \* get_fan_speed takes less than two ticks
  /\ timer' = Less(timer) /\ due' = Less(due) /\ sync' = Less(sync)
  /\ UNCHANGED <<cnt_tacho_1, fantacho1, registered, pc, registers, published, stalled, history>>

WriteRegisters ==
  /\ pc = "idle" /\ pulses_per_rotation' \in Pulses /\ curve' \in Curves
  /\ UNCHANGED <<cnt_tacho_1, fantacho1, registered, timer, due, sync, pc, published, stalled, history>>
-----------------------------------------------------------------------------
(* do_fan                                                                   *)

StartMeasurement ==
  /\ pc = "idle" /\ due = 0 /\ due' = Period /\ pc' = "clear"
  /\ UNCHANGED <<cnt_tacho_1, fantacho1, registered, timer, sync, registers, published, stalled, history>>

ClearCount ==
  /\ pc = "clear" /\ pc' = "start" /\ cnt_tacho_1' = 0
  /\ UNCHANGED <<fantacho1, registered, timer, due, sync, registers, published, stalled, history>>

StartTimer ==
  /\ pc = "start" /\ pc' = "enable" /\ timer' = Window
  /\ inWindow' = 0 /\ early' = 0
  /\ UNCHANGED <<cnt_tacho_1, fantacho1, registered, due, sync, registers, published, stalled>>

enable_extint_callbacks ==
  /\ pc = "enable" /\ pc' = "idle" /\ registered' = TRUE
  /\ UNCHANGED <<cnt_tacho_1, fantacho1, timer, due, sync, registers, published, stalled, history>>

get_fan_speed == ClearCount \/ StartTimer \/ enable_extint_callbacks

fan_sync_to_modbus ==
  /\ pc = "idle" /\ sync = 0 /\ sync' = SyncPeriod
  /\ FAN_CURRENT_SPEED' = fantacho1
  /\ UNCHANGED <<cnt_tacho_1, fantacho1, registered, timer, due, pc, registers, RPM_DEVIATION, stalled, history>>
-----------------------------------------------------------------------------
(* The interrupt of the timer.  A division by zero gives any number.        *)

PerPulse == IF pulses_per_rotation = 0 THEN 0 .. PerMinute ELSE {PerMinute \div pulses_per_rotation}
(* Mutant: the counting interrupt stays registered.                         *)
KeepCallbacks == UNCHANGED registered
delete_extint_callbacks == registered' = FALSE

(* Mutant: a window without pulses gives no result.                         *)
CallbackWithoutZero ==
  /\ Match /\ timer' = 0
  /\ delete_extint_callbacks
  /\ IF cnt_tacho_1 = 0 THEN UNCHANGED <<fantacho1, RPM_DEVIATION>>
     ELSE /\ \E k \in PerPulse : fantacho1' = cnt_tacho_1 * k
          /\ RPM_DEVIATION' = (100 * fantacho1') \div curve
  /\ UNCHANGED <<cnt_tacho_1, due, sync, pc, registers, FAN_CURRENT_SPEED, stalled, history>>
tc_callback_timer1 ==
  /\ Match /\ timer' = 0
  /\ delete_extint_callbacks
  /\ \E k \in PerPulse : fantacho1' = cnt_tacho_1 * k
  /\ RPM_DEVIATION' = (100 * fantacho1') \div curve
  /\ UNCHANGED <<cnt_tacho_1, due, sync, pc, registers, FAN_CURRENT_SPEED, stalled, history>>
-----------------------------------------------------------------------------
do_fan == StartMeasurement \/ get_fan_speed \/ fan_sync_to_modbus
Next == Pulse \/ Stall \/ Tick \/ WriteRegisters \/ do_fan \/ tc_callback_timer1
Spec == Init /\ [][Next]_vars

(* Time passes, the interrupt of the timer comes, and each call of do_fan   *)
(* tests both periods.                                                      *)
Fairness ==
  /\ WF_vars(StartMeasurement \/ get_fan_speed) /\ SF_vars(fan_sync_to_modbus)
  /\ WF_vars(Tick) /\ WF_vars(tc_callback_timer1)
-----------------------------------------------------------------------------
(* Properties *)

(* A result counts the pulses of its own window, all that came after the    *)
(* registration and none from outside (fan.c:133-137, 188-194).             *)
CountsOneWindow == Match /\ pc = "idle" => cnt_tacho_1 = inWindow - early

(* A fan that has stopped is reported to stand, not at the last speed that  *)
(* was measured.                                                            *)
StoppedFanIsReported == stalled ~> (FAN_CURRENT_SPEED = 0 /\ RPM_DEVIATION = 0)
=============================================================================
