---------------------------- MODULE Indicators ----------------------------
(***************************************************************************)
(* What the module shows: the general alarm, a discrete input that sums up *)
(* the broken sensors (alarm.c), and the two LEDs (led.c).  Both run in    *)
(* the main loop, each with a period of its own on the millisecond counter *)
(* (sys_timer.c), and read what other parts of it wrote.                   *)
(***************************************************************************)
EXTENDS Integers

CONSTANTS
  Sensors,     \* those with a flag *_SENSOR_BROKEN
  Modes,       \* contents of the registers: off, slow, fast, any other value
  Wrap,        \* the values of jiffies (2^32)
  AlarmPeriod, LedPeriod,
  SlowLimit,   \* toggle_time at which the slow blinking toggles, plus one (4)
  MaxPass,     \* bound: ticks during a pass of the main loop
  Horizon      \* bound: the history variable counts so many ticks

IndicatorsAssumption ==
  Modes \subseteq Nat /\ {Wrap, AlarmPeriod, LedPeriod, SlowLimit, MaxPass, Horizon} \subseteq Nat \ {0}

OFF == TRUE              \* the pins are low active
ON == FALSE

VARIABLES
  jiffies, alarm_timer, last_led, passed,
  broken,      \* the sensors whose flag is set
  GENERAL_ALARM_STATUS,
  modbus_watchdog_triggered, GREEN_LED, RED_LED,   \* registers
  led_toggle_value_slow, led_toggle_value_fast, toggle_time,
  green, red,  \* pins
  pc,          \* "others", "alarms", "led"
  steady       \* history: ticks since the set of broken sensors became or ceased to be empty
clock == <<jiffies, passed>>
inputs == <<broken, modbus_watchdog_triggered, GREEN_LED, RED_LED>>
blink == <<last_led, led_toggle_value_slow, led_toggle_value_fast, toggle_time, green, red>>
alarm == <<alarm_timer, GENERAL_ALARM_STATUS>>
vars == <<clock, inputs, blink, alarm, pc, steady>>

TypeOK ==
  /\ {jiffies, alarm_timer, last_led} \subseteq 0 .. Wrap - 1 /\ passed \in 0 .. MaxPass
  /\ broken \subseteq Sensors /\ modbus_watchdog_triggered \in BOOLEAN
  /\ {GREEN_LED, RED_LED} \subseteq Modes
  /\ {GENERAL_ALARM_STATUS, led_toggle_value_slow, led_toggle_value_fast, green, red} \subseteq BOOLEAN
  /\ toggle_time \in 0 .. SlowLimit /\ pc \in {"others", "alarms", "led"}
  /\ steady \in 0 .. Horizon

Init ==
  /\ jiffies = 0 /\ alarm_timer = 0 /\ last_led = 0 /\ passed = 0
  /\ broken = {} /\ modbus_watchdog_triggered = FALSE
  /\ GREEN_LED \in Modes /\ RED_LED \in Modes
  /\ GENERAL_ALARM_STATUS = FALSE
  /\ led_toggle_value_slow = FALSE /\ led_toggle_value_fast = FALSE /\ toggle_time = 0
  /\ green = OFF /\ red = ON            \* set by the first call of do_led
  /\ pc = "others" /\ steady = 0
-----------------------------------------------------------------------------
SysTick_Handler ==
  /\ passed < MaxPass /\ passed' = passed + 1
  /\ jiffies' = (jiffies + 1) % Wrap
  /\ steady' = IF steady < Horizon THEN steady + 1 ELSE steady
  /\ UNCHANGED <<inputs, blink, alarm, pc>>

(* do_i2c_local, do_cli and do_modbus, as far as they are read here.        *)
Others ==
  /\ pc = "others" /\ pc' = "alarms"
  /\ \/ /\ \E s \in Sensors : broken' \in {broken \cup {s}, broken \ {s}}
        /\ steady' = IF (broken = {}) # (broken' = {}) THEN 0 ELSE steady
        /\ UNCHANGED <<modbus_watchdog_triggered, GREEN_LED, RED_LED>>
     \/ /\ modbus_watchdog_triggered' \in BOOLEAN
        /\ UNCHANGED <<broken, GREEN_LED, RED_LED, steady>>
     \/ /\ GREEN_LED' \in Modes /\ RED_LED' \in Modes
        /\ UNCHANGED <<broken, modbus_watchdog_triggered, steady>>
  /\ UNCHANGED <<clock, blink, alarm>>

(* Mutant: the difference is taken as a signed one.                         *)
ElapsedSigned(since) == jiffies - since
Elapsed(since) == (jiffies - since) % Wrap

do_alarms ==
  /\ pc = "alarms" /\ pc' = "led"
  /\ IF Elapsed(alarm_timer) >= AlarmPeriod
     THEN alarm_timer' = jiffies /\ GENERAL_ALARM_STATUS' = (broken # {})
     ELSE UNCHANGED alarm
  /\ UNCHANGED <<clock, inputs, blink, steady>>

Toggles ==
  /\ IF toggle_time = SlowLimit
     THEN led_toggle_value_slow' = ~led_toggle_value_slow /\ toggle_time' = 0
     ELSE toggle_time' = toggle_time + 1 /\ UNCHANGED led_toggle_value_slow
  /\ led_toggle_value_fast' = ~led_toggle_value_fast

Shown(mode) ==
  CASE mode = 0 -> OFF [] mode = 1 -> led_toggle_value_slow'
    [] mode = 2 -> led_toggle_value_fast' [] OTHER -> ON

RedMode == IF modbus_watchdog_triggered THEN 2 ELSE RED_LED

do_led ==
  /\ pc = "led" /\ pc' = "others" /\ passed' = 0
  /\ IF Elapsed(last_led) >= LedPeriod
     THEN /\ last_led' = jiffies /\ Toggles
          /\ green' = Shown(GREEN_LED)
          /\ red' = Shown(RedMode)
     ELSE UNCHANGED blink
  /\ UNCHANGED <<jiffies, inputs, alarm, steady>>
-----------------------------------------------------------------------------
MainLoop == Others \/ do_alarms \/ do_led
Next == SysTick_Handler \/ MainLoop
Spec == Init /\ [][Next]_vars
-----------------------------------------------------------------------------
(* Properties *)

(* The general alarm tells whether a sensor is broken, at the latest a      *)
(* period and two passes after that has changed, also when the counter      *)
(* wraps (alarm.c:22-40).                                                   *)
AlarmInTime ==
  pc = "led" /\ steady >= AlarmPeriod + 2 * MaxPass => GENERAL_ALARM_STATUS = (broken # {})
=============================================================================
