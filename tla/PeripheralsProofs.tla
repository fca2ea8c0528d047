------------------------- MODULE PeripheralsProofs -------------------------
(***************************************************************************)
(* Proofs about Peripherals, for every value of its constants: type        *)
(* correctness; that a measured speed counts the pulses of its own window  *)
(* (Tacho); that the general alarm follows the sensors in time             *)
(* (Indicators); that every interrupt of the I2C master is served, and     *)
(* that a value of a sensor is what the sensor sent for it (I2cSensors).   *)
(* One inductive invariant for each part.                                  *)
(***************************************************************************)
EXTENDS Peripherals, TLAPS
-----------------------------------------------------------------------------
(* Tacho: a measurement with the interrupts of the pulses and the timer.    *)

(* A measurement begins when the one before is over: its timer matches      *)
(* before the next is due.                                                  *)
OverBeforeDue ==
  /\ pc \in {"idle", "enable"} => timer <= due
  /\ pc # "idle" => due >= Period - 1
  /\ pc \in {"clear", "start"} => timer = 0
  /\ pc = "enable" => timer >= Window - (Period - due)
(* Pulses are counted while the timer runs, and only then.                  *)
CountsWhileTiming == registered <=> pc = "idle" /\ timer > 0
(* The counter begins at zero and counts what comes after the registration. *)
CountIsOfWindow ==
  /\ pc \in {"start", "enable"} => cnt_tacho_1 = 0
  /\ pc = "enable" => early = inWindow
  /\ registered => cnt_tacho_1 = inWindow - early
TachoInv == TypeOK /\ OverBeforeDue /\ CountsWhileTiming /\ CountIsOfWindow

LEMMA QuotientType ==
  ASSUME NEW n \in Nat, NEW d \in Nat \ {0}
  PROVE  n \div d \in 0 .. n
  <1>1. n \div d \in Int /\ n % d \in 0 .. d - 1 /\ n = (d * (n \div d)) + (n % d)
    OBVIOUS
  <1> DEFINE q == n \div d
  <1>2. q >= 0
    BY <1>1
  <1>3. q <= d * q
    <2>1. q \in Nat
      BY <1>1, <1>2
    <2>2. \A a \in Nat : \A b \in Nat \ {0} : a <= b * a
      OBVIOUS
    <2> HIDE DEF q
    <2> QED BY <2>1, <2>2
  <1> QED BY <1>1, <1>2, <1>3

(* Speeds and deviations that the timer's interrupt computes.               *)
LEMMA ResultType ==
  ASSUME TachoAssumption, TypeOK, NEW k \in PerPulse
  PROVE  cnt_tacho_1 * k \in Speeds /\ (100 * (cnt_tacho_1 * k)) \div curve \in Nat
  <1>1. k \in 0 .. PerMinute
    <2>1. CASE pulses_per_rotation = 0
      BY <2>1 DEF PerPulse
    <2>2. CASE pulses_per_rotation # 0
      <3>1. pulses_per_rotation \in Nat \ {0} /\ PerMinute \in Nat
        BY <2>2 DEF TachoAssumption, TypeOK
      <3> QED BY <2>2, <3>1, QuotientType DEF PerPulse
    <2> QED BY <2>1, <2>2
  <1>2. cnt_tacho_1 \in 0 .. MaxPulses
    BY DEF TypeOK
  <1>3. cnt_tacho_1 * k \in Speeds
    BY <1>1, <1>2 DEF Speeds
  <1>4. cnt_tacho_1 * k \in Nat
    BY <1>1, <1>2 DEF TachoAssumption
  <1>5. 100 * (cnt_tacho_1 * k) \in Nat /\ curve \in Nat \ {0}
    BY <1>4 DEF TachoAssumption, TypeOK
  <1>6. (100 * (cnt_tacho_1 * k)) \div curve \in 0 .. 100 * (cnt_tacho_1 * k)
    BY <1>5, QuotientType
  <1> QED BY <1>3, <1>6

LEMMA TachoInit == ASSUME TachoAssumption, Init PROVE TachoInv
  <1>1. 0 \in Speeds
    BY DEF TachoAssumption, Speeds
  <1>2. TypeOK
    <2>1. registered \in BOOLEAN /\ stalled \in BOOLEAN
      BY DEF Init
    <2>2. /\ timer \in 0 .. Window /\ due \in 0 .. Period /\ sync \in 0 .. SyncPeriod
          /\ cnt_tacho_1 \in 0 .. MaxPulses /\ RPM_DEVIATION \in Nat
          /\ inWindow \in 0 .. MaxPulses /\ early \in 0 .. inWindow
      BY DEF TachoAssumption, Init
    <2> QED BY <1>1, <2>1, <2>2 DEF Init, TypeOK
  <1>3. OverBeforeDue
    BY DEF TachoAssumption, Init, OverBeforeDue
  <1>4. CountsWhileTiming /\ CountIsOfWindow
    BY DEF Init, CountsWhileTiming, CountIsOfWindow
  <1> QED BY <1>2, <1>3, <1>4 DEF TachoInv

LEMMA TachoStep == ASSUME TachoAssumption, TachoInv, [Next]_tacho PROVE TachoInv'
  <1> USE DEF TachoAssumption, TachoInv, OverBeforeDue, CountsWhileTiming, CountIsOfWindow, registers,
              published, history
  <1>1. CASE Pulse
    BY <1>1 DEF Pulse, TypeOK
  <1>2. CASE Stall
    BY <1>2 DEF Stall, TypeOK
  <1>3. CASE Tick
    BY <1>3 DEF Tick, Match, Less, TypeOK
  <1>4. CASE WriteRegisters
    BY <1>4 DEF WriteRegisters, TypeOK
  <1>5. CASE StartMeasurement
    BY <1>5 DEF StartMeasurement, TypeOK
  <1>6. CASE ClearCount
    BY <1>6 DEF ClearCount, TypeOK
  <1>7. CASE StartTimer
    BY <1>7 DEF StartTimer, TypeOK
  <1>8. CASE enable_extint_callbacks
    BY <1>8 DEF enable_extint_callbacks, TypeOK
  <1>9. CASE fan_sync_to_modbus
    BY <1>9 DEF fan_sync_to_modbus, TypeOK
  <1>10. CASE tc_callback_timer1
    <2>1. PICK k \in PerPulse : fantacho1' = cnt_tacho_1 * k
      BY <1>10 DEF tc_callback_timer1
    <2>2. fantacho1' \in Speeds /\ RPM_DEVIATION' \in Nat
      BY <1>10, <2>1, ResultType DEF tc_callback_timer1
    <2>3. /\ timer = 1 /\ timer' = 0 /\ registered' = FALSE
          /\ UNCHANGED <<cnt_tacho_1, due, sync, pc, pulses_per_rotation, curve,
                         FAN_CURRENT_SPEED, stalled, inWindow, early>>
      BY <1>10 DEF tc_callback_timer1, delete_extint_callbacks, Match
    <2>4. TypeOK'
      <3>1. timer' \in 0 .. Window
        BY <2>3
      <3>2. registered' \in BOOLEAN
        BY <2>3
      <3>3. /\ cnt_tacho_1' \in 0 .. MaxPulses /\ due' \in 0 .. Period /\ sync' \in 0 .. SyncPeriod
            /\ inWindow' \in 0 .. MaxPulses /\ early' \in 0 .. inWindow'
        BY <2>3 DEF TypeOK
      <3>4. /\ pc' \in {"idle", "clear", "start", "enable"}
            /\ pulses_per_rotation' \in Pulses /\ curve' \in Curves
            /\ FAN_CURRENT_SPEED' \in Speeds /\ stalled' \in BOOLEAN
        BY <2>3 DEF TypeOK
      <3> QED BY <2>2, <3>1, <3>2, <3>3, <3>4 DEF TypeOK
    <2>5. OverBeforeDue'
      BY <2>3 DEF TypeOK
    <2> QED BY <2>3, <2>4, <2>5
  <1>11. CASE UNCHANGED tacho
    BY <1>11 DEF tacho, vars, TypeOK
  <1> QED BY <1>1, <1>2, <1>3, <1>4, <1>5, <1>6, <1>7, <1>8, <1>9, <1>10, <1>11
          DEF Next, do_fan, get_fan_speed

-----------------------------------------------------------------------------
(* Indicators: the time since the alarm was updated, on a counter that      *)
(* wraps.                                                                   *)

(* The counter may wrap, but not between two calls that find the period of  *)
(* the alarm over.                                                          *)
AlarmPeriodAssumption == AlarmPeriod + (2 * MaxPass) <= Wrap

SinceAlarm == L!Elapsed(alarm_timer)

(* A period is found over at the latest two passes after its end.           *)
AlarmIsDue ==
  /\ led_pc = "led" => SinceAlarm < AlarmPeriod + passed
  /\ led_pc # "led" => SinceAlarm < AlarmPeriod + MaxPass + passed
(* What has not changed since the last update is shown.                     *)
ShownSinceAlarm == steady > SinceAlarm => (GENERAL_ALARM_STATUS <=> any_broken # {})
AlarmInv == L!TypeOK /\ AlarmIsDue /\ ShownSinceAlarm

(* Differences on the counter.                                              *)
LEMMA ElapsedValue ==
  ASSUME NEW w \in Nat \ {0}, NEW j \in 0 .. w - 1, NEW a \in 0 .. w - 1
  PROVE  (j - a) % w = IF j >= a THEN j - a ELSE (j - a) + w
  <1>1. CASE j >= a
    BY <1>1
  <1>2. CASE j < a
    <2>1. j - a \in Int /\ (j - a) + w \in 0 .. w - 1
      BY <1>2
    <2> QED BY <1>2, <2>1
  <1> QED BY <1>1, <1>2

LEMMA NextTick ==
  ASSUME NEW w \in Nat \ {0}, NEW j \in 0 .. w - 1
  PROVE  (j + 1) % w = IF j = w - 1 THEN 0 ELSE j + 1
  OBVIOUS

LEMMA TickElapsed ==
  ASSUME NEW w \in Nat \ {0}, NEW j \in 0 .. w - 1, NEW a \in 0 .. w - 1
  PROVE  /\ (j + 1) % w \in 0 .. w - 1
         /\ (j - a) % w \in 0 .. w - 1
         /\ (j - a) % w < w - 1 => (((j + 1) % w) - a) % w = ((j - a) % w) + 1
  <1> DEFINE k == (j + 1) % w
  <1>1. k = IF j = w - 1 THEN 0 ELSE j + 1
    BY NextTick
  <1>2. k \in 0 .. w - 1
    BY <1>1
  <1>3. (j - a) % w = IF j >= a THEN j - a ELSE (j - a) + w
    BY ElapsedValue
  <1> HIDE DEF k
  <1>4. (k - a) % w = IF k >= a THEN k - a ELSE (k - a) + w
    BY <1>2, ElapsedValue
  <1>5. (j - a) % w < w - 1 => (k - a) % w = ((j - a) % w) + 1
    BY <1>1, <1>3, <1>4
  <1>6. (j - a) % w \in 0 .. w - 1
    BY <1>3
  <1> QED BY <1>2, <1>5, <1>6 DEF k

LEMMA AlarmInit == ASSUME L!IndicatorsAssumption, L!Init PROVE AlarmInv
  <1>1. {0} \subseteq 0 .. Wrap - 1 /\ 0 \in 0 .. MaxPass /\ 0 \in 0 .. SlowLimit /\ 0 \in 0 .. Horizon
    BY DEF L!IndicatorsAssumption
  <1>2. {GENERAL_ALARM_STATUS, led_toggle_value_slow, led_toggle_value_fast, green, red} \subseteq BOOLEAN
        /\ modbus_watchdog_triggered \in BOOLEAN
    BY DEF L!Init, L!ON, L!OFF
  <1>3. {jiffies, alarm_timer, last_led} \subseteq 0 .. Wrap - 1
    BY <1>1 DEF L!Init
  <1>4. L!TypeOK
    BY <1>1, <1>2, <1>3 DEF L!Init, L!TypeOK
  <1>5. SinceAlarm = 0
    BY ElapsedValue DEF L!Init, SinceAlarm, L!Elapsed, L!IndicatorsAssumption
  <1>6. AlarmIsDue /\ ShownSinceAlarm
    BY <1>5 DEF L!Init, AlarmIsDue, ShownSinceAlarm, L!IndicatorsAssumption
  <1> QED BY <1>4, <1>6 DEF AlarmInv

LEMMA SinceAlarmType == ASSUME L!IndicatorsAssumption, L!TypeOK PROVE SinceAlarm \in 0 .. Wrap - 1
  <1>1. Wrap \in Nat \ {0} /\ jiffies \in 0 .. Wrap - 1 /\ alarm_timer \in 0 .. Wrap - 1
    BY DEF L!IndicatorsAssumption, L!TypeOK
  <1> QED BY <1>1, TickElapsed DEF SinceAlarm, L!Elapsed

LEMMA TickStep ==
  ASSUME L!IndicatorsAssumption, AlarmPeriodAssumption, AlarmInv, L!SysTick_Handler PROVE AlarmInv'
  <1>1. /\ passed < MaxPass /\ passed' = passed + 1
        /\ jiffies' = (jiffies + 1) % Wrap
        /\ steady' = IF steady < Horizon THEN steady + 1 ELSE steady
        /\ UNCHANGED <<L!inputs, L!blink, L!alarm, led_pc>>
    BY DEF L!SysTick_Handler
  <1>2. /\ {Wrap, AlarmPeriod, MaxPass, Horizon} \subseteq Nat \ {0}
        /\ jiffies \in 0 .. Wrap - 1 /\ alarm_timer \in 0 .. Wrap - 1
        /\ passed \in 0 .. MaxPass /\ steady \in 0 .. Horizon
    BY DEF L!IndicatorsAssumption, AlarmInv, L!TypeOK
  <1>3. SinceAlarm < Wrap - 1 /\ SinceAlarm \in 0 .. Wrap - 1
    BY <1>1, <1>2, SinceAlarmType DEF AlarmInv, AlarmIsDue, AlarmPeriodAssumption
  <1>4. jiffies' \in 0 .. Wrap - 1 /\ SinceAlarm' = SinceAlarm + 1
    BY <1>1, <1>2, <1>3, TickElapsed DEF SinceAlarm, L!Elapsed, L!alarm
  <1>5. passed' \in 0 .. MaxPass /\ steady' \in 0 .. Horizon
    BY <1>1, <1>2
  <1>6. L!TypeOK'
    BY <1>1, <1>4, <1>5 DEF AlarmInv, L!TypeOK, L!inputs, L!blink, L!alarm
  <1>7. AlarmIsDue'
    BY <1>1, <1>2, <1>3, <1>4 DEF AlarmInv, AlarmIsDue
  <1>8. ShownSinceAlarm'
    <2>1. steady' > SinceAlarm' => steady > SinceAlarm
      BY <1>1, <1>2, <1>3, <1>4
    <2> QED BY <1>1, <2>1 DEF AlarmInv, ShownSinceAlarm, L!inputs, L!alarm
  <1> QED BY <1>6, <1>7, <1>8 DEF AlarmInv

LEMMA OthersStep == ASSUME L!IndicatorsAssumption, AlarmInv, L!Others PROVE AlarmInv'
  <1>1. led_pc = "others" /\ led_pc' = "alarms" /\ UNCHANGED <<L!clock, L!blink, L!alarm>>
    BY DEF L!Others
  <1>2. SinceAlarm' = SinceAlarm /\ SinceAlarm \in 0 .. Wrap - 1
    BY <1>1, SinceAlarmType DEF AlarmInv, SinceAlarm, L!Elapsed, L!clock, L!alarm
  <1>3. /\ any_broken' \subseteq Sensors /\ modbus_watchdog_triggered' \in BOOLEAN
        /\ {GREEN_LED, RED_LED}' \subseteq Modes
    BY DEF L!Others, AlarmInv, L!TypeOK
  <1>4. steady' \in 0 .. Horizon
    BY DEF L!Others, AlarmInv, L!TypeOK, L!IndicatorsAssumption
  <1>5. L!TypeOK'
    BY <1>1, <1>3, <1>4 DEF AlarmInv, L!TypeOK, L!clock, L!blink, L!alarm
  <1>6. AlarmIsDue'
    BY <1>1, <1>2 DEF AlarmInv, AlarmIsDue, L!clock
  <1>7. ShownSinceAlarm'
    <2>1. steady' = 0 \/ (steady' = steady /\ (any_broken' = {} <=> any_broken = {}))
      BY DEF L!Others
    <2> QED BY <1>1, <1>2, <2>1 DEF AlarmInv, ShownSinceAlarm, L!alarm
  <1> QED BY <1>5, <1>6, <1>7 DEF AlarmInv

LEMMA AlarmsStep == ASSUME L!IndicatorsAssumption, AlarmInv, L!do_alarms PROVE AlarmInv'
  <1>1. led_pc = "alarms" /\ led_pc' = "led" /\ UNCHANGED <<L!clock, L!inputs, L!blink, steady>>
    BY DEF L!do_alarms
  <1>2. /\ {Wrap, AlarmPeriod} \subseteq Nat \ {0} /\ jiffies \in 0 .. Wrap - 1
        /\ passed \in Nat /\ SinceAlarm \in 0 .. Wrap - 1
    BY SinceAlarmType DEF L!IndicatorsAssumption, AlarmInv, L!TypeOK
  <1>3. CASE L!Elapsed(alarm_timer) >= AlarmPeriod
    <2>1. alarm_timer' = jiffies /\ GENERAL_ALARM_STATUS' = (any_broken # {})
      BY <1>3 DEF L!do_alarms
    <2>2. GENERAL_ALARM_STATUS' \in BOOLEAN /\ (GENERAL_ALARM_STATUS' <=> any_broken # {})
      BY <2>1
    <2>3. SinceAlarm' = 0
      BY <1>1, <1>2, <2>1, ElapsedValue DEF SinceAlarm, L!Elapsed, L!clock
    <2>4. L!TypeOK'
      <3>1. {jiffies, alarm_timer, last_led}' \subseteq 0 .. Wrap - 1
        BY <1>1, <2>1 DEF AlarmInv, L!TypeOK, L!clock, L!blink
      <3> QED BY <1>1, <2>2, <3>1 DEF AlarmInv, L!TypeOK, L!clock, L!inputs, L!blink
    <2>5. AlarmIsDue' /\ ShownSinceAlarm'
      BY <1>1, <1>2, <2>2, <2>3 DEF AlarmIsDue, ShownSinceAlarm, L!clock, L!inputs
    <2> QED BY <2>4, <2>5 DEF AlarmInv
  <1>4. CASE ~(L!Elapsed(alarm_timer) >= AlarmPeriod)
    <2>1. UNCHANGED L!alarm
      BY <1>4 DEF L!do_alarms
    <2>2. SinceAlarm' = SinceAlarm /\ SinceAlarm < AlarmPeriod
      BY <1>1, <1>2, <1>4, <2>1 DEF SinceAlarm, L!Elapsed, L!clock, L!alarm
    <2>3. L!TypeOK'
      BY <1>1, <2>1 DEF AlarmInv, L!TypeOK, L!clock, L!inputs, L!blink, L!alarm
    <2>4. AlarmIsDue' /\ ShownSinceAlarm'
      BY <1>1, <1>2, <2>1, <2>2 DEF AlarmInv, AlarmIsDue, ShownSinceAlarm, L!clock, L!inputs, L!alarm
    <2> QED BY <2>3, <2>4 DEF AlarmInv
  <1> QED BY <1>3, <1>4

LEMMA LedStep == ASSUME L!IndicatorsAssumption, AlarmInv, L!do_led PROVE AlarmInv'
  <1>1. led_pc = "led" /\ led_pc' = "others" /\ passed' = 0 /\ UNCHANGED <<jiffies, L!inputs, L!alarm, steady>>
    BY DEF L!do_led
  <1>2. /\ {AlarmPeriod, MaxPass, SlowLimit} \subseteq Nat \ {0} /\ passed \in 0 .. MaxPass
        /\ SinceAlarm' = SinceAlarm /\ SinceAlarm \in 0 .. Wrap - 1
    BY <1>1, SinceAlarmType DEF L!IndicatorsAssumption, AlarmInv, L!TypeOK, SinceAlarm, L!Elapsed, L!alarm
  <1>3. {led_toggle_value_slow, led_toggle_value_fast}' \subseteq BOOLEAN
    BY DEF L!do_led, L!Toggles, AlarmInv, L!TypeOK, L!blink
  <1>4. {green, red}' \subseteq BOOLEAN
    <2>1. \A mode : L!Shown(mode) \in BOOLEAN
      BY <1>3 DEF L!Shown, L!ON, L!OFF
    <2>2. green' \in {green, L!Shown(GREEN_LED)} /\ red' \in {red, L!Shown(L!RedMode)}
      BY DEF L!do_led, L!blink
    <2> QED BY <2>1, <2>2 DEF AlarmInv, L!TypeOK
  <1>5. toggle_time' \in 0 .. SlowLimit /\ last_led' \in 0 .. Wrap - 1
    BY <1>2 DEF L!do_led, L!Toggles, AlarmInv, L!TypeOK, L!blink
  <1>6. L!TypeOK'
    <2>1. {jiffies, alarm_timer, last_led}' \subseteq 0 .. Wrap - 1
      BY <1>1, <1>5 DEF AlarmInv, L!TypeOK, L!alarm
    <2>2. {GENERAL_ALARM_STATUS, led_toggle_value_slow, led_toggle_value_fast, green, red}'
            \subseteq BOOLEAN
      BY <1>1, <1>3, <1>4 DEF AlarmInv, L!TypeOK, L!alarm
    <2>3. passed' \in 0 .. MaxPass /\ led_pc' \in {"others", "alarms", "led"}
      BY <1>1, <1>2
    <2> QED BY <1>1, <1>5, <2>1, <2>2, <2>3 DEF AlarmInv, L!TypeOK, L!inputs
  <1>7. AlarmIsDue' /\ ShownSinceAlarm'
    BY <1>1, <1>2 DEF AlarmInv, AlarmIsDue, ShownSinceAlarm, L!inputs, L!alarm
  <1> QED BY <1>6, <1>7 DEF AlarmInv

LEMMA AlarmStep ==
  ASSUME L!IndicatorsAssumption, AlarmPeriodAssumption, AlarmInv, [L!Next]_indicators PROVE AlarmInv'
  <1>1. CASE UNCHANGED indicators
    BY <1>1 DEF indicators, AlarmInv, L!TypeOK, AlarmIsDue, ShownSinceAlarm, SinceAlarm, L!Elapsed
  <1> QED BY <1>1, TickStep, OthersStep, AlarmsStep, LedStep DEF L!Next, L!MainLoop

-----------------------------------------------------------------------------
(* I2cSensors: the job on the bus and the call that waits for it.           *)

(* While interrupts are enabled, a byte remains or the last one of a write  *)
(* is on the wire.  Holds for a job on top of a job, too.                   *)
JobIsServed ==
  /\ inten => drv.remaining > 0 \/ (drv.length > 0 /\ drv.busy /\ drv.dir = "write")
  /\ drv.remaining > 0 => drv.busy
(* Nothing that is written to the bus, and no register that the INA226      *)
(* reads next, has the name of what the humidity sensor sends.              *)
CommandsOnly == send # "t_h" /\ bus.byte # "t_h" /\ ptr # "t_h"

(* The first n bytes of the call's read have come, from the sensor asked.   *)
Got(n) ==
  /\ 0 .. n - 1 \subseteq fresh
  /\ \A k \in 0 .. n - 1 : (read[k] = "t_h") <=> (S!Call[call].dev = "t_h")
(* What is on the bus is the job of the call in progress; it is at its      *)
(* address, or at a byte of its own direction.                              *)
JobOfCall ==
  /\ phase \in {"clear", "wait", "delay"}
  /\ drv.dir = S!Call[call].dir /\ bus.dev = S!Call[call].dev
  /\ phase # "clear" => ~complete[S!Call[call].dir]
  /\ \/ bus.op = "address" /\ drv.length = 0 /\ drv.remaining = S!Call[call].len
     \/ /\ bus.op = drv.dir /\ drv.length = S!Call[call].len
        /\ drv.dir = "read" => drv.remaining \in 1 .. drv.length /\ Got(drv.length - drv.remaining)
NoJob == drv.length = 0 /\ drv.remaining = 0 /\ ~drv.busy /\ ~inten
(* The poll will find the read of this call complete.                       *)
Finished ==
  /\ bus.op = "none" /\ phase \in {"wait", "delay"} /\ S!Call[call].dir = "read"
  /\ complete["read"]
(* While no transfer has outlasted the poll.                                *)
OneJob ==
  /\ ~stray
  /\ bus.op = "none" => NoJob
  /\ bus.op # "none" => JobOfCall
  /\ Finished => Got(S!Call[call].len)

(* What each byte of a call's read should come from.                        *)
Source == <<"none", "current", "none", "voltage", "t_h", "none">>
FromSource(n) == \A k \in 0 .. n - 1 : read[k] = Source[call]
(* The register of a read is the one that the write before has selected:    *)
(* its byte has been acknowledged when the job is over.                     *)
Selected ==
  /\ call \in {1, 2} => send = "current"
  /\ call \in {3, 4} => send = "voltage"
  /\ bus.answer # "nack"
  /\ bus.op = "write" => bus.byte = send
  /\ bus.op = "write" /\ bus.answer = "ack" /\ call \in {1, 3} => ptr = send
  /\ bus.op = "none" /\ phase \in {"clear", "wait", "delay"} /\ call \in {1, 3} => ptr = send
  /\ call \in {2, 4} => ptr = send
ReadsSource ==
  /\ bus.op = "read" => FromSource(drv.length - drv.remaining)
  /\ Finished => FromSource(S!Call[call].len)
(* A value comes from its own register.                                     *)
OwnValues == \A v \in S!Values : value[v] \subseteq {v}
(* While no byte was refused, either.                                       *)
Chain == Selected /\ ReadsSource /\ OwnValues
Basics == S!TypeOK /\ JobIsServed /\ CommandsOnly /\ (call = 0 <=> phase = "idle")
I2cInv ==
  /\ Basics
  /\ stretches = 0 => OneJob
  /\ stretches = 0 /\ nacks = 0 => Chain

LEMMA CallFacts ==
  ASSUME S!I2cAssumption, NEW c \in S!Calls
  PROVE  /\ S!Call[c].dir \in {"write", "read"} /\ S!Call[c].dev \in {"ina226", "t_h"}
         /\ S!Call[c].len \in 1 .. 10 /\ S!Call[c].len \in S!BufferIndex \cup {10}
         /\ S!Call[c].dir = "write" <=> c \in {1, 3, 6}
         /\ S!Call[c].dev = "ina226" <=> c \in 1 .. 4
         /\ c \in {1, 3} => S!Call[c].len = 1
         /\ c \in {2, 4} => S!Call[c].len = 2
         /\ c = 5 => S!Call[c].len = ThLen
  <1>1. c \in {1, 2, 3, 4, 5, 6} /\ ThLen \in 1 .. 10
    BY DEF S!Calls, S!Measure, S!I2cAssumption
  <1> QED BY <1>1 DEF S!Call, S!BufferIndex

LEMMA CommandFacts ==
  /\ DOMAIN S!Command = {1, 3, S!Measure}
  /\ S!Command[1] = "current" /\ S!Command[3] = "voltage" /\ S!Command[S!Measure] = "measure"
  BY DEF S!Command, S!Measure

LEMMA ReturnFacts ==
  ASSUME S!I2cAssumption, S!TypeOK, call \in S!Calls, NEW ok \in BOOLEAN, S!Return(ok)
  PROVE  /\ call = S!Measure => call' = 0 /\ phase' = "idle"
         /\ call # S!Measure => call' = call + 1 /\ call' \in S!Calls /\ phase' = "start"
         /\ send' = IF call = 2 THEN "voltage" ELSE IF call = 5 THEN "measure" ELSE send
         /\ regs' \in {regs, value}
  <1>1. call \in 1 .. 6
    BY DEF S!Calls, S!Measure
  <1>2. CASE call = S!Measure
    BY <1>1, <1>2 DEF S!Return, S!Measure
  <1>3. CASE call # S!Measure
    <2>1. S!BeginCall(call + 1) /\ UNCHANGED regs
      BY <1>3 DEF S!Return
    <2>2. call + 1 \in DOMAIN S!Command <=> call \in {2, 5}
      BY <1>1, <1>3, CommandFacts DEF S!Measure
    <2> QED BY <1>1, <1>3, <2>1, <2>2, CommandFacts DEF S!BeginCall, S!Measure, S!Calls
  <1> QED BY <1>2, <1>3

(* What a call leaves in the measured values.                               *)
Measured(c) == IF c = 2 THEN "current" ELSE IF c = 4 THEN "voltage" ELSE "t_h"
LEMMA ReturnValues ==
  ASSUME S!I2cAssumption, S!TypeOK, call \in S!Calls, NEW ok \in BOOLEAN, S!Return(ok)
  PROVE  /\ call \notin {2, 4, 5} => UNCHANGED <<value, broken>>
         /\ call \in {2, 4, 5} =>
              /\ broken' = [broken EXCEPT ![Measured(call)] = ~ok]
              /\ value' = [value EXCEPT ![Measured(call)] =
                   IF ok THEN {read[i] : i \in 0 .. S!Call[call].len - 1} ELSE {}]
  <1>1. call \in {2, 4} => 0 .. S!Call[call].len - 1 = {0, 1}
    BY CallFacts
  <1>2. CASE call = 2
    BY <1>1, <1>2 DEF S!Return, S!Taken, Measured
  <1>3. CASE call = 4
    BY <1>1, <1>3 DEF S!Return, S!Taken, Measured
  <1>4. CASE call = 5
    <2>1. S!Taken("t_h", ok, 0 .. ThLen - 1)
      BY <1>4 DEF S!Return
    <2>2. S!Call[call].len = ThLen /\ Measured(call) = "t_h"
      BY <1>4, CallFacts DEF Measured
    <2> QED BY <1>4, <2>1, <2>2 DEF S!Taken
  <1>5. CASE call \notin {2, 4, 5}
    BY <1>5 DEF S!Return
  <1> QED BY <1>2, <1>3, <1>4, <1>5

LEMMA ReturnType ==
  ASSUME S!I2cAssumption, S!TypeOK, call \in S!Calls, NEW ok \in BOOLEAN, S!Return(ok)
  PROVE  /\ call' \in {0} \cup S!Calls /\ phase' \in {"idle", "start"} /\ send' \in S!Sources
         /\ value' \in [S!Values -> SUBSET S!Sources] /\ regs' \in [S!Values -> SUBSET S!Sources]
         /\ broken' \in [S!Values -> BOOLEAN]
  <1>1. call' \in {0} \cup S!Calls /\ phase' \in {"idle", "start"} /\ send' \in S!Sources
    BY ReturnFacts DEF S!TypeOK, S!Sources
  <1>2. regs' \in [S!Values -> SUBSET S!Sources]
    BY ReturnFacts DEF S!TypeOK
  <1>3. CASE call \notin {2, 4, 5}
    BY <1>1, <1>2, <1>3, ReturnValues DEF S!TypeOK
  <1>4. CASE call \in {2, 4, 5}
    <2>1. Measured(call) \in S!Values
      BY DEF Measured, S!Values
    <2>2. 0 .. S!Call[call].len - 1 \subseteq S!BufferIndex
      BY CallFacts DEF S!BufferIndex
    <2> DEFINE taken == IF ok THEN {read[i] : i \in 0 .. S!Call[call].len - 1} ELSE {}
    <2>3. taken \subseteq S!Sources
      BY <2>2 DEF S!TypeOK
    <2>4. /\ broken' = [broken EXCEPT ![Measured(call)] = ~ok]
          /\ value' = [value EXCEPT ![Measured(call)] = taken]
      BY <1>4, ReturnValues
    <2> HIDE DEF taken
    <2>5. value' \in [S!Values -> SUBSET S!Sources] /\ broken' \in [S!Values -> BOOLEAN]
      BY <2>1, <2>3, <2>4 DEF S!TypeOK
    <2> QED BY <1>1, <1>2, <2>5
  <1> QED BY <1>3, <1>4

Drivers == [length : 0 .. 10, remaining : 0 .. 10, dir : {"write", "read"}, busy : BOOLEAN]

LEMMA DriverUpdate ==
  ASSUME NEW d \in Drivers, NEW l \in 0 .. 10, NEW n \in 0 .. 10, NEW t \in {"write", "read"},
         NEW b \in BOOLEAN
  PROVE  /\ [d EXCEPT !.length = l] \in Drivers
         /\ [d EXCEPT !.remaining = n] \in Drivers
         /\ [d EXCEPT !.length = l, !.busy = b] \in Drivers
         /\ [d EXCEPT !.length = l, !.remaining = n, !.busy = b] \in Drivers
         /\ [d EXCEPT !.remaining = n, !.length = l, !.busy = b] \in Drivers
         /\ [d EXCEPT !.remaining = n, !.dir = t, !.busy = b] \in Drivers
  BY DEF Drivers

(* A call that returns keeps what does not depend on the order of calls.    *)
LEMMA ReturnBasics ==
  ASSUME S!I2cAssumption, Basics, call \in S!Calls, NEW ok \in BOOLEAN, S!Return(ok),
         cnt' \in 0 .. Timeout + 1, complete' \in [{"write", "read"} -> BOOLEAN],
         stretches' \in 0 .. MaxStretches, UNCHANGED <<S!driverVars, bus, ptr, nacks, delays>>
  PROVE  Basics'
  <1>1. S!TypeOK'
    BY ReturnType DEF Basics, S!TypeOK, S!driverVars
  <1>2. (call' = 0) <=> (phase' = "idle")
    BY ReturnFacts DEF Basics, S!Calls, S!Measure
  <1>3. JobIsServed'
    BY DEF Basics, JobIsServed, S!driverVars
  <1>4. CommandsOnly'
    BY ReturnFacts DEF Basics, CommandsOnly
  <1> QED BY <1>1, <1>2, <1>3, <1>4 DEF Basics

LEMMA CallInProgress ==
  ASSUME Basics, phase # "idle"
  PROVE  call \in S!Calls
  BY DEF Basics, S!TypeOK

LEMMA MainLoopBasics ==
  ASSUME S!I2cAssumption, Basics, S!MainLoop
  PROVE  Basics'
  <1>1. S!TypeOK
    BY DEF Basics
  <1>2. CASE S!StartRound
    <2>1. call' = 1 /\ phase' = "start" /\ send' = "current"
          /\ UNCHANGED <<cnt, value, regs, broken, S!driverVars, complete, bus, ptr, S!bounds>>
      BY <1>2, CommandFacts DEF S!StartRound, S!BeginCall
    <2>2. S!TypeOK'
      BY <1>1, <2>1 DEF S!TypeOK, S!Calls, S!Measure, S!Sources, S!driverVars, S!bounds
    <2> QED BY <2>1, <2>2 DEF Basics, JobIsServed, CommandsOnly, S!driverVars
  <1>3. CASE S!StartJob
    <2>1. call \in S!Calls /\ phase = "start"
      BY <1>3, CallInProgress DEF S!StartJob
    <2>2. /\ phase' = "clear" /\ inten' = TRUE
          /\ UNCHANGED <<call, cnt, send, value, regs, broken, read, stray, complete, ptr, S!bounds>>
          /\ drv' = [drv EXCEPT !.remaining = S!Call[call].len, !.dir = S!Call[call].dir, !.busy = TRUE]
          /\ bus' = [S!Quiet EXCEPT !.op = "address", !.dev = S!Call[call].dev]
          /\ fresh' \in {{}, fresh}
      BY <1>3 DEF S!StartJob
    <2>3. drv' \in Drivers /\ drv'.remaining > 0 /\ drv'.busy
      <3>1. drv \in Drivers
        BY <1>1 DEF S!TypeOK, Drivers
      <3>2. S!Call[call].len \in 0 .. 10 /\ S!Call[call].len > 0 /\ S!Call[call].dir \in {"write", "read"}
        BY <2>1, CallFacts
      <3>3. drv' \in Drivers
        BY <2>2, <3>1, <3>2, DriverUpdate
      <3> QED BY <2>2, <3>1, <3>2, <3>3 DEF Drivers
    <2>4. bus' \in S!BusOps /\ bus'.byte = "config"
      BY <2>1, <2>2, CallFacts DEF S!BusOps, S!Quiet, S!Sources
    <2>5. S!TypeOK'
      <3>1. fresh' \in SUBSET S!BufferIndex /\ inten' \in BOOLEAN
        BY <1>1, <2>2 DEF S!TypeOK
      <3> QED BY <1>1, <2>2, <2>3, <2>4, <3>1 DEF S!TypeOK, Drivers, S!bounds
    <2>6. JobIsServed'
      BY <2>3 DEF JobIsServed
    <2>7. CommandsOnly' /\ (call' = 0 <=> phase' = "idle")
      BY <2>1, <2>2, <2>4 DEF Basics, CommandsOnly
    <2> QED BY <2>5, <2>6, <2>7 DEF Basics
  <1>4. CASE S!StartBusy
    <2>1. call \in S!Calls /\ S!Return(FALSE) /\ UNCHANGED <<cnt, S!driverVars, complete, bus, ptr, S!bounds>>
      BY <1>4, CallInProgress DEF S!StartBusy
    <2> QED BY <1>1, <2>1, ReturnBasics DEF S!bounds, S!TypeOK
  <1>5. CASE S!ClearFlag
    <2>1. /\ call \in S!Calls /\ phase = "clear" /\ phase' = "wait" /\ cnt' = 0
          /\ complete' = [complete EXCEPT ![S!Call[call].dir] = FALSE]
          /\ UNCHANGED <<call, send, value, regs, broken, S!driverVars, bus, ptr, S!bounds>>
      BY <1>5, CallInProgress DEF S!ClearFlag
    <2>2. S!TypeOK'
      <3>1. complete' \in [{"write", "read"} -> BOOLEAN]
        BY <1>1, <2>1 DEF S!TypeOK
      <3>2. cnt' \in 0 .. Timeout + 1
        BY <2>1 DEF S!I2cAssumption
      <3> QED BY <1>1, <2>1, <3>1, <3>2 DEF S!TypeOK, S!driverVars, S!bounds
    <2> QED BY <2>1, <2>2 DEF Basics, JobIsServed, CommandsOnly, S!driverVars
  <1>6. CASE S!Poll
    <2>1. call \in S!Calls /\ phase = "wait" /\ UNCHANGED <<cnt, S!driverVars, complete, bus, ptr, S!bounds>>
      BY <1>6, CallInProgress DEF S!Poll
    <2>2. CASE S!Return(TRUE)
      BY <1>1, <2>1, <2>2, ReturnBasics DEF S!bounds, S!TypeOK
    <2>3. CASE ~S!Return(TRUE)
      <3>1. phase' = "delay" /\ UNCHANGED <<call, send, value, regs, broken>>
        BY <1>6, <2>3 DEF S!Poll
      <3>2. S!TypeOK'
        BY <1>1, <2>1, <3>1 DEF S!TypeOK, S!driverVars, S!bounds
      <3> QED BY <2>1, <3>1, <3>2 DEF Basics, JobIsServed, CommandsOnly, S!driverVars
    <2> QED BY <2>2, <2>3
  <1>7. CASE S!Delay
    <2>1. call \in S!Calls /\ phase = "delay" /\ UNCHANGED <<S!driverVars, bus, ptr, nacks, delays>>
      BY <1>7, CallInProgress DEF S!Delay
    <2>2. stretches' \in 0 .. MaxStretches
      BY <1>1, <1>7 DEF S!Delay, S!TypeOK, S!I2cAssumption
    <2>3. CASE S!Expire
      <3>1. S!Return(FALSE) /\ cnt' = cnt /\ complete' = [complete EXCEPT ![S!Call[call].dir] = TRUE]
        BY <2>3 DEF S!Expire
      <3>2. complete' \in [{"write", "read"} -> BOOLEAN] /\ cnt' \in 0 .. Timeout + 1
        BY <1>1, <3>1 DEF S!TypeOK
      <3> QED BY <2>1, <2>2, <3>1, <3>2, ReturnBasics
    <2>4. CASE S!Count
      <3>1. S!TypeOK'
        BY <1>1, <2>1, <2>2, <2>4 DEF S!Count, S!TypeOK, S!driverVars, S!I2cAssumption
      <3> QED BY <2>1, <2>4, <3>1 DEF S!Count, Basics, JobIsServed, CommandsOnly, S!driverVars
    <2> QED BY <1>7, <2>3, <2>4 DEF S!Delay
  <1> QED BY <1>2, <1>3, <1>4, <1>5, <1>6, <1>7 DEF S!MainLoop

LEMMA AnswerBasics ==
  ASSUME S!I2cAssumption, Basics, S!Answer
  PROVE  Basics'
  <1>1. UNCHANGED <<S!callerVars, S!driverVars, complete, stretches>>
    BY DEF S!Answer
  <1>2. delays' \in 0 .. MaxDelays /\ nacks' \in 0 .. MaxNacks
    BY DEF S!Answer, Basics, S!TypeOK, S!I2cAssumption
  <1>3. bus' \in S!BusOps /\ bus'.byte = bus.byte
    BY DEF S!Answer, Basics, S!TypeOK, S!BusOps
  <1>4. ptr' \in {ptr, bus.byte} /\ bus.byte \in S!Sources
    BY DEF S!Answer, Basics, S!TypeOK, S!BusOps
  <1>5. S!TypeOK'
    BY <1>1, <1>2, <1>3, <1>4 DEF Basics, S!TypeOK, S!callerVars, S!driverVars
  <1> QED BY <1>1, <1>3, <1>4, <1>5 DEF Basics, JobIsServed, CommandsOnly, S!callerVars, S!driverVars

LEMMA InterruptBasics ==
  ASSUME S!I2cAssumption, Basics, S!_i2c_master_interrupt_handler
  PROVE  Basics'
  <1>1. S!TypeOK /\ UNCHANGED <<S!callerVars, ptr, S!bounds>>
    BY DEF S!_i2c_master_interrupt_handler, Basics
  <1> DEFINE Rest == /\ drv' \in Drivers /\ inten' \in BOOLEAN /\ bus' \in S!BusOps
                     /\ read' \in [S!BufferIndex -> S!Sources] /\ fresh' \subseteq S!BufferIndex
                     /\ stray' \in BOOLEAN /\ complete' \in [{"write", "read"} -> BOOLEAN]
  <1>2. ASSUME Rest, JobIsServed', bus'.byte # "t_h" PROVE Basics'
    <2>1. S!TypeOK'
      BY <1>1, <1>2 DEF S!TypeOK, Drivers, S!callerVars, S!bounds
    <2>2. CommandsOnly' /\ (call' = 0 <=> phase' = "idle")
      BY <1>1, <1>2 DEF Basics, CommandsOnly, S!callerVars
    <2> QED BY <1>2, <2>1, <2>2 DEF Basics
  <1>3. S!Quiet \in S!BusOps /\ S!Quiet.byte # "t_h"
    BY DEF S!Quiet, S!BusOps, S!Sources
  <1>4. ASSUME NEW d \in Drivers, d.remaining > 0, d.length > 0, d.busy, d.dir = "write", S!WriteByte(d)
        PROVE  Basics'
    <2>1. /\ drv' = [d EXCEPT !.remaining = d.remaining - 1]
          /\ bus' = [bus EXCEPT !.op = "write", !.byte = send, !.answer = "none"]
          /\ UNCHANGED <<inten, read, fresh, stray, complete>>
      BY <1>4 DEF S!WriteByte
    <2>2. drv' \in Drivers /\ drv'.length > 0 /\ drv'.busy /\ drv'.dir = "write"
      BY <1>4, <2>1 DEF Drivers
    <2>3. bus' \in S!BusOps /\ bus'.byte = send
      BY <1>1, <2>1 DEF S!TypeOK, S!BusOps
    <2>4. JobIsServed'
      BY <2>2 DEF JobIsServed
    <2> QED BY <1>1, <1>2, <2>1, <2>2, <2>3, <2>4 DEF S!TypeOK, Basics, CommandsOnly
  <1>5. ASSUME NEW d \in Drivers, d.remaining > 0, S!ReadByte(d)
        PROVE  Basics'
    <2> DEFINE index == (d.length - d.remaining) % 65536
               last == d.remaining = 1
    <2>1. /\ drv' = [d EXCEPT !.remaining = d.remaining - 1,
                              !.length = IF last THEN 0 ELSE d.length, !.busy = ~last]
          /\ inten' = ~last
          /\ bus' = IF last THEN S!Quiet ELSE [bus EXCEPT !.op = "read", !.answer = "none"]
          /\ complete' = [complete EXCEPT !["read"] = last \/ complete["read"]]
      BY <1>5 DEF S!ReadByte
    <2>2. drv' \in Drivers /\ drv'.remaining = d.remaining - 1 /\ drv'.busy = ~last
      <3>1. d.remaining - 1 \in 0 .. 10 /\ (IF last THEN 0 ELSE d.length) \in 0 .. 10 /\ (~last) \in BOOLEAN
        BY <1>5 DEF Drivers
      <3>2. drv' \in Drivers
        BY <1>5, <2>1, <3>1, DriverUpdate
      <3> QED BY <1>5, <2>1, <3>2 DEF Drivers
    <2>3. inten' \in BOOLEAN /\ complete' \in [{"write", "read"} -> BOOLEAN]
      BY <1>1, <2>1 DEF S!TypeOK
    <2>4. bus' \in S!BusOps /\ bus'.byte # "t_h"
      BY <1>1, <1>3, <2>1 DEF S!TypeOK, S!BusOps, Basics, CommandsOnly
    <2>5. S!SentByte \in S!Sources
      BY <1>1 DEF S!SentByte, S!TypeOK, S!Sources
    <2>6. read' \in [S!BufferIndex -> S!Sources] /\ fresh' \subseteq S!BufferIndex /\ stray' \in BOOLEAN
      <3>1. CASE index \in S!BufferIndex
        <4>1. read' = [read EXCEPT ![index] = S!SentByte] /\ fresh' = fresh \cup {index} /\ UNCHANGED stray
          BY <1>5, <3>1 DEF S!ReadByte
        <4> QED BY <1>1, <2>5, <3>1, <4>1 DEF S!TypeOK
      <3>2. CASE index \notin S!BufferIndex
        BY <1>1, <1>5, <3>2 DEF S!ReadByte, S!TypeOK
      <3> QED BY <3>1, <3>2
    <2>7. JobIsServed'
      <3>1. inten' => drv'.remaining > 0
        <4>1. d.remaining \in 1 .. 10
          BY <1>5 DEF Drivers
        <4>2. last => ~inten'
          BY <2>1
        <4> QED BY <2>2, <4>1, <4>2
      <3>2. drv'.remaining > 0 => drv'.busy
        BY <1>5, <2>2 DEF Drivers
      <3> QED BY <3>1, <3>2 DEF JobIsServed
    <2> QED BY <1>2, <2>2, <2>3, <2>4, <2>6, <2>7
  <1>6. ASSUME S!JobFails PROVE Basics'
    <2>1. /\ drv' = [drv EXCEPT !.length = 0, !.remaining = 0, !.busy = FALSE]
          /\ inten' = FALSE /\ bus' = S!Quiet /\ UNCHANGED <<read, fresh, stray, complete>>
      BY <1>6 DEF S!JobFails
    <2>2. drv' \in Drivers /\ drv'.remaining = 0
      <3>1. drv \in Drivers /\ 0 \in 0 .. 10 /\ FALSE \in BOOLEAN
        BY <1>1 DEF S!TypeOK, Drivers
      <3>2. drv' \in Drivers
        BY <2>1, <3>1, DriverUpdate
      <3> QED BY <2>1, <3>1, <3>2 DEF Drivers
    <2>3. JobIsServed'
      BY <2>1, <2>2 DEF JobIsServed
    <2> QED BY <1>1, <1>2, <1>3, <2>1, <2>2, <2>3 DEF S!TypeOK
  <1>7. CASE S!OnAddress
    <2> DEFINE d == [drv EXCEPT !.length = drv.remaining]
    <2>1. /\ drv.remaining > 0 /\ d \in Drivers /\ d.remaining > 0 /\ d.length > 0
          /\ d.dir = drv.dir /\ d.busy
      BY <1>1, <1>7 DEF S!OnAddress, S!TypeOK, Drivers, Basics, JobIsServed
    <2> HIDE DEF d
    <2>2. S!JobFails \/ (d.dir = "write" /\ S!WriteByte(d)) \/ S!ReadByte(d)
      BY <1>7, <2>1 DEF S!OnAddress, d
    <2> QED BY <1>4, <1>5, <1>6, <2>1, <2>2
  <1>8. CASE S!OnWriteDone
    <2>1. /\ drv' = [drv EXCEPT !.length = 0, !.busy = FALSE] /\ drv.remaining = 0
          /\ inten' = FALSE /\ bus' = S!Quiet /\ UNCHANGED <<read, fresh, stray>>
          /\ complete' = [complete EXCEPT !["write"] = TRUE]
      BY <1>8 DEF S!OnWriteDone
    <2>2. drv' \in Drivers /\ drv'.remaining = 0 /\ complete' \in [{"write", "read"} -> BOOLEAN]
      BY <1>1, <2>1 DEF S!TypeOK, Drivers
    <2>3. JobIsServed'
      BY <2>1, <2>2 DEF JobIsServed
    <2> QED BY <1>1, <1>2, <1>3, <2>1, <2>2, <2>3 DEF S!TypeOK
  <1>9. CASE S!OnByte
    <2>1. drv \in Drivers /\ drv.remaining > 0 /\ drv.length > 0 /\ drv.busy
      BY <1>1, <1>9 DEF S!OnByte, S!TypeOK, Drivers, Basics, JobIsServed
    <2>2. S!JobFails \/ (drv.dir = "write" /\ S!WriteByte(drv)) \/ S!ReadByte(drv)
      BY <1>9 DEF S!OnByte
    <2> QED BY <1>4, <1>5, <1>6, <2>1, <2>2
  <1> QED BY <1>7, <1>8, <1>9 DEF S!_i2c_master_interrupt_handler

LEMMA ReturnOneJob ==
  ASSUME S!I2cAssumption, Basics, OneJob, call \in S!Calls, bus.op = "none", NEW ok \in BOOLEAN, S!Return(ok),
         UNCHANGED <<S!driverVars, bus>>
  PROVE  OneJob'
  <1>1. phase' \notin {"wait", "delay"}
    BY ReturnFacts DEF Basics
  <1> QED BY <1>1 DEF OneJob, NoJob, Finished, S!driverVars

LEMMA ReturnChain ==
  ASSUME S!I2cAssumption, Basics, OneJob, Chain, call \in S!Calls, phase \in {"wait", "delay"},
         bus.op = "none", NEW ok \in BOOLEAN, S!Return(ok), ok => complete[S!Call[call].dir],
         UNCHANGED <<S!driverVars, bus, ptr>>
  PROVE  Chain'
  <1>1. /\ phase' \notin {"clear", "wait", "delay"} /\ call \in 1 .. 6
        /\ call' = IF call = 6 THEN 0 ELSE call + 1
        /\ send' = IF call = 2 THEN "voltage" ELSE IF call = 5 THEN "measure" ELSE send
    BY ReturnFacts DEF Basics, S!Calls, S!Measure
  <1>2. Selected'
    BY <1>1 DEF Chain, Selected
  <1>3. ReadsSource'
    BY <1>1 DEF ReadsSource, Finished
  <1>4. OwnValues'
    <2>1. CASE call \notin {2, 4, 5}
      BY <2>1, ReturnValues DEF Basics, Chain, OwnValues
    <2>2. CASE call \in {2, 4, 5}
      <3> DEFINE taken == IF ok THEN {read[i] : i \in 0 .. S!Call[call].len - 1} ELSE {}
      <3>1. taken \subseteq {Measured(call)}
        <4>1. CASE ok
          <5>1. S!Call[call].dir = "read"
            BY <2>2, CallFacts
          <5>2. Finished
            BY <4>1, <5>1 DEF Finished
          <5>3. Source[call] = Measured(call)
            BY <2>2 DEF Source, Measured
          <5> QED BY <4>1, <5>2, <5>3 DEF Chain, ReadsSource, FromSource
        <4> QED BY <4>1
      <3>2. value' = [value EXCEPT ![Measured(call)] = taken]
        BY <2>2, ReturnValues DEF Basics
      <3> HIDE DEF taken
      <3> QED BY <3>1, <3>2 DEF Basics, S!TypeOK, Chain, OwnValues
    <2> QED BY <2>1, <2>2
  <1> QED BY <1>2, <1>3, <1>4 DEF Chain

LEMMA MainLoopOneJob ==
  ASSUME S!I2cAssumption, Basics, OneJob, S!MainLoop, stretches' = 0
  PROVE  OneJob' /\ (Chain => Chain')
  <1> USE DEF Basics
  <1>1. CASE S!StartRound
    <2>1. /\ phase = "idle" /\ call' = 1 /\ phase' = "start" /\ send' = "current"
          /\ UNCHANGED <<cnt, value, regs, broken, S!driverVars, complete, bus, ptr, S!bounds>>
      BY <1>1, CommandFacts DEF S!StartRound, S!BeginCall
    <2>2. bus.op = "none"
      BY <2>1 DEF OneJob, JobOfCall
    <2>3. OneJob'
      BY <2>1, <2>2 DEF OneJob, NoJob, Finished, S!driverVars
    <2>4. Chain => Chain'
      BY <2>1, <2>2 DEF Chain, Selected, ReadsSource, Finished, OwnValues
    <2> QED BY <2>3, <2>4
  <1>2. CASE S!StartJob
    <2>1. call \in S!Calls /\ phase = "start"
      BY <1>2, CallInProgress DEF S!StartJob
    <2>2. bus.op = "none"
      BY <2>1 DEF OneJob, JobOfCall
    <2>3. /\ phase' = "clear" /\ inten' = TRUE
          /\ UNCHANGED <<call, cnt, send, value, regs, broken, read, stray, complete, ptr, S!bounds>>
          /\ drv' = [drv EXCEPT !.remaining = S!Call[call].len, !.dir = S!Call[call].dir, !.busy = TRUE]
          /\ bus' = [S!Quiet EXCEPT !.op = "address", !.dev = S!Call[call].dev]
      BY <1>2 DEF S!StartJob
    <2>4. /\ drv'.length = 0 /\ drv'.remaining = S!Call[call].len /\ drv'.dir = S!Call[call].dir
          /\ bus'.op = "address" /\ bus'.dev = S!Call[call].dev /\ bus'.answer = "none"
      BY <2>2, <2>3 DEF OneJob, NoJob, S!TypeOK, S!Quiet
    <2>5. OneJob'
      BY <2>3, <2>4 DEF OneJob, JobOfCall, Finished
    <2>6. Chain => Chain'
      BY <2>1, <2>3, <2>4 DEF Chain, Selected, ReadsSource, Finished, OwnValues
    <2> QED BY <2>5, <2>6
  <1>3. CASE S!StartBusy
    <2>1. bus.op = "none" /\ drv.remaining > 0
      BY <1>3 DEF S!StartBusy, S!JobIsBusy, OneJob, JobOfCall
    <2> QED BY <2>1 DEF OneJob, NoJob, S!TypeOK
  <1>4. CASE S!ClearFlag
    <2>1. /\ call \in S!Calls /\ phase = "clear" /\ phase' = "wait"
          /\ complete' = [complete EXCEPT ![S!Call[call].dir] = FALSE]
          /\ UNCHANGED <<call, send, value, regs, broken, S!driverVars, bus, ptr, S!bounds>>
      BY <1>4, CallInProgress DEF S!ClearFlag
    <2>2. ~complete'[S!Call[call].dir]
      BY <2>1, CallFacts DEF S!TypeOK
    <2>3. OneJob'
      BY <2>1, <2>2 DEF OneJob, NoJob, JobOfCall, Got, Finished, S!driverVars
    <2>4. Chain => Chain'
      BY <2>1, <2>2 DEF Chain, Selected, ReadsSource, FromSource, Finished, OwnValues, S!driverVars
    <2> QED BY <2>3, <2>4
  <1>5. CASE S!Poll
    <2>1. call \in S!Calls /\ phase = "wait" /\ UNCHANGED <<cnt, S!driverVars, complete, bus, ptr, S!bounds>>
      BY <1>5, CallInProgress DEF S!Poll
    <2>2. CASE complete[S!Call[call].dir]
      <3>1. bus.op = "none" /\ S!Return(TRUE)
        BY <1>5, <2>1, <2>2 DEF S!Poll, OneJob, JobOfCall
      <3> QED BY <2>1, <2>2, <3>1, ReturnOneJob, ReturnChain
    <2>3. CASE ~complete[S!Call[call].dir]
      <3>1. phase' = "delay" /\ UNCHANGED <<call, send, value, regs, broken>>
        BY <1>5, <2>3 DEF S!Poll
      <3>2. OneJob'
        BY <2>1, <2>3, <3>1 DEF OneJob, NoJob, JobOfCall, Got, Finished, S!driverVars
      <3>3. Chain => Chain'
        BY <2>1, <3>1 DEF Chain, Selected, ReadsSource, FromSource, Finished, OwnValues, S!driverVars
      <3> QED BY <3>2, <3>3
    <2> QED BY <2>2, <2>3
  <1>6. CASE S!Delay
    <2>1. call \in S!Calls /\ phase = "delay" /\ UNCHANGED <<S!driverVars, bus, ptr, nacks, delays>>
      BY <1>6, CallInProgress DEF S!Delay
    <2>2. bus.op = "none"
      BY <1>6 DEF S!Delay, S!TypeOK
    <2>3. CASE S!Expire
      BY <2>1, <2>2, <2>3, ReturnOneJob, ReturnChain DEF S!Expire
    <2>4. CASE S!Count
      <3>1. phase' = "wait" /\ UNCHANGED <<call, send, value, regs, broken, complete>>
        BY <2>4 DEF S!Count
      <3>2. OneJob'
        BY <2>1, <2>2, <3>1 DEF OneJob, NoJob, Got, Finished, S!driverVars
      <3>3. Chain => Chain'
        BY <2>1, <2>2, <3>1 DEF Chain, Selected, ReadsSource, FromSource, Finished, OwnValues, S!driverVars
      <3> QED BY <3>2, <3>3
    <2> QED BY <1>6, <2>3, <2>4 DEF S!Delay
  <1> QED BY <1>1, <1>2, <1>3, <1>4, <1>5, <1>6 DEF S!MainLoop

LEMMA AnswerOneJob ==
  ASSUME S!I2cAssumption, Basics, OneJob, S!Answer
  PROVE  OneJob' /\ (Chain /\ nacks' = 0 => Chain')
  <1>1. /\ bus.op # "none" /\ UNCHANGED <<S!callerVars, S!driverVars, complete, stretches>>
        /\ bus'.op = bus.op /\ bus'.dev = bus.dev /\ bus'.byte = bus.byte
    BY DEF S!Answer, Basics, S!TypeOK, S!BusOps
  <1>2. OneJob'
    BY <1>1 DEF OneJob, JobOfCall, Got, Finished, S!callerVars, S!driverVars
  <1>3. ASSUME Chain, nacks' = 0 PROVE Chain'
    <2>1. bus'.answer = "ack" /\ ptr' = IF bus.op = "write" /\ bus.dev = "ina226" THEN bus.byte ELSE ptr
      BY <1>3 DEF S!Answer, Basics, S!TypeOK, S!BusOps
    <2>2. call \in {1, 3} => bus.dev = "ina226"
      BY <1>1, CallFacts DEF OneJob, JobOfCall, S!Calls, S!Measure
    <2>3. Selected'
      BY <1>1, <1>3, <2>1, <2>2 DEF Chain, Selected, S!callerVars
    <2>4. ReadsSource' /\ OwnValues'
      BY <1>1, <1>3 DEF Chain, ReadsSource, FromSource, Finished, OwnValues, S!callerVars, S!driverVars
    <2> QED BY <2>3, <2>4 DEF Chain
  <1> QED BY <1>2, <1>3

(* A received byte goes to its place; the last one completes the call.      *)
LEMMA ReadByteOneJob ==
  ASSUME S!I2cAssumption, Basics, OneJob, bus.op # "none", UNCHANGED <<S!callerVars, ptr>>,
         NEW d \in Drivers, d.dir = "read", S!Call[call].dir = "read", d.length = S!Call[call].len,
         d.remaining \in 1 .. d.length, Got(d.length - d.remaining), S!ReadByte(d)
  PROVE  /\ OneJob'
         /\ Chain /\ FromSource(d.length - d.remaining) => Chain'
  <1> DEFINE index == d.length - d.remaining
             last == d.remaining = 1
  <1>1. call \in S!Calls /\ JobOfCall
    BY CallInProgress DEF OneJob, JobOfCall
  <1>2. d.length \in 1 .. 10 /\ index \in S!BufferIndex /\ index % 65536 = index
    BY <1>1, CallFacts DEF S!BufferIndex
  <1>3. /\ drv' = [d EXCEPT !.remaining = d.remaining - 1,
                              !.length = IF last THEN 0 ELSE d.length, !.busy = ~last]
        /\ inten' = ~last
        /\ bus' = IF last THEN S!Quiet ELSE [bus EXCEPT !.op = "read", !.answer = "none"]
        /\ complete' = [complete EXCEPT !["read"] = last \/ complete["read"]]
        /\ read' = [read EXCEPT ![index] = S!SentByte] /\ fresh' = fresh \cup {index} /\ UNCHANGED stray
    BY <1>2 DEF S!ReadByte
  <1> HIDE DEF index
  <1>4. Got(index + 1)'
    <2>1. (S!SentByte = "t_h") <=> (S!Call[call].dev = "t_h")
      BY <1>1, CallFacts DEF S!SentByte, JobOfCall, Basics, CommandsOnly
    <2>2. \A k \in 0 .. index : k \in 0 .. index - 1 \/ k = index
      BY <1>2 DEF S!BufferIndex
    <2>3. \A k \in S!BufferIndex : read'[k] = IF k = index THEN S!SentByte ELSE read[k]
      BY <1>2, <1>3 DEF Basics, S!TypeOK
    <2>4. 0 .. index \subseteq S!BufferIndex /\ (index + 1) - 1 = index
      BY <1>2 DEF S!BufferIndex
    <2>5. Got(index)
      BY DEF index
    <2>6. 0 .. index \subseteq fresh'
      BY <1>3, <2>2, <2>5 DEF Got
    <2>7. \A k \in 0 .. index : (read'[k] = "t_h") <=> (S!Call[call].dev = "t_h")
      BY <2>1, <2>2, <2>3, <2>4, <2>5 DEF Got
    <2> QED BY <2>4, <2>6, <2>7 DEF Got, S!callerVars
  <1>5. ASSUME Chain, FromSource(index) PROVE FromSource(index + 1)'
    <2>1. S!SentByte = Source[call]
      <3>1. call \in {2, 4, 5}
        BY <1>1, CallFacts DEF S!Calls, S!Measure
      <3> QED BY <1>1, <1>5, <3>1, CallFacts DEF S!SentByte, JobOfCall, Chain, Selected, Source
    <2>2. \A k \in 0 .. index : k \in 0 .. index - 1 \/ k = index
      BY <1>2 DEF S!BufferIndex
    <2>3. \A k \in S!BufferIndex : read'[k] = IF k = index THEN S!SentByte ELSE read[k]
      BY <1>2, <1>3 DEF Basics, S!TypeOK
    <2>4. 0 .. index \subseteq S!BufferIndex /\ (index + 1) - 1 = index
      BY <1>2 DEF S!BufferIndex
    <2>5. \A k \in 0 .. index : read'[k] = Source[call]
      BY <1>5, <2>1, <2>2, <2>3, <2>4 DEF FromSource
    <2> QED BY <2>4, <2>5 DEF FromSource, S!callerVars
  <1>6. CASE last
    <2>1. index + 1 = S!Call[call].len
      BY <1>6 DEF index, Drivers
    <2>2. drv'.length = 0 /\ drv'.remaining = 0 /\ ~drv'.busy /\ ~inten' /\ bus'.op = "none" /\ bus'.answer = "none"
      <3>1. ~drv'.busy /\ ~inten' /\ bus' = S!Quiet
        BY <1>3, <1>6 DEF Drivers
      <3>2. drv'.length = 0 /\ drv'.remaining = 0
        BY <1>3, <1>6 DEF Drivers
      <3> QED BY <3>1, <3>2 DEF S!Quiet
    <2>3. OneJob'
      BY <1>3, <1>4, <2>1, <2>2 DEF OneJob, NoJob, Finished, S!callerVars
    <2>4. ASSUME Chain, FromSource(index) PROVE Chain'
      <3>1. FromSource(S!Call[call].len)'
        BY <1>5, <2>1, <2>4 DEF S!callerVars
      <3>2. ReadsSource'
        BY <2>2, <3>1 DEF ReadsSource
      <3>3. Selected'
        BY <1>1, <2>2, <2>4, CallFacts DEF Chain, Selected, S!callerVars
      <3> QED BY <2>4, <3>2, <3>3 DEF Chain, OwnValues, S!callerVars
    <2> QED BY <2>3, <2>4 DEF index
  <1>7. CASE ~last
    <2>1. /\ drv'.length = d.length /\ drv'.remaining = d.remaining - 1 /\ drv'.dir = "read"
          /\ drv'.remaining \in 1 .. drv'.length /\ drv'.length - drv'.remaining = index + 1
      BY <1>3, <1>7 DEF index, Drivers
    <2>2. bus'.op = "read" /\ bus'.dev = bus.dev /\ bus'.answer = "none"
      BY <1>3, <1>7 DEF Basics, S!TypeOK, S!BusOps
    <2>3. complete'["read"] = complete["read"]
      BY <1>3, <1>7 DEF Basics, S!TypeOK
    <2>4. JobOfCall'
      BY <1>1, <1>4, <2>1, <2>2, <2>3 DEF JobOfCall, S!callerVars
    <2>5. OneJob'
      BY <1>3, <2>2, <2>4 DEF OneJob, Finished
    <2>6. ASSUME Chain, FromSource(index) PROVE Chain'
      <3>1. ReadsSource'
        BY <1>5, <2>1, <2>2, <2>6 DEF ReadsSource, Finished
      <3>2. Selected'
        BY <2>2, <2>6 DEF Chain, Selected, S!callerVars
      <3> QED BY <2>6, <3>1, <3>2 DEF Chain, OwnValues, S!callerVars
    <2> QED BY <2>5, <2>6 DEF index
  <1> QED BY <1>6, <1>7

(* A byte to be written goes to the bus.                                    *)
LEMMA WriteByteOneJob ==
  ASSUME S!I2cAssumption, Basics, OneJob, bus.op # "none", UNCHANGED <<S!callerVars, ptr>>,
         NEW d \in Drivers, d.dir = "write", S!Call[call].dir = "write", d.length = S!Call[call].len,
         S!WriteByte(d)
  PROVE  OneJob' /\ (Chain => Chain')
  <1>1. /\ drv' = [d EXCEPT !.remaining = d.remaining - 1]
        /\ bus' = [bus EXCEPT !.op = "write", !.byte = send, !.answer = "none"]
        /\ UNCHANGED <<inten, read, fresh, stray, complete>>
    BY DEF S!WriteByte
  <1>2. /\ drv'.length = d.length /\ drv'.dir = "write" /\ bus'.op = "write" /\ bus'.dev = bus.dev
        /\ bus'.byte = send /\ bus'.answer = "none"
    BY <1>1 DEF Drivers, Basics, S!TypeOK, S!BusOps
  <1>3. OneJob'
    BY <1>1, <1>2 DEF OneJob, JobOfCall, Finished, S!callerVars
  <1>4. Chain => Chain'
    BY <1>1, <1>2 DEF Chain, Selected, ReadsSource, Finished, OwnValues, S!callerVars
  <1> QED BY <1>3, <1>4

LEMMA InterruptOneJob ==
  ASSUME S!I2cAssumption, Basics, OneJob, S!_i2c_master_interrupt_handler
  PROVE  OneJob' /\ (Chain => Chain')
  <1>1. /\ inten /\ bus.answer # "none" /\ UNCHANGED <<S!callerVars, ptr, S!bounds>>
    BY DEF S!_i2c_master_interrupt_handler, S!Interrupt
  <1>2. bus.op # "none" /\ JobOfCall /\ call \in S!Calls
    BY <1>1, CallInProgress DEF OneJob, NoJob, JobOfCall
  <1>3. /\ S!Call[call].len \in 1 .. 10 /\ S!Call[call].dir \in {"write", "read"} /\ drv.dir = S!Call[call].dir
        /\ drv \in Drivers
    BY <1>2, CallFacts DEF JobOfCall, Basics, S!TypeOK, Drivers
  <1>4. ASSUME S!JobFails PROVE OneJob'
    <2>1. bus'.op = "none" /\ drv'.length = 0 /\ drv'.remaining = 0 /\ ~drv'.busy /\ ~inten'
          /\ UNCHANGED <<stray, complete>>
      BY <1>3, <1>4 DEF S!JobFails, S!Quiet, Drivers
    <2> QED BY <1>1, <1>2, <2>1 DEF OneJob, NoJob, JobOfCall, Finished, S!callerVars
  <1>5. bus.answer = "nack" => ~Chain
    BY DEF Chain, Selected
  <1>6. CASE S!OnAddress
    <2> DEFINE d == [drv EXCEPT !.length = drv.remaining]
    <2>1. drv.length = 0 /\ drv.remaining = S!Call[call].len
      BY <1>2, <1>3, <1>6 DEF S!OnAddress, JobOfCall
    <2>2. d \in Drivers /\ d.length = S!Call[call].len /\ d.remaining = S!Call[call].len /\ d.dir = drv.dir
      BY <1>3, <2>1 DEF Drivers
    <2> HIDE DEF d
    <2>3. \/ bus.answer = "nack" /\ S!JobFails
          \/ d.dir = "write" /\ S!WriteByte(d)
          \/ d.dir = "read" /\ S!ReadByte(d)
      BY <1>6, <2>2 DEF S!OnAddress, d
    <2>4. Got(d.length - d.remaining) /\ FromSource(d.length - d.remaining)
      BY <1>3, <2>2 DEF Got, FromSource
    <2>5. d.remaining \in 1 .. d.length
      BY <1>3, <2>2
    <2>6. CASE d.dir = "write" /\ S!WriteByte(d)
      BY <1>1, <1>2, <1>3, <2>2, <2>6, WriteByteOneJob
    <2>7. CASE d.dir = "read" /\ S!ReadByte(d)
      BY <1>1, <1>2, <1>3, <2>2, <2>4, <2>5, <2>7, ReadByteOneJob
    <2> QED BY <1>4, <1>5, <2>3, <2>6, <2>7
  <1>7. CASE S!OnWriteDone
    <2>1. drv.length > 0 /\ drv.dir = "write" /\ bus.op = "write"
      BY <1>2, <1>7 DEF S!OnWriteDone, JobOfCall
    <2>2. bus'.op = "none" /\ bus'.answer = "none" /\ drv'.length = 0 /\ drv'.remaining = 0 /\ ~drv'.busy /\ ~inten'
          /\ UNCHANGED <<read, fresh, stray>>
      BY <1>3, <1>7 DEF S!OnWriteDone, S!Quiet, Drivers
    <2>3. S!Call[call].dir = "write"
      BY <1>3, <2>1
    <2>4. OneJob'
      BY <1>1, <2>2, <2>3 DEF OneJob, NoJob, Finished, S!callerVars
    <2>5. ASSUME Chain PROVE Chain'
      <3>1. bus.answer = "ack"
        BY <1>1, <2>5 DEF Chain, Selected, Basics, S!TypeOK, S!BusOps
      <3>2. Selected'
        BY <1>1, <2>1, <2>2, <2>5, <3>1 DEF Chain, Selected, S!callerVars
      <3>3. ReadsSource' /\ OwnValues'
        BY <1>1, <2>2, <2>3, <2>5 DEF Chain, ReadsSource, Finished, OwnValues, S!callerVars
      <3> QED BY <3>2, <3>3 DEF Chain
    <2> QED BY <2>4, <2>5
  <1>8. CASE S!OnByte
    <2>1. /\ drv.length > 0 /\ drv.remaining > 0 /\ bus.op = drv.dir /\ drv.length = S!Call[call].len
          /\ drv.dir = "read" => Got(drv.length - drv.remaining)
      BY <1>2, <1>8 DEF S!OnByte, JobOfCall
    <2>2. \/ bus.answer = "nack" /\ S!JobFails
          \/ drv.dir = "write" /\ S!WriteByte(drv)
          \/ drv.dir = "read" /\ S!ReadByte(drv)
      BY <1>8 DEF S!OnByte
    <2>3. CASE drv.dir = "write" /\ S!WriteByte(drv)
      BY <1>1, <1>2, <1>3, <2>1, <2>3, WriteByteOneJob
    <2>4. CASE drv.dir = "read" /\ S!ReadByte(drv)
      <3>1. Chain => FromSource(drv.length - drv.remaining)
        BY <2>1, <2>4 DEF Chain, ReadsSource
      <3>2. drv.remaining \in 1 .. drv.length
        BY <1>2, <1>3, <2>1, <2>4 DEF JobOfCall, Drivers
      <3> QED BY <1>1, <1>2, <1>3, <2>1, <2>4, <3>1, <3>2, ReadByteOneJob
    <2> QED BY <1>4, <1>5, <2>2, <2>3, <2>4
  <1> QED BY <1>6, <1>7, <1>8 DEF S!_i2c_master_interrupt_handler

LEMMA I2cInit == ASSUME S!I2cAssumption, S!Init PROVE I2cInv
  <1>1. S!TypeOK
    <2>1. /\ call \in S!Calls /\ phase = "start" /\ send \in S!Sources /\ read \in [S!BufferIndex -> S!Sources]
          /\ ptr \in S!Sources /\ value \in [S!Values -> SUBSET S!Sources] /\ regs \in [S!Values -> SUBSET S!Sources]
      BY CommandFacts DEF S!Init, S!Calls, S!Measure, S!Sources
    <2>2. drv \in [length : 0 .. 10, remaining : 0 .. 10, dir : {"write", "read"}, busy : BOOLEAN]
      <3>1. 0 \in 0 .. 10 /\ FALSE \in BOOLEAN
        OBVIOUS
      <3> QED BY <3>1, Zenon DEF S!Init
    <2>3. inten \in BOOLEAN /\ stray \in BOOLEAN /\ fresh \subseteq S!BufferIndex
      BY DEF S!Init
    <2>4. bus \in S!BusOps
      BY DEF S!Init, S!Quiet, S!BusOps, S!Sources
    <2>5. /\ cnt \in 0 .. Timeout + 1 /\ nacks \in 0 .. MaxNacks /\ delays \in 0 .. MaxDelays
          /\ stretches \in 0 .. MaxStretches
      BY DEF S!Init, S!I2cAssumption
    <2>6. complete \in [{"write", "read"} -> BOOLEAN] /\ broken \in [S!Values -> BOOLEAN]
      BY DEF S!Init
    <2> QED BY <2>1, <2>2, <2>3, <2>4, <2>5, <2>6 DEF S!TypeOK
  <1>2. JobIsServed /\ CommandsOnly /\ (call = 0 <=> phase = "idle")
    BY CommandFacts DEF S!Init, JobIsServed, CommandsOnly, S!Quiet, S!Measure
  <1>3. OneJob
    BY DEF S!Init, OneJob, NoJob, Finished, S!Quiet
  <1>4. Chain
    BY DEF S!Init, Chain, Selected, ReadsSource, Finished, OwnValues, S!Quiet, S!Measure
  <1> QED BY <1>1, <1>2, <1>3, <1>4 DEF I2cInv, Basics

LEMMA I2cStep == ASSUME S!I2cAssumption, I2cInv, [S!Next]_sensors PROVE I2cInv'
  <1>1. CASE UNCHANGED sensors
    BY <1>1 DEF sensors, I2cInv, Basics, S!TypeOK, JobIsServed, CommandsOnly,
                OneJob, NoJob, JobOfCall, Got, Finished, Chain, Selected, ReadsSource, FromSource, OwnValues
  <1>2. CASE S!Next
    <2>1. Basics'
      BY <1>2, MainLoopBasics, AnswerBasics, InterruptBasics DEF S!Next, I2cInv
    <2>2. /\ stretches' = 0 => stretches = 0
          /\ nacks' = 0 => nacks = 0
      <3>1. stretches' = stretches \/ stretches' = stretches + 1
        BY <1>2 DEF S!Next, S!MainLoop, S!StartRound, S!StartJob, S!StartBusy, S!ClearFlag, S!Poll, S!Delay,
                    S!Answer, S!_i2c_master_interrupt_handler, S!bounds
      <3>2. nacks' = nacks \/ nacks' = nacks + 1
        BY <1>2 DEF S!Next, S!MainLoop, S!StartRound, S!StartJob, S!StartBusy, S!ClearFlag, S!Poll, S!Delay,
                    S!Answer, S!_i2c_master_interrupt_handler, S!bounds
      <3> QED BY <3>1, <3>2 DEF I2cInv, Basics, S!TypeOK
    <2>3. stretches' = 0 => OneJob'
      BY <1>2, <2>2, MainLoopOneJob, AnswerOneJob, InterruptOneJob DEF S!Next, I2cInv
    <2>4. stretches' = 0 /\ nacks' = 0 => Chain'
      BY <1>2, <2>2, MainLoopOneJob, AnswerOneJob, InterruptOneJob DEF S!Next, I2cInv
    <2> QED BY <2>1, <2>3, <2>4 DEF I2cInv
  <1> QED BY <1>1, <1>2

-----------------------------------------------------------------------------
(* A step of Peripherals is one of one part.                                *)
LEMMA StepsOfParts ==
  ASSUME [AnyNext]_allVars
  PROVE  [Next]_tacho /\ [L!Next]_indicators /\ [S!Next]_sensors
  BY DEF AnyNext, allVars

LEMMA TachoHolds == ASSUME TachoAssumption PROVE AnySpec => []TachoInv
  <1>1. AnyInit => TachoInv
    BY TachoInit DEF AnyInit
  <1>2. TachoInv /\ [AnyNext]_allVars => TachoInv'
    BY TachoStep, StepsOfParts
  <1> QED BY <1>1, <1>2, PTL DEF AnySpec

LEMMA AlarmHolds ==
  ASSUME L!IndicatorsAssumption, AlarmPeriodAssumption PROVE AnySpec => []AlarmInv
  <1>1. AnyInit => AlarmInv
    BY AlarmInit DEF AnyInit
  <1>2. AlarmInv /\ [AnyNext]_allVars => AlarmInv'
    BY AlarmStep, StepsOfParts
  <1> QED BY <1>1, <1>2, PTL DEF AnySpec

LEMMA I2cHolds == ASSUME S!I2cAssumption PROVE AnySpec => []I2cInv
  <1>1. AnyInit => I2cInv
    BY I2cInit DEF AnyInit
  <1>2. I2cInv /\ [AnyNext]_allVars => I2cInv'
    BY I2cStep, StepsOfParts
  <1> QED BY <1>1, <1>2, PTL DEF AnySpec

(* The measurement, the alarm and the LEDs, and the sensors keep their      *)
(* types.                                                                   *)
THEOREM TypeCorrect ==
  ASSUME PeripheralsAssumption, AlarmPeriodAssumption
  PROVE  AnySpec => [](TypeOK /\ L!TypeOK /\ S!TypeOK)
  <1>1. TachoInv => TypeOK
    BY DEF TachoInv
  <1>2. AlarmInv => L!TypeOK
    BY DEF AlarmInv
  <1>3. I2cInv => S!TypeOK
    BY DEF I2cInv, Basics
  <1>4. TachoAssumption /\ L!IndicatorsAssumption /\ S!I2cAssumption
    BY DEF PeripheralsAssumption
  <1> QED BY <1>1, <1>2, <1>3, <1>4, TachoHolds, AlarmHolds, I2cHolds, PTL

(* A result counts the pulses of its own window and no others, wherever a   *)
(* pulse comes between the steps of a measurement (fan.c:133-137, 188-194). *)
THEOREM ResultsCountTheirWindow == ASSUME TachoAssumption PROVE AnySpec => []CountsOneWindow
  <1>1. TachoInv => CountsOneWindow
    BY DEF TachoInv, CountsWhileTiming, CountIsOfWindow, CountsOneWindow, Match
  <1> QED BY <1>1, TachoHolds, PTL

(* The general alarm tells whether a sensor is broken a period and two      *)
(* passes after that has changed, wherever the counter wraps                *)
(* (alarm.c:22-40).                                                         *)
THEOREM AlarmIsInTime ==
  ASSUME L!IndicatorsAssumption, AlarmPeriodAssumption PROVE AnySpec => []AlarmInTime
  <1>1. AlarmInv => AlarmInTime
    <2> SUFFICES ASSUME AlarmInv, led_pc = "led", steady >= AlarmPeriod + 2 * MaxPass
                 PROVE  GENERAL_ALARM_STATUS = (any_broken # {})
      BY DEF AlarmInTime, L!AlarmInTime
    <2>1. steady > SinceAlarm
      <3>1. {AlarmPeriod, MaxPass, Wrap} \subseteq Nat \ {0} /\ passed \in 0 .. MaxPass
            /\ steady \in Nat /\ SinceAlarm \in 0 .. Wrap - 1
        BY SinceAlarmType DEF L!IndicatorsAssumption, AlarmInv, L!TypeOK
      <3> QED BY <3>1 DEF AlarmInv, AlarmIsDue
    <2>2. GENERAL_ALARM_STATUS <=> any_broken # {}
      BY <2>1 DEF AlarmInv, ShownSinceAlarm
    <2>3. GENERAL_ALARM_STATUS \in BOOLEAN
      BY DEF AlarmInv, L!TypeOK
    <2> QED BY <2>2, <2>3
  <1> QED BY <1>1, AlarmHolds, PTL

(* Every interrupt of the I2C master finds a branch of its handler, also    *)
(* when a caller has given up its job and another has started on top of it  *)
(* (i2c_master_interrupt.c:578-660).                                        *)
THEOREM InterruptsAreServed == ASSUME S!I2cAssumption PROVE AnySpec => []InterruptIsServed
  <1>1. I2cInv => InterruptIsServed
    BY DEF I2cInv, Basics, JobIsServed, InterruptIsServed, S!InterruptIsServed, S!Interrupt
  <1> QED BY <1>1, I2cHolds, PTL

(* Unless a transfer outlasts the poll, a read that reports success took    *)
(* its own bytes from the sensor it asked; and unless a byte was refused, a *)
(* value is that of its own register, although the result of the write that *)
(* selects the register is ignored (i2c_local.c:37-88, 124-184).            *)
THEOREM ReadsAreFresh == ASSUME S!I2cAssumption PROVE AnySpec => []ReadIsFresh
  <1>1. ASSUME I2cInv PROVE S!ReadIsFresh
    <2> SUFFICES ASSUME stretches = 0
                 PROVE  /\ ~stray
                        /\ phase = "wait" /\ S!Call[call].dir = "read" /\ complete["read"] =>
                             Got(S!Call[call].len)
      BY DEF S!ReadIsFresh, Got
    <2>1. OneJob
      BY <1>1 DEF I2cInv
    <2> QED BY <2>1 DEF OneJob, JobOfCall, Finished
  <1>2. I2cInv => S!ValuesFromTheirRegisters
    BY DEF I2cInv, Chain, OwnValues, S!ValuesFromTheirRegisters
  <1>3. I2cInv => ReadIsFresh
    BY <1>1, <1>2 DEF ReadIsFresh
  <1> QED BY <1>3, I2cHolds, PTL
=============================================================================
