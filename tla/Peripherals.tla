---------------------------- MODULE Peripherals ----------------------------
(***************************************************************************)
(* The parts of the main loop that serve the peripherals, together: the    *)
(* measurement of the speed (Tacho), the alarm and the LEDs (Indicators)   *)
(* and the sensors (I2cSensors).  They share nothing that the properties   *)
(* below read, so a behaviour is one of a single part, chosen in the       *)
(* beginning, while the others stand: the sum of the three state spaces    *)
(* and not their product.                                                  *)
(***************************************************************************)
EXTENDS Tacho

CONSTANTS
  Sensors, Modes, Wrap, AlarmPeriod, LedPeriod, SlowLimit, MaxPass, Horizon, \* of Indicators
  Timeout, ThLen, MaxStretches, MaxNacks, MaxDelays                          \* of I2cSensors

VARIABLES part, led_pc, any_broken,
  jiffies, alarm_timer, last_led, passed, GENERAL_ALARM_STATUS,
  modbus_watchdog_triggered, GREEN_LED, RED_LED, led_toggle_value_slow,
  led_toggle_value_fast, toggle_time, green, red, steady,
  call, phase, cnt, complete, send, read, fresh, value, regs, broken, drv, inten,
  bus, ptr, nacks, delays, stretches, stray
tacho == vars
indicators == <<led_pc, any_broken, jiffies, alarm_timer, last_led, passed,
  GENERAL_ALARM_STATUS, modbus_watchdog_triggered, GREEN_LED, RED_LED, led_toggle_value_slow,
  led_toggle_value_fast, toggle_time, green, red, steady>>
sensors == <<call, phase, cnt, complete, send, read, fresh, value, regs, broken, drv, inten,
  bus, ptr, nacks, delays, stretches, stray>>
allVars == <<part, tacho, indicators, sensors>>

L == INSTANCE Indicators WITH pc <- led_pc, broken <- any_broken
S == INSTANCE I2cSensors

PeripheralsAssumption == TachoAssumption /\ L!IndicatorsAssumption /\ S!I2cAssumption

(* The registers of a part that stands may have any contents; one will do.  *)
AnyInit ==
  /\ part \in {"tacho", "indicators", "sensors"}
  /\ Init /\ (part # "tacho" => registers = <<CHOOSE p \in Pulses : TRUE, CHOOSE c \in Curves : TRUE>>)
  /\ L!Init /\ (part # "indicators" => {GREEN_LED, RED_LED} = {CHOOSE m \in Modes : TRUE})
  /\ S!Init

AnyNext ==
  \/ part = "tacho" /\ Next /\ UNCHANGED <<part, indicators, sensors>>
  \/ part = "indicators" /\ L!Next /\ UNCHANGED <<part, tacho, sensors>>
  \/ part = "sensors" /\ S!Next /\ UNCHANGED <<part, tacho, indicators>>

(* The fairness of the parts that have a liveness property.                 *)
AnyFairness ==
  /\ WF_tacho(part = "tacho" /\ (StartMeasurement \/ get_fan_speed))
  /\ SF_tacho(part = "tacho" /\ fan_sync_to_modbus)
  /\ WF_tacho(part = "tacho" /\ Tick) /\ WF_tacho(part = "tacho" /\ tc_callback_timer1)
  /\ WF_sensors(part = "sensors" /\ S!MainLoop) /\ WF_sensors(part = "sensors" /\ S!Answer)
  /\ WF_sensors(part = "sensors" /\ S!_i2c_master_interrupt_handler)

AnySpec == AnyInit /\ [][AnyNext]_allVars /\ AnyFairness
-----------------------------------------------------------------------------
(* The properties of the parts, as they state them; they hold while a part  *)
(* stands, too.                                                             *)

(* The general alarm follows the sensors in time (alarm.c:22-40).           *)
AlarmInTime == L!AlarmInTime
(* A read takes its own bytes, from the sensor it asked, and a value comes  *)
(* from its register (i2c_local.c:37-88, 124-184).                          *)
ReadIsFresh == S!ReadIsFresh /\ S!ValuesFromTheirRegisters
(* Every interrupt is served.                                               *)
InterruptIsServed == S!InterruptIsServed
(* A sensor that answers again is not reported broken for ever.             *)
SensorsRecover == S!SensorsRecover
=============================================================================
