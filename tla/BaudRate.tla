------------------------------ MODULE BaudRate ------------------------------
(***************************************************************************)
(* The baud rate of the MODBUS line: a variable of the environment (env.c) *)
(* that the console sets, do_modbus applies and do_env saves, and from     *)
(* which the silence that ends a frame is computed for a 16-bit timer      *)
(* (modbus.c).  A rate that the UART cannot have is tried for ever         *)
(* (uart.c:148) until the watchdog resets the unit.                        *)
(*                                                                         *)
(* Time is counted in clocks of the timer and appears as the distance of   *)
(* two characters.  Frames are only counted here; see ModbusRtu.           *)
(***************************************************************************)
EXTENDS Integers

CONSTANTS
  Rates,       \* values of modbus_baud_rate
  Default,     \* CFG_MODBUS_BAUD_RATE
  FrameSize,   \* characters of a frame
  BufSize      \* of rtu_buf

Clock == 8000000     \* Hz, of the timer and of the UART
Width == 65536       \* values of the timer

(* usart_init refuses a rate of less than 16 clocks per bit.                *)
Usable(rate) == rate * 16 <= Clock

BaudRateAssumption ==
  /\ Rates \subseteq Nat \ {0} /\ \A rate \in Rates : rate <= 100000000
  /\ Default \in Rates /\ Usable(Default)
  /\ {FrameSize, BufSize} \subseteq Nat \ {0, 1}
(* Of a slower rate than 4700 the silence does not fit the timer.           *)
SilenceFits == \A rate \in Rates : 8 * (38500000 \div rate) < Width

VARIABLES
  pc,              \* "env", "cli", "modbus"; "init": start; "stuck": usart_init
                   \*   is repeated in the main loop, "dead": in modbus_init
  env, env_dirty,  \* the rate in env_cache
  saved,           \* the rate in the EEPROM
  baud_rate, compare,
  rtu_ptr,
  sent,            \* line: characters of the frame that is being sent
  inStep           \* history: a silence has ended since the rate was changed
environment == <<env, env_dirty, saved>>
line == <<rtu_ptr, sent, inStep>>
vars == <<pc, environment, baud_rate, compare, line>>

TypeOK ==
  /\ pc \in {"env", "cli", "modbus", "init", "stuck", "dead"}
  /\ {env, saved, baud_rate} \subseteq Rates /\ env_dirty \in BOOLEAN
  /\ compare \in 0 .. Width - 1
  /\ rtu_ptr \in 0 .. BufSize - 1 /\ sent \in 0 .. FrameSize /\ inStep \in BOOLEAN

(* Mutant: microseconds are written to the timer.                           *)
SilenceInMicroseconds(rate) ==
  LET us == 38500000 \div rate
  IN  (IF us < 1750 THEN 1750 ELSE us) % Width
(* modbus_configure_timeout: the compare register has 16 bits.              *)
Silence(rate) ==
  LET us == 38500000 \div rate
  IN  (8 * (IF us < 1750 THEN 1750 ELSE us)) % Width

Init ==
  /\ pc = "init" /\ env = Default /\ saved = Default /\ env_dirty = FALSE
  /\ baud_rate = Default /\ compare = Silence(Default)
  /\ rtu_ptr = 0 /\ sent = 0 /\ inStep = FALSE
-----------------------------------------------------------------------------
(* The master uses the rate that is set.  Within a frame the line is idle   *)
(* for one and a half characters at most, between two frames for three and  *)
(* a half and 1750 us at least.                                             *)
CharacterTime == (11 * Clock) \div baud_rate
HalfCharacters == 0 .. 3
WithinFrame == {(CharacterTime * (2 + n)) \div 2 : n \in HalfCharacters}
BetweenFrames ==
  LET silence == (7 * CharacterTime) \div 2
  IN  CharacterTime + (IF silence > 14000 THEN silence ELSE 14000)

(* rtu_ptr has 8 bits and is always below the 256 bytes of rtu_buf: after   *)
(* the last of them it is 0 again.                                          *)
NextSlot == IF rtu_ptr + 1 = BufSize THEN 0 ELSE rtu_ptr + 1

(* modbus_receive restarts the timer; if its callback came before, it has   *)
(* ended the frame.                                                         *)
Received(distance) ==
  /\ IF distance >= compare
     THEN rtu_ptr' = 1 /\ inStep' = TRUE
     ELSE rtu_ptr' = NextSlot /\ UNCHANGED inStep
  /\ UNCHANGED <<pc, environment, baud_rate, compare>>

NextCharacter ==
  /\ pc \in {"env", "cli", "modbus"}
  /\ \/ /\ sent \in 1 .. FrameSize - 1 /\ sent' = sent + 1
        /\ \E distance \in WithinFrame : Received(distance)
     \/ sent \in {0, FrameSize} /\ sent' = 1 /\ Received(BetweenFrames)
-----------------------------------------------------------------------------

(* setenv.                                                                  *)
do_cli ==
  /\ pc = "cli" /\ pc' = "modbus"
  /\ \/ UNCHANGED environment
     \/ \E rate \in Rates : env' = rate /\ env_dirty' = TRUE /\ UNCHANGED saved
  /\ UNCHANGED <<baud_rate, compare, line>>

(* env_save commits what it writes.                                         *)
do_env ==
  /\ pc = "env" /\ pc' = "cli"
  /\ IF env_dirty THEN saved' = env /\ env_dirty' = FALSE /\ UNCHANGED env
     ELSE UNCHANGED environment
  /\ UNCHANGED <<baud_rate, compare, line>>

(* The frame on the line when the rate changes is lost.                     *)
Applied(rate) == compare' = Silence(rate) /\ sent' = 0 /\ inStep' = FALSE

do_modbus ==
  /\ pc = "modbus" /\ baud_rate' = env
  /\ IF env = baud_rate THEN pc' = "env" /\ UNCHANGED <<compare, line>>
     ELSE IF Usable(env) THEN pc' = "env" /\ Applied(env) /\ UNCHANGED rtu_ptr
     ELSE pc' = "stuck" /\ UNCHANGED <<compare, line>>
  /\ UNCHANGED environment

(* Loss of power, the reset pin, or SYSTEM_RESET: at any time.              *)
Restart ==
  /\ pc' = "init" /\ env_dirty' = FALSE
  /\ UNCHANGED <<baud_rate, compare, line>>

Reset ==
  /\ pc \notin {"init", "dead"} /\ Restart
  /\ \/ UNCHANGED saved
     \/ pc = "env" /\ env_dirty /\ saved' \in {env, Default}  \* in the middle of env_save
     \/ pc = "cli" /\ saved' = Default                      \* env_reset
  /\ env' = saved'

(* Mutant: the watchdog's handler saves the environment.                    *)
WatchdogResetSaving == pc = "stuck" /\ Restart /\ saved' = env /\ env' = env
WatchdogReset == pc = "stuck" /\ Restart /\ saved' = saved /\ env' = saved

(* env_init and modbus_init; the watchdog is started after both.            *)
modbus_init ==
  /\ pc = "init" /\ baud_rate' = env
  /\ IF Usable(env) THEN pc' = "env" /\ Applied(env) /\ rtu_ptr' = 0
     ELSE pc' = "dead" /\ UNCHANGED <<compare, line>>
  /\ UNCHANGED environment
-----------------------------------------------------------------------------
Main == do_env \/ do_cli \/ do_modbus \/ modbus_init
Next == Main \/ WatchdogReset \/ Reset \/ NextCharacter
Spec == Init /\ [][Next]_vars

(* The processor runs on, and the watchdog bites when it is not reset.      *)
Fairness == WF_vars(Main) /\ WF_vars(WatchdogReset)
-----------------------------------------------------------------------------
(* Properties *)

(* A unit that was given a rate which the UART refuses comes back with the  *)
(* rate it had: the refused one hangs the main loop before it can be saved, *)
(* and the start would hang on it before the watchdog runs (main.c:85-90,   *)
(* uart.c:148).                                                             *)
UnitComesBack == pc = "stuck" ~> pc = "env" /\ baud_rate = saved

(* From the first silence on, the fill pointer counts the characters of one *)
(* frame, modulo the size of the buffer: the silence neither ends a frame   *)
(* early nor joins two, also after the rate was changed, with "the silent   *)
(* timeout [of] 3.5 characters" of modbus.c:110.                            *)
FramesAreSeparated ==
  inStep /\ pc \in {"env", "cli", "modbus"} => rtu_ptr = sent % BufSize
=============================================================================
