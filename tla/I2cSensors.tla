----------------------------- MODULE I2cSensors -----------------------------
(***************************************************************************)
(* The sensors on the I2C bus: do_i2c_local and its waiting reads and      *)
(* writes (i2c_local.c) over the job interface and the interrupt handler   *)
(* of the I2C master driver (i2c_master_interrupt.c).                      *)
(*                                                                         *)
(* The main loop starts a job and polls a flag that the interrupt handler  *)
(* sets on completion; the driver reports no error, the poll gives up      *)
(* after a time.  Interrupts may come between any two steps of the caller, *)
(* also between the start of the job and the reset of its flag.            *)
(*                                                                         *)
(* The bus is the environment: it acknowledges or refuses each byte.  One  *)
(* master only, so arbitration is never lost.  A byte takes 90 us and the  *)
(* poll waits milliseconds: a transfer ends within one period of it unless *)
(* a slave stretches the clock.                                            *)
(***************************************************************************)
EXTENDS Integers

CONSTANTS
  Timeout,     \* CFG_I2C_MASTER_TIMEOUT, in periods of the poll
  ThLen,       \* bytes of a measurement of the temperature/humidity sensor (6)
  MaxStretches,\* bound: periods of the poll during transfers
  MaxNacks,    \* bound: bytes refused by a sensor
  MaxDelays    \* bound: transfers that end before the flag is reset

I2cAssumption ==
  /\ Timeout \in Nat /\ MaxStretches \in Nat
  /\ ThLen \in 1 .. 10                  \* it fits read_buffer
  /\ MaxNacks \in Nat /\ MaxDelays \in Nat

(* The calls of a round, in order; 0 stands for the rest of the main loop. *)
Call == <<
  [dir |-> "write", dev |-> "ina226", len |-> 1],
  [dir |-> "read",  dev |-> "ina226", len |-> 2],
  [dir |-> "write", dev |-> "ina226", len |-> 1],
  [dir |-> "read",  dev |-> "ina226", len |-> 2],
  [dir |-> "read",  dev |-> "t_h",    len |-> ThLen],
  [dir |-> "write", dev |-> "t_h",    len |-> 2] >>
Measure == 6                   \* the last one starts a measurement
Calls == 1 .. Measure

(* First byte of send_buffer: a register of the INA226, or a command.       *)
Command == [c \in {1, 3, Measure} |->
              CASE c = 1 -> "current" [] c = 3 -> "voltage" [] c = Measure -> "measure"]
Sources == {"config", "current", "voltage", "measure", "t_h"}
Values == {"current", "voltage", "t_h"}

VARIABLES
  call,        \* the call in progress
  phase,       \* of the call: "start", "clear", "wait", "delay"; "idle"
  cnt,         \* cnt_i2c_master_timeout
  complete,    \* i2c_master_write_complete, i2c_master_read_complete
  send,        \* first byte of send_buffer
  read,        \* read_buffer: where each byte comes from
  fresh,       \* history: bytes of read_buffer received since the job began
  value,       \* the measured values: the sources of their bytes; {}: 0
  regs,        \* the values in the input registers
  broken,      \* the DIS_INPUT__..._SENSOR_BROKEN inputs
  drv,         \* the driver: buffer_length, buffer_remaining, direction, busy
  inten,       \* the interrupts of the I2C master are enabled
  bus,         \* the operation on the bus, its slave and its answer
  ptr,         \* the register that the INA226 reads next
  nacks, delays, stretches,
  stray        \* a byte was stored outside the buffer of the job
callerVars == <<call, phase, cnt, send, value, regs, broken>>
bounds == <<nacks, delays, stretches>>
driverVars == <<drv, inten, read, fresh, stray>>
vars == <<callerVars, driverVars, complete, bus, ptr, bounds>>

BufferIndex == 0 .. 9
Quiet == [op |-> "none", dev |-> "ina226", byte |-> "config", answer |-> "none"]
BusOps == [op : {"none", "address", "write", "read"}, dev : {"ina226", "t_h"},
           byte : Sources, answer : {"none", "ack", "nack"}]

TypeOK ==
  /\ call \in {0} \cup Calls /\ phase \in {"idle", "start", "clear", "wait", "delay"}
  /\ cnt \in 0 .. Timeout + 1 /\ complete \in [{"write", "read"} -> BOOLEAN]
  /\ send \in Sources /\ read \in [BufferIndex -> Sources] /\ fresh \subseteq BufferIndex
  /\ value \in [Values -> SUBSET Sources] /\ regs \in [Values -> SUBSET Sources]
  /\ broken \in [Values -> BOOLEAN]
  /\ drv \in [length : 0 .. 10, remaining : 0 .. 10, dir : {"write", "read"}, busy : BOOLEAN]
  /\ inten \in BOOLEAN /\ bus \in BusOps /\ ptr \in Sources
  /\ nacks \in 0 .. MaxNacks /\ delays \in 0 .. MaxDelays
  /\ stretches \in 0 .. MaxStretches /\ stray \in BOOLEAN

(* i2c_local_init ends with the start of the first measurement.             *)
Init ==
  /\ call = Measure /\ phase = "start" /\ cnt = 0
  /\ complete = [d \in {"write", "read"} |-> FALSE]
  /\ send = Command[Measure] /\ read = [i \in BufferIndex |-> "config"] /\ fresh = {}
  /\ value = [v \in Values |-> {}] /\ regs = value /\ broken = [v \in Values |-> FALSE]
  /\ drv = [length |-> 0, remaining |-> 0, dir |-> "write", busy |-> FALSE]
  /\ inten = FALSE /\ bus = Quiet /\ ptr = "config"
  /\ nacks = 0 /\ delays = 0 /\ stretches = 0 /\ stray = FALSE
-----------------------------------------------------------------------------
(* The main loop: do_i2c_local, i2c_get_values, i2c_master_write and        *)
(* i2c_master_read.                                                         *)

(* Mutant: the command of a call is put in the buffer when the call before begins. *)
BeginCallWithoutCommand(c) ==
  /\ call' = c /\ phase' = "start"
  /\ send' = IF c = 1 THEN Command[c] ELSE send

BeginCall(c) ==
  /\ call' = c /\ phase' = "start"
  /\ send' = IF c \in DOMAIN Command THEN Command[c] ELSE send

StartRound ==
  /\ phase = "idle" /\ BeginCall(1)
  /\ UNCHANGED <<cnt, value, regs, broken, driverVars, complete, bus, ptr, bounds>>

(* What a read leaves in its variable and its sensor's flag.                *)
Taken(v, ok, bytes) ==
  /\ value' = [value EXCEPT ![v] = IF ok THEN {read[i] : i \in bytes} ELSE {}]
  /\ broken' = [broken EXCEPT ![v] = ~ok]

(* The result of a write is ignored; the last call ends the round, and      *)
(* i2c_local_sync_to_modbus copies the values.                              *)
Return(ok) ==
  /\ IF call = Measure
     THEN call' = 0 /\ phase' = "idle" /\ regs' = value /\ UNCHANGED send
     ELSE BeginCall(call + 1) /\ UNCHANGED regs
  /\ CASE call = 2 -> Taken("current", ok, {0, 1})
       [] call = 4 -> Taken("voltage", ok, {0, 1})
       [] call = 5 -> Taken("t_h", ok, 0 .. ThLen - 1)
       [] OTHER -> UNCHANGED <<value, broken>>

(* i2c_master_write_packet_job, i2c_master_read_packet_job.                 *)
JobIsBusy == drv.remaining > 0

StartJob ==
  /\ phase = "start" /\ ~JobIsBusy /\ phase' = "clear"
  /\ drv' = [drv EXCEPT !.remaining = Call[call].len, !.dir = Call[call].dir, !.busy = TRUE]
  /\ inten' = TRUE
  /\ bus' = [Quiet EXCEPT !.op = "address", !.dev = Call[call].dev]
  /\ fresh' = IF Call[call].dir = "read" THEN {} ELSE fresh
  /\ UNCHANGED <<call, cnt, send, value, regs, broken, read, stray, complete, ptr, bounds>>

StartBusy ==
  /\ phase = "start" /\ JobIsBusy /\ Return(FALSE)
  /\ UNCHANGED <<cnt, driverVars, complete, bus, ptr, bounds>>

ClearFlag ==
  /\ phase = "clear" /\ phase' = "wait" /\ cnt' = 0
  /\ complete' = [complete EXCEPT ![Call[call].dir] = FALSE]
  /\ UNCHANGED <<call, send, value, regs, broken, driverVars, bus, ptr, bounds>>

Poll ==
  /\ phase = "wait"
  /\ \/ complete[Call[call].dir] /\ Return(TRUE)
     \/ ~complete[Call[call].dir] /\ phase' = "delay"
        /\ UNCHANGED <<call, send, value, regs, broken>>
  /\ UNCHANGED <<cnt, driverVars, complete, bus, ptr, bounds>>

Expire ==
  /\ cnt > Timeout /\ Return(FALSE)
  /\ complete' = [complete EXCEPT ![Call[call].dir] = TRUE]
  /\ UNCHANGED cnt

Count ==
  /\ cnt <= Timeout /\ cnt' = cnt + 1 /\ phase' = "wait"
  /\ UNCHANGED <<call, send, value, regs, broken, complete>>

(* A millisecond of waiting, and the test of the time.                      *)
Delay ==
  /\ phase = "delay"
  /\ IF bus.op = "none" THEN UNCHANGED stretches
     ELSE stretches < MaxStretches /\ stretches' = stretches + 1
  /\ Expire \/ Count
  /\ UNCHANGED <<driverVars, bus, ptr, nacks, delays>>
-----------------------------------------------------------------------------
(* The bus: the addressed sensor answers, and takes the byte written.       *)

Answer ==
  /\ bus.op # "none" /\ bus.answer = "none"
  /\ IF phase = "clear" THEN delays < MaxDelays /\ delays' = delays + 1 ELSE UNCHANGED delays
  /\ \/ bus' = [bus EXCEPT !.answer = "ack"] /\ UNCHANGED nacks
        /\ ptr' = IF bus.op = "write" /\ bus.dev = "ina226" THEN bus.byte ELSE ptr
     \/ bus.op # "read" /\ nacks < MaxNacks /\ nacks' = nacks + 1
        /\ bus' = [bus EXCEPT !.answer = "nack"] /\ UNCHANGED ptr
  /\ UNCHANGED <<callerVars, driverVars, complete, stretches>>
-----------------------------------------------------------------------------
(* The interrupt handler, one action per branch.                            *)

Interrupt == inten /\ bus.answer # "none"

(* What the addressed sensor sends.                                         *)
SentByte == IF bus.dev = "ina226" THEN ptr ELSE "t_h"

(* _i2c_master_write, acknowledged: the next byte goes to the bus.          *)
WriteByte(d) ==
  /\ drv' = [d EXCEPT !.remaining = @ - 1]
  /\ bus' = [bus EXCEPT !.op = "write", !.byte = send, !.answer = "none"]
  /\ UNCHANGED <<inten, read, fresh, stray, complete>>

(* _i2c_master_read: the received byte goes to the buffer; the last one     *)
(* ends the job, with its callback.                                         *)
ReadByte(d) ==
  LET index == (d.length - d.remaining) % 65536
      last == d.remaining = 1
  IN /\ IF index \in BufferIndex
        THEN /\ read' = [read EXCEPT ![index] = SentByte]
             /\ fresh' = fresh \cup {index} /\ UNCHANGED stray
        ELSE stray' = TRUE /\ UNCHANGED <<read, fresh>>
     /\ drv' = [d EXCEPT !.remaining = @ - 1, !.length = IF last THEN 0 ELSE @, !.busy = ~last]
     /\ inten' = ~last
     /\ bus' = IF last THEN Quiet ELSE [bus EXCEPT !.op = "read", !.answer = "none"]
     /\ complete' = [complete EXCEPT !["read"] = last \/ @]

(* Mutant: the handler leaves the interrupt enabled when a job fails.       *)
JobFailsInterruptible ==
  /\ drv' = [drv EXCEPT !.length = 0, !.remaining = 0, !.busy = FALSE]
  /\ bus' = [bus EXCEPT !.op = "none"]
  /\ UNCHANGED <<inten, read, fresh, stray, complete>>

(* Mutant: the handler leaves the job of a refused byte unfinished.         *)
JobFailsUnfinished ==
  /\ inten' = FALSE /\ bus' = Quiet
  /\ UNCHANGED <<drv, read, fresh, stray, complete>>

(* Any error ends the job: no callback is registered for it.                *)
JobFails ==
  /\ drv' = [drv EXCEPT !.length = 0, !.remaining = 0, !.busy = FALSE]
  /\ inten' = FALSE /\ bus' = Quiet
  /\ UNCHANGED <<read, fresh, stray, complete>>

(* _i2c_master_async_address_response: the slave has, or has not, answered. *)
OnAddress ==
  /\ drv.length = 0 /\ drv.remaining > 0
  /\ LET d == [drv EXCEPT !.length = drv.remaining]
     IN \/ bus.answer = "nack" /\ JobFails
        \/ bus.answer = "ack" /\ drv.dir = "write" /\ WriteByte(d)
        \/ bus.answer = "ack" /\ drv.dir = "read" /\ ReadByte(d)

(* The last byte of a write is on the wire: its answer is not looked at.    *)
OnWriteDone ==
  /\ drv.length > 0 /\ drv.remaining = 0 /\ drv.busy /\ drv.dir = "write"
  /\ drv' = [drv EXCEPT !.length = 0, !.busy = FALSE]
  /\ inten' = FALSE /\ bus' = Quiet
  /\ complete' = [complete EXCEPT !["write"] = TRUE]
  /\ UNCHANGED <<read, fresh, stray>>

OnByte ==
  /\ drv.length > 0 /\ drv.remaining > 0
  /\ \/ drv.dir = "write" /\ bus.answer = "nack" /\ JobFails
     \/ drv.dir = "write" /\ bus.answer = "ack" /\ WriteByte(drv)
     \/ drv.dir = "read" /\ ReadByte(drv)

_i2c_master_interrupt_handler ==
  /\ Interrupt
  /\ OnAddress \/ OnWriteDone \/ OnByte
  /\ UNCHANGED <<callerVars, ptr, bounds>>
-----------------------------------------------------------------------------
MainLoop == StartRound \/ StartJob \/ StartBusy \/ ClearFlag \/ Poll \/ Delay
Next == MainLoop \/ Answer \/ _i2c_master_interrupt_handler
Spec == Init /\ [][Next]_vars

(* The main loop never stops, interrupts are taken, a slave answers.        *)
Fairness ==
  WF_vars(MainLoop) /\ WF_vars(_i2c_master_interrupt_handler) /\ WF_vars(Answer)
-----------------------------------------------------------------------------
(* Properties *)

(* Unless a transfer outlasts the poll, no byte is stored outside the       *)
(* buffer of its job, and a read that reports success has received all its  *)
(* bytes since it began from the sensor it asked: a completion left over    *)
(* from an earlier call is never taken for its own (i2c_local.c:167-171,    *)
(* i2c_master_interrupt.c:55).                                              *)
ReadIsFresh ==
  stretches = 0 =>
    /\ ~stray
    /\ phase = "wait" /\ Call[call].dir = "read" /\ complete["read"] =>
         /\ 0 .. Call[call].len - 1 \subseteq fresh
         /\ \A i \in 0 .. Call[call].len - 1 : (read[i] = "t_h") <=> (Call[call].dev = "t_h")

(* While no byte was refused and no transfer has outlasted the poll, a      *)
(* value comes from the register that the call before selected, whatever    *)
(* the reads and writes before it have reported (i2c_local.c:41-66: the     *)
(* result of the selecting write is ignored).                               *)
ValuesFromTheirRegisters ==
  nacks = 0 /\ stretches = 0 => \A v \in Values : value[v] \subseteq {v}

(* Every interrupt of the I2C master finds a branch of the handler that     *)
(* clears its cause; one that does not would be taken again for ever        *)
(* (i2c_master_interrupt.c:578-660).                                        *)
InterruptIsServed ==
  Interrupt => \/ drv.remaining > 0
               \/ drv.length > 0 /\ drv.busy /\ drv.dir = "write"

(* When the sensors have stopped refusing and stretching, every flag is     *)
(* cleared again: neither a job left over nor a completion that was missed  *)
(* stops the rounds (i2c_local.c:125-176).                                  *)
SensorsRecover == \A v \in Values : broken[v] ~> ~broken[v]
=============================================================================
