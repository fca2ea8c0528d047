------------------------------ MODULE ModbusRtu ------------------------------
(***************************************************************************)
(* The MODBUS RTU framing layer of the fan-module controller (modbus.c).    *)
(*                                                                          *)
(* Three parties share rtu_buf, rtu_ptr and frame_len: the UART receive     *)
(* interrupt (modbus_receive), the silence-timer interrupt                  *)
(* (modbus_tc_callback) and the main loop (do_modbus).  The two interrupts  *)
(* have the same NVIC priority, so each runs to completion; the main loop   *)
(* is interrupted between any two of its steps.  The line and the master    *)
(* are the environment: characters may be lost or garbled, frames may be    *)
(* of any size, and the gap between two characters or two frames may or     *)
(* may not be long enough for the silence timer.                            *)
(*                                                                          *)
(* A character is abstracted to what the properties tell apart: the frame   *)
(* it belongs to (0 for line noise), its position and the size of that      *)
(* frame, and the value the address test would see in it.  The CRC is the   *)
(* ideal one: it accepts exactly an unmodified whole frame.                 *)
(***************************************************************************)
EXTENDS Integers, Sequences

CONSTANTS
  BufSize,       \* sizeof(rtu_buf), which is also the range of uint8_t rtu_ptr
  MaxFrames,     \* bound: frames the master sends
  MaxFaults,     \* bound: characters the line garbles or drops
  Sizes,         \* sizes of the frames on the line
  Addresses,     \* address bytes on the line
  OwnAddresses,  \* addresses the DIP switches and the environment may select
  ReplySizes     \* sizes of the replies (resp_len + 4)

ASSUME BufSizeAssumption == BufSize \in Nat /\ BufSize > 5
ASSUME BoundsAssumption == MaxFrames \in Nat /\ MaxFaults \in Nat
ASSUME SizesAssumption == Sizes \subseteq Nat \ {0}
ASSUME ReplyAssumption == ReplySizes \subseteq 1 .. BufSize
ASSUME AddressAssumption == Addresses \subseteq Nat /\ OwnAddresses \subseteq Nat \ {0}
                            /\ OwnAddresses # {}

Broadcast == 0
MinFrame == 5      \* rtu_ptr >= 5 in modbus_tc_callback

VARIABLES
  line,                       \* the frame on the line and how much of it is gone
  faults,                     \* line faults so far
  rtu_buf, rtu_ptr,           \* receive buffer and its fill pointer
  frame_len,                  \* length of the frame handed to the main loop, or 0
  timer,                      \* the silence timer is counting
  slave_address,
  modbus_watchdog_triggered,
  pc,                         \* where do_modbus stands
  sealedFor,                  \* history: slave_address when frame_len was set, or 0
  executed,                   \* history: the requests executed, in order
  reply,                      \* history: the reply as modbus_parse_frame composed it
  out                         \* history: the reply as it went out on the line

lineVars == <<line, faults>>
bufVars  == <<rtu_buf, rtu_ptr, frame_len, timer, sealedFor>>
mainVars == <<slave_address, modbus_watchdog_triggered, pc, executed, reply, out>>
vars == <<lineVars, bufVars, mainVars>>

Slots == 0 .. BufSize - 1

Char == [frame : Nat, pos : Nat, size : Nat, val : Nat]
Blank == [frame |-> 0, pos |-> 0, size |-> 0, val |-> 0]
Noise(v) == [Blank EXCEPT !.val = v]

(* The i-th character of the frame now on the line.                         *)
LineChar(i) == [frame |-> line.frame, pos |-> i, size |-> line.size,
                val |-> IF i = 1 THEN line.to ELSE line.fill]

(* modbus_crc16 over the first n characters: an unmodified whole frame.     *)
Whole(buf, n) ==
  /\ buf[0].frame # 0
  /\ buf[0].size = n
  /\ \A i \in 0 .. n - 1 : buf[i].frame = buf[0].frame /\ buf[i].pos = i + 1

(* Mutant: the increment does not wrap.                                     *)
NextSlotUnbounded(p) == p + 1

(* uint8_t rtu_ptr has the range of the buffer's indices: its increment     *)
(* wraps, and the test rtu_ptr < sizeof(rtu_buf) is always true.            *)
NextSlot(p) == IF p + 1 = BufSize THEN 0 ELSE p + 1

Init ==
  /\ line = [frame |-> 0, to |-> 0, fill |-> 0, size |-> 0, sent |-> 0]
  /\ faults = 0
  /\ rtu_buf = [i \in Slots |-> Blank]
  /\ rtu_ptr = 0
  /\ frame_len = 0
  /\ timer = FALSE
  /\ slave_address \in OwnAddresses
  /\ modbus_watchdog_triggered = 0
  /\ pc = "top"
  /\ sealedFor = 0
  /\ executed = <<>>
  /\ reply = <<>>
  /\ out = <<>>

-----------------------------------------------------------------------------
(* Interrupt handlers.                                                      *)

(* Mutant: the guard !frame_len of the receive interrupt is missing.        *)
ReceiveAlways(ch) ==
  /\ rtu_buf' = [rtu_buf EXCEPT ![rtu_ptr] = ch]
  /\ rtu_ptr' = NextSlot(rtu_ptr)
  /\ timer' = TRUE
  /\ UNCHANGED <<frame_len, sealedFor>>

modbus_receive(ch) ==
  /\ IF frame_len = 0
     THEN /\ rtu_buf' = [rtu_buf EXCEPT ![rtu_ptr] = ch]
          /\ rtu_ptr' = NextSlot(rtu_ptr)
     ELSE UNCHANGED <<rtu_buf, rtu_ptr>>
  /\ timer' = TRUE
  /\ UNCHANGED <<frame_len, sealedFor>>

(* The frame in the buffer is for this slave, long enough, and the previous *)
(* one has been processed.                                                  *)
Acceptable ==
  /\ rtu_buf[0].val \in {Broadcast, slave_address}
  /\ rtu_ptr >= MinFrame
  /\ frame_len = 0

(* Mutant: the fill pointer is only reset when the frame is not accepted.   *)
SealWithoutReset ==
  /\ timer
  /\ timer' = FALSE
  /\ IF rtu_ptr # 0 /\ Acceptable
     THEN frame_len' = rtu_ptr /\ sealedFor' = slave_address /\ UNCHANGED rtu_ptr
     ELSE rtu_ptr' = 0 /\ UNCHANGED <<frame_len, sealedFor>>
  /\ UNCHANGED <<lineVars, mainVars, rtu_buf>>

modbus_tc_callback ==
  /\ timer
  /\ timer' = FALSE
  /\ IF rtu_ptr # 0 /\ Acceptable
     THEN frame_len' = rtu_ptr /\ sealedFor' = slave_address
     ELSE UNCHANGED <<frame_len, sealedFor>>
  /\ rtu_ptr' = 0
  /\ UNCHANGED <<lineVars, mainVars, rtu_buf>>

-----------------------------------------------------------------------------
(* The line.                                                                *)

(* The master begins its next frame.                                        *)
StartFrame ==
  /\ line.sent = line.size
  /\ line.frame < MaxFrames
  /\ \E to, fill \in Addresses, n \in Sizes :
       line' = [frame |-> line.frame + 1, to |-> to, fill |-> fill,
                size |-> n, sent |-> 0]
  /\ UNCHANGED <<faults, bufVars, mainVars>>

(* DE and RE are high: the receiver is off.                                 *)
ReceiverOff == pc = "send"

(* One character goes over the line: received as sent, garbled, or lost     *)
(* (for free while the receiver is off, else a fault of the line).          *)
LineStep ==
  /\ line.sent < line.size
  /\ line' = [line EXCEPT !.sent = @ + 1]
  /\ UNCHANGED mainVars
  /\ \/ /\ ~ReceiverOff
        /\ modbus_receive(LineChar(line.sent + 1))
        /\ UNCHANGED faults
     \/ /\ ~ReceiverOff
        /\ faults < MaxFaults
        /\ faults' = faults + 1
        /\ \E v \in Addresses : modbus_receive(Noise(v))
     \/ /\ ReceiverOff \/ faults < MaxFaults
        /\ faults' = IF ReceiverOff THEN faults ELSE faults + 1
        /\ UNCHANGED bufVars

-----------------------------------------------------------------------------
(* do_modbus, between two interruptible steps.                              *)

(* The slave address follows the switches and the environment, and the      *)
(* dead time may have run out since the last valid frame.                   *)
Housekeeping ==
  /\ pc = "top"
  /\ pc' = "sample"
  /\ slave_address' \in OwnAddresses
  /\ modbus_watchdog_triggered' \in {modbus_watchdog_triggered, 1}
  /\ UNCHANGED <<lineVars, bufVars, executed, reply, out>>

(* len = frame_len under the critical section.                              *)
SampleFrameLen ==
  /\ pc = "sample"
  /\ pc' = IF frame_len # 0 THEN "check" ELSE "top"
  /\ UNCHANGED <<lineVars, bufVars, slave_address, modbus_watchdog_triggered,
                 executed, reply, out>>

(* Mutant: the watchdog is fed before the checksum is known to be good.     *)
FeedBeforeCheck ==
  /\ pc = "check"
  /\ pc' = IF Whole(rtu_buf, frame_len) THEN "execute" ELSE "clear"
  /\ modbus_watchdog_triggered' = 0
  /\ UNCHANGED <<lineVars, bufVars, slave_address, executed, reply, out>>

(* Mutant: a frame with a bad checksum is dropped without a release.        *)
DropWithoutRelease ==
  /\ pc = "check"
  /\ IF Whole(rtu_buf, frame_len)
     THEN pc' = "execute" /\ modbus_watchdog_triggered' = 0
     ELSE pc' = "top" /\ UNCHANGED modbus_watchdog_triggered
  /\ UNCHANGED <<lineVars, bufVars, slave_address, executed, reply, out>>

(* modbus_parse_frame: drop a frame with a bad CRC, else feed the watchdog. *)
CheckFrame ==
  /\ pc = "check"
  /\ IF Whole(rtu_buf, frame_len)
     THEN pc' = "execute" /\ modbus_watchdog_triggered' = 0
     ELSE pc' = "clear" /\ UNCHANGED modbus_watchdog_triggered
  /\ UNCHANGED <<lineVars, bufVars, slave_address, executed, reply, out>>

(* A reply built over the request: the address stays, the rest changes.     *)
ReplyChar(k, i) == [frame |-> k, pos |-> i + 1, size |-> 0, val |-> 0]

Overwrite(buf, k, n) ==
  [i \in Slots |-> IF i \in 1 .. n - 1 THEN ReplyChar(k, i) ELSE buf[i]]

Prefix(buf, n) == [i \in 1 .. n |-> buf[i - 1]]

(* What the switch of modbus_parse_frame sees in the buffer.                *)
Request == [frame |-> rtu_buf[0].frame, whole |-> Whole(rtu_buf, frame_len),
            to |-> rtu_buf[0].val, self |-> sealedFor]

(* The switch of modbus_parse_frame: the request is executed and the reply  *)
(* is built in place with its checksum; that of a single or masked write is *)
(* the request itself, left as it is.                                       *)
ExecuteRequest ==
  /\ pc = "execute"
  /\ pc' = "respond"
  /\ executed' = Append(executed, Request)
  /\ \/ \E n \in ReplySizes :
          /\ rtu_buf' = Overwrite(rtu_buf, rtu_buf[0].frame, n)
          /\ reply' = Prefix(rtu_buf', n)
     \/ /\ rtu_buf' = rtu_buf
        /\ reply' = Prefix(rtu_buf, frame_len)
  /\ UNCHANGED <<lineVars, rtu_ptr, frame_len, timer, sealedFor,
                 slave_address, modbus_watchdog_triggered, out>>

(* modbus_send_response: receiver off, driver on.                           *)
EnableDriver ==
  /\ pc = "respond"
  /\ pc' = "send"
  /\ UNCHANGED <<lineVars, bufVars, slave_address, modbus_watchdog_triggered,
                 executed, reply, out>>

(* uart_write from rtu_buf, then the receiver is on again.                  *)
SendReply ==
  /\ pc = "send"
  /\ pc' = "clear"
  /\ out' = Prefix(rtu_buf, Len(reply))
  /\ UNCHANGED <<lineVars, bufVars, slave_address, modbus_watchdog_triggered,
                 executed, reply>>

(* Allow further input: frame_len = 0 under the critical section.           *)
ReleaseBuffer ==
  /\ pc = "clear"
  /\ pc' = "top"
  /\ frame_len' = 0
  /\ sealedFor' = 0 /\ reply' = <<>> /\ out' = <<>>
  /\ UNCHANGED <<lineVars, rtu_buf, rtu_ptr, timer, slave_address,
                 modbus_watchdog_triggered, executed>>

do_modbus == \/ Housekeeping \/ SampleFrameLen \/ CheckFrame
             \/ ExecuteRequest \/ EnableDriver \/ SendReply \/ ReleaseBuffer

Next == StartFrame \/ LineStep \/ modbus_tc_callback \/ do_modbus

(* The timer counts by itself and the main loop never blocks; the master is *)
(* under no obligation to send.                                             *)
Spec == Init /\ [][Next]_vars /\ WF_vars(modbus_tc_callback) /\ WF_vars(do_modbus)

-----------------------------------------------------------------------------
(* Properties.                                                              *)

(* Every variable has its type; pointers stay within their uint8_t range.   *)
TypeOK ==
  /\ line \in [frame : Nat, to : Nat, fill : Nat, size : Nat, sent : Nat]
  /\ line.sent <= line.size
  /\ faults \in Nat
  /\ rtu_buf \in [Slots -> Char]
  /\ rtu_ptr \in Slots
  /\ frame_len \in Slots
  /\ timer \in BOOLEAN
  /\ slave_address \in OwnAddresses
  /\ modbus_watchdog_triggered \in {0, 1}
  /\ pc \in {"top", "sample", "check", "execute", "respond", "send", "clear"}
  /\ sealedFor \in Nat
  /\ executed \in Seq([frame : Nat, whole : BOOLEAN, to : Nat, self : Nat])
  /\ reply \in Seq(Char) /\ Len(reply) <= BufSize
  /\ out \in Seq(Char)

(* The checksum is checked in one step and the request is read from the     *)
(* same buffer in a later one, with receive and timer interrupts between    *)
(* them: what is executed is nevertheless an intact frame of the master,    *)
(* addressed to this slave (or to all) when the timer accepted it.          *)
RequestsAreWhole ==
  \A j \in DOMAIN executed :
    executed[j].whole /\ executed[j].to \in {Broadcast, executed[j].self}

(* The requests are executed in the order of the line and none twice,       *)
(* whatever is lost, garbled, merged or cut: a stale frame in rtu_buf is    *)
(* never taken for a new one.                                               *)
RequestsInOrderOnce ==
  \A i, j \in DOMAIN executed : i < j => executed[i].frame < executed[j].frame

(* The reply is built in the receive buffer: no character received while it *)
(* is built and sent gets into it.                                          *)
RepliesAreUntorn == out # <<>> => out = reply

(* The MODBUS watchdog, which takes the fan out of its fallback speed, is   *)
(* only reset by an intact frame this slave accepted.                       *)
WatchdogFedByWholeFrames ==
  [][modbus_watchdog_triggered = 1 /\ modbus_watchdog_triggered' = 0
     => /\ Whole(rtu_buf, frame_len)
        /\ rtu_buf[0].val \in {Broadcast, sealedFor}]_vars

(* The frame on the line, complete, for this slave and alone in the buffer. *)
Received ==
  /\ line.frame # 0 /\ line.sent = line.size
  /\ frame_len = 0
  /\ rtu_ptr = line.size /\ rtu_ptr >= MinFrame
  /\ Whole(rtu_buf, rtu_ptr) /\ rtu_buf[0].frame = line.frame
  /\ rtu_buf[0].val \in {Broadcast, slave_address}

(* A frame received in one piece is executed, unless the master starts the  *)
(* next one before the silence is over or the slave changes its address;    *)
(* and the receive buffer is released whatever was in it, so that no frame  *)
(* makes the receiver deaf for the next ones (modbus.c:362-378, 585-595).   *)
ReceivedFrameIsExecuted ==
  /\ []<>(frame_len = 0)
  /\ \A k \in 1 .. MaxFrames :
       (Received /\ line.frame = k)
         ~> \/ \E j \in DOMAIN executed : executed[j].frame = k
            \/ line.frame # k
            \/ line.to \notin {Broadcast, slave_address}
=============================================================================
