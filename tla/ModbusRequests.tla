--------------------------- MODULE ModbusRequests ---------------------------
(***************************************************************************)
(* What the slave does with a MODBUS request (modbus.c, modbus_parse_frame *)
(* and modbus_send_response): the request is decoded from the receive      *)
(* buffer, checked, executed on the registers, and answered in place, in   *)
(* the bytes it was decoded from.                                          *)
(*                                                                         *)
(* Everything but one input register belongs to the main loop.  The        *)
(* deviation of the speed is written by the interrupt of the tachometer,   *)
(* also between two registers of one reply.                                *)
(*                                                                         *)
(* Bytes have W bits and the buffer 2^W of them (W = 8 in the code), so    *)
(* that the lengths, which are bytes, wrap where they wrap in the code.    *)
(* CRCs are ideal.                                                         *)
(***************************************************************************)
EXTENDS Integers, Sequences

CONSTANTS
  W,                                           \* bits of a byte
  Power,                                       \* Power[n] is 2^n, up to the bits of a word
  Discretes, Inputs, Holdings,                 \* CFG_MODBUS_DISCRETE_INPUTS, ...
  READ_DISCRETE_INPUTS, READ_HOLDING_REGS, READ_INPUT_REGS, WRITE_SINGLE_REG,
  WRITE_MULTIPLE_REGS, RW_MULTIPLE_REGS, MASK_WRITE_REG,
  UPGRADE_DATA_ADDRESS,
  RPM_DEVIATION,                               \* an input register
  Requests,    \* the requests that the master sends
  Stored,      \* the holding registers that are found at the start
  Bits, Words, \* the contents of registers that other parts write
  MaxRequests, \* bound: requests
  MaxEvents    \* bound: changes of registers by the rest of the program

Base == Power[W]
Byte == 0 .. Base - 1
Word == 0 .. Base * Base - 1
Buffer == 0 .. Base - 1
Codes == <<READ_DISCRETE_INPUTS, READ_HOLDING_REGS, READ_INPUT_REGS,
  WRITE_SINGLE_REG, WRITE_MULTIPLE_REGS, RW_MULTIPLE_REGS, MASK_WRITE_REG>>
Functions == {Codes[k] : k \in DOMAIN Codes}

(* The bits of a number, and the number with n given bits.                  *)
BitOf(v, n) == (v \div Power[n]) % 2
NumberOf(bit, n) ==
  CHOOSE v \in 0 .. Power[n] - 1 : \A k \in 0 .. n - 1 : BitOf(v, k) = bit[k]

(* A request of the master is the sequence of its bytes without the CRC.    *)
Asked(s, k) == s[k] * Base + s[k + 1]

(* The length of the frame is the one its function and its quantity of      *)
(* registers to write ask for.  The quantity to read is any.                *)
WellFormed(s) ==
  /\ s \in Seq(Byte) /\ Len(s) \in 2 .. Base - 3
  /\ s[2] \in {READ_DISCRETE_INPUTS, READ_HOLDING_REGS, READ_INPUT_REGS, WRITE_SINGLE_REG} => Len(s) = 6
  /\ s[2] = WRITE_MULTIPLE_REGS => Len(s) >= 7 /\ Len(s) = 7 + 2 * Asked(s, 5)
  /\ s[2] = RW_MULTIPLE_REGS => Len(s) >= 11 /\ Len(s) = 11 + 2 * Asked(s, 9)
  /\ s[2] = MASK_WRITE_REG => Len(s) = 8

RequestsAssumption ==
  /\ W \in Nat /\ W > 2 /\ Power \in [0 .. 2 * W -> Nat]
  /\ Power[0] = 1 /\ \A n \in 0 .. 2 * W - 1 : Power[n + 1] = 2 * Power[n]
  /\ \A j, k \in DOMAIN Codes : Codes[j] = Codes[k] => j = k
  /\ {Discretes, Inputs, Holdings, UPGRADE_DATA_ADDRESS} \subseteq Nat \ {0}
  /\ RPM_DEVIATION \in 0 .. Inputs - 1 /\ Inputs <= Base * Base
  /\ Holdings <= UPGRADE_DATA_ADDRESS /\ Stored \subseteq [0 .. Holdings - 1 -> Word]
  /\ Words \subseteq Word /\ Bits \subseteq {0, 1}
  /\ \A s \in Requests : WellFormed(s)
  /\ MaxRequests \in Nat /\ MaxEvents \in Nat

VARIABLES
  rtu_buf, frame_len,
  discrete_inputs, input_regs, holding_regs,
  upgrading,   \* INPUT_REG__UPGRADE_STATUS is IN_PROGRESS
  pc,          \* "idle", "parse", "read", "send", "sent"
  i, resp_len,
  stray,       \* an access has missed its array; what follows is not modelled
  request, before, deviations, written,   \* history: see CheckFrame
  reply, received, events
registers == <<discrete_inputs, input_regs, holding_regs, upgrading>>
history == <<request, before, deviations, written>>
vars == <<rtu_buf, frame_len, registers, pc, i, resp_len, stray, history, reply, received, events>>

TypeOK ==
  /\ rtu_buf \in [Buffer -> Byte] /\ frame_len \in Byte
  /\ discrete_inputs \in [0 .. Discretes - 1 -> {0, 1}]
  /\ input_regs \in [0 .. Inputs - 1 -> Word]
  /\ holding_regs \in [0 .. Holdings - 1 -> Word]
  /\ upgrading \in BOOLEAN /\ pc \in {"idle", "parse", "read", "send", "sent"}
  /\ i \in 0 .. Inputs /\ resp_len \in Byte /\ stray \in BOOLEAN
  /\ deviations \subseteq Word /\ received \in 0 .. MaxRequests /\ events \in 0 .. MaxEvents

Init ==
  /\ rtu_buf = [k \in Buffer |-> 0] /\ frame_len = 0
  /\ discrete_inputs = [n \in 0 .. Discretes - 1 |-> 0]
  /\ input_regs = [n \in 0 .. Inputs - 1 |-> n]
  /\ holding_regs \in Stored
  /\ upgrading \in BOOLEAN
  /\ pc = "idle" /\ i = 0 /\ resp_len = 0 /\ stray = FALSE
  /\ request = <<>> /\ before = holding_regs /\ deviations = {} /\ written = <<>>
  /\ reply = <<>> /\ received = 0 /\ events = 0
-----------------------------------------------------------------------------
(* A frame arrives; whether its CRC is right is decided here.               *)
Receive(r) ==
  /\ pc = "idle" /\ frame_len = 0
  /\ received < MaxRequests /\ received' = received + 1
  /\ frame_len' = Len(r) + 2
  /\ rtu_buf' = [k \in Buffer |-> IF k < Len(r) THEN r[k + 1] ELSE rtu_buf[k]]
  /\ UNCHANGED <<registers, pc, i, resp_len, stray, history, reply, events>>

Frame == [k \in 1 .. frame_len - 2 |-> rtu_buf[k - 1]]

(* A frame with a wrong CRC is dropped, else it is parsed.  The request and *)
(* the holding registers it finds are remembered for the properties.        *)
CheckFrame ==
  /\ pc = "idle" /\ frame_len > 0
  /\ \/ /\ pc' = "parse" /\ request' = Frame
        /\ before' = holding_regs /\ deviations' = {input_regs[RPM_DEVIATION]} /\ written' = <<>>
        /\ UNCHANGED frame_len
     \/ pc' = "idle" /\ frame_len' = 0 /\ UNCHANGED history
  /\ UNCHANGED <<rtu_buf, registers, i, resp_len, stray, reply, received, events>>

Release ==
  /\ pc = "sent" /\ pc' = "idle" /\ frame_len' = 0
  /\ UNCHANGED <<rtu_buf, registers, i, resp_len, stray, history, reply, received, events>>
-----------------------------------------------------------------------------
(* modbus_parse_frame                                                       *)

WordAt(k) == rtu_buf[k] * Base + rtu_buf[k + 1]

(* The buffer with the bytes of s from index k on, and whether they fit.    *)
Put(buf, k, s) == [n \in Buffer |-> IF n - k + 1 \in DOMAIN s THEN s[n - k + 1] ELSE buf[n]]
Misses(k, s) == k + Len(s) > Base

BytesOf(val) == <<val \div Base, val % Base>>
RegisterBytes(regs, addr, qty) ==
  [k \in 1 .. 2 * qty |-> BytesOf(regs[addr + (k - 1) \div 2])[((k - 1) % 2) + 1]]

(* The discrete inputs from addr on, W to a byte, the first one lowest.     *)
PackedByte(addr, qty, b) ==
  NumberOf([k \in 0 .. W - 1 |->
    IF W * b + k < qty THEN discrete_inputs[addr + W * b + k] ELSE 0], W)
Packed(addr, qty) == [k \in 1 .. (qty + W - 1) \div W |-> PackedByte(addr, qty, k - 1)]

WithTopBit(b) == IF b < Base \div 2 THEN b + Base \div 2 ELSE b

Exception(code) ==
  /\ rtu_buf' = [rtu_buf EXCEPT ![1] = WithTopBit(@), ![2] = code]
  /\ resp_len' = 1 /\ pc' = "send"
  /\ UNCHANGED <<holding_regs, stray>>

(* Mutant: the length counts the CRC, too.                                  *)
AnswerWithCrc(len) == resp_len' = (len + 2) % Base /\ pc' = "send"
(* resp_len is a byte.                                                      *)
Answer(len) == resp_len' = len % Base /\ pc' = "send"

AnswerBytes(s) ==
  /\ rtu_buf' = Put(Put(rtu_buf, 2, <<Len(s) % Base>>), 3, s)
  /\ stray' = (stray \/ Misses(3, s))
  /\ Answer(Len(s) + 1)

SetHolding(addr, vals) ==
  holding_regs' = [n \in 0 .. Holdings - 1 |->
    IF n - addr + 1 \in DOMAIN vals THEN vals[n - addr + 1] ELSE holding_regs[n]]

InRange(addr, qty, count) == qty > 0 /\ addr + qty <= count

ReadDiscreteInputs ==
  LET addr == WordAt(2) qty == WordAt(4) IN
  /\ rtu_buf[1] = READ_DISCRETE_INPUTS
  /\ \/ addr >= Discretes /\ Exception(2)
     \/ addr < Discretes /\ ~InRange(addr, qty, Discretes) /\ Exception(3)
     \/ /\ addr < Discretes /\ InRange(addr, qty, Discretes)
        /\ AnswerBytes(Packed(addr, qty)) /\ UNCHANGED holding_regs
  /\ UNCHANGED i

(* The registers are read one by one, see ReadInput.                        *)
ReadInputRegs ==
  LET addr == WordAt(2) qty == WordAt(4) IN
  /\ rtu_buf[1] = READ_INPUT_REGS
  /\ \/ addr >= Inputs /\ Exception(2) /\ UNCHANGED i
     \/ addr < Inputs /\ ~InRange(addr, qty, Inputs) /\ Exception(3) /\ UNCHANGED i
     \/ /\ addr < Inputs /\ InRange(addr, qty, Inputs)
        /\ rtu_buf' = Put(rtu_buf, 2, <<(2 * qty) % Base>>)
        /\ pc' = "read" /\ i' = 0
        /\ UNCHANGED <<resp_len, holding_regs, stray>>

ReadHoldingRegs ==
  LET addr == WordAt(2) qty == WordAt(4) IN
  /\ rtu_buf[1] = READ_HOLDING_REGS
  /\ \/ addr >= Holdings /\ Exception(2)
     \/ addr < Holdings /\ ~InRange(addr, qty, Holdings) /\ Exception(3)
     \/ /\ addr < Holdings /\ InRange(addr, qty, Holdings)
        /\ AnswerBytes(RegisterBytes(holding_regs, addr, qty)) /\ UNCHANGED holding_regs
  /\ UNCHANGED i

WriteSingleReg ==
  LET addr == WordAt(2) IN
  /\ rtu_buf[1] = WRITE_SINGLE_REG
  /\ \/ addr >= Holdings /\ Exception(2)
     \/ /\ addr < Holdings /\ SetHolding(addr, <<WordAt(4)>>) /\ Answer(4)
        /\ UNCHANGED <<rtu_buf, stray>>
  /\ UNCHANGED i

(* The words of the request from index k on.                                *)
Data(k, qty) == [n \in 1 .. qty |-> WordAt(k + 2 * (n - 1))]

(* Mutant: the byte count is not compared with the quantity.                *)
WriteMultipleUnchecked ==
  LET addr == WordAt(2) qty == WordAt(4) IN
  /\ rtu_buf[1] = WRITE_MULTIPLE_REGS /\ addr < UPGRADE_DATA_ADDRESS
  /\ \/ addr >= Holdings /\ Exception(2)
     \/ addr < Holdings /\ ~InRange(addr, qty, Holdings) /\ Exception(3)
     \/ /\ addr < Holdings /\ InRange(addr, qty, Holdings)
        /\ SetHolding(addr, Data(7, qty)) /\ Answer(4)
        /\ UNCHANGED <<rtu_buf, stray>>
  /\ UNCHANGED <<i, written>>
WriteMultipleRegs ==
  LET addr == WordAt(2) qty == WordAt(4) IN
  /\ rtu_buf[1] = WRITE_MULTIPLE_REGS /\ addr < UPGRADE_DATA_ADDRESS
  /\ \/ addr >= Holdings /\ Exception(2)
     \/ /\ addr < Holdings
        /\ ~InRange(addr, qty, Holdings) \/ rtu_buf[6] # 2 * qty
        /\ Exception(3)
     \/ /\ addr < Holdings /\ InRange(addr, qty, Holdings) /\ rtu_buf[6] = 2 * qty
        /\ SetHolding(addr, Data(7, qty)) /\ Answer(4)
        /\ UNCHANGED <<rtu_buf, stray>>
  /\ UNCHANGED <<i, written>>

(* Addresses from UPGRADE_DATA_ADDRESS on are firmware, not registers; the  *)
(* SPI flash may fail.                                                      *)
WriteUpgradeData ==
  LET addr == WordAt(2) qty == WordAt(4) IN
  /\ rtu_buf[1] = WRITE_MULTIPLE_REGS /\ addr >= UPGRADE_DATA_ADDRESS
  /\ \/ ~upgrading /\ Exception(3) /\ UNCHANGED written
     \/ upgrading /\ Exception(4) /\ UNCHANGED written
     \/ /\ upgrading /\ Answer(4)
        /\ written' = <<(addr - UPGRADE_DATA_ADDRESS) * 2, [n \in 1 .. 2 * qty |-> rtu_buf[6 + n]]>>
        /\ UNCHANGED <<rtu_buf, holding_regs, stray>>
  /\ UNCHANGED i

(* Mutant: the reply is put together before the registers are written.      *)
ReadThenWrite(raddr, rqty, waddr, wqty) ==
  /\ AnswerBytes(RegisterBytes(holding_regs, raddr, rqty))
  /\ SetHolding(waddr, Data(11, wqty))
(* First written, then read; the reply may overwrite the data written.      *)
WriteThenRead(raddr, rqty, waddr, wqty) ==
  /\ SetHolding(waddr, Data(11, wqty))
  /\ AnswerBytes(RegisterBytes(holding_regs', raddr, rqty))

RwMultipleRegs ==
  LET raddr == WordAt(2) rqty == WordAt(4) waddr == WordAt(6) wqty == WordAt(8)
      valid == /\ InRange(raddr, rqty, Holdings) /\ InRange(waddr, wqty, Holdings)
               /\ rtu_buf[10] = 2 * wqty
  IN
  /\ rtu_buf[1] = RW_MULTIPLE_REGS
  /\ \/ (raddr >= Holdings \/ waddr >= Holdings) /\ Exception(2)
     \/ raddr < Holdings /\ waddr < Holdings /\ ~valid /\ Exception(3)
     \/ raddr < Holdings /\ waddr < Holdings /\ valid /\ WriteThenRead(raddr, rqty, waddr, wqty)
  /\ UNCHANGED i

BitAnd(x, y) == NumberOf([k \in 0 .. 2 * W - 1 |-> BitOf(x, k) * BitOf(y, k)], 2 * W)
BitOr(x, y) ==
  NumberOf([k \in 0 .. 2 * W - 1 |-> IF BitOf(x, k) + BitOf(y, k) > 0 THEN 1 ELSE 0], 2 * W)
Complement(x) == Base * Base - 1 - x
Masked(val, and_mask, or_mask) ==
  BitOr(BitAnd(val, and_mask), BitAnd(or_mask, Complement(and_mask)))

MaskWriteReg ==
  LET addr == WordAt(2) IN
  /\ rtu_buf[1] = MASK_WRITE_REG
  /\ \/ addr >= Holdings /\ Exception(2)
     \/ /\ addr < Holdings /\ Answer(6)
        /\ SetHolding(addr, <<Masked(holding_regs[addr], WordAt(4), WordAt(6))>>)
        /\ UNCHANGED <<rtu_buf, stray>>
  /\ UNCHANGED i

OtherFunction == rtu_buf[1] \notin Functions /\ Exception(1) /\ UNCHANGED i

modbus_parse_frame ==
  /\ pc = "parse"
  /\ \/ WriteMultipleRegs \/ WriteUpgradeData
     \/ /\ \/ ReadDiscreteInputs \/ ReadInputRegs \/ ReadHoldingRegs
           \/ WriteSingleReg \/ RwMultipleRegs \/ MaskWriteReg \/ OtherFunction
        /\ UNCHANGED written
  /\ UNCHANGED <<frame_len, discrete_inputs, input_regs, upgrading,
                 request, before, deviations, reply, received, events>>

(* One turn of the loop over the input registers.  Its bounds are local     *)
(* variables: the reply has overwritten the request.                        *)
ReadInput ==
  LET addr == request[3] * Base + request[4] qty == request[5] * Base + request[6] IN
  /\ pc = "read"
  /\ IF i < qty
     THEN /\ rtu_buf' = Put(rtu_buf, 3 + 2 * i, BytesOf(input_regs[addr + i]))
          /\ stray' = (stray \/ Misses(3 + 2 * i, <<0, 0>>))
          /\ i' = i + 1 /\ UNCHANGED <<resp_len, pc>>
     ELSE Answer(2 * qty + 1) /\ i' = 0 /\ UNCHANGED <<rtu_buf, stray>>
  /\ UNCHANGED <<frame_len, registers, history, reply, received, events>>

(* The bytes that are sent, and the CRC, here 0, that is put behind them.   *)
Outgoing == [n \in 1 .. resp_len + 2 |-> rtu_buf[(n - 1) % Base]]
modbus_send_response ==
  /\ pc = "send" /\ pc' = "sent"
  /\ rtu_buf' = Put(rtu_buf, resp_len + 2, <<0, 0>>)
  /\ stray' = (stray \/ Misses(resp_len + 2, <<0, 0>>))
  /\ reply' = Outgoing
  /\ UNCHANGED <<frame_len, registers, i, resp_len, history, received, events>>
-----------------------------------------------------------------------------
(* The rest of the program.                                                 *)

Counted == events < MaxEvents /\ events' = events + 1

(* The interrupt of the tachometer.                                         *)
SetDeviation(v) ==
  /\ Counted /\ input_regs' = [input_regs EXCEPT ![RPM_DEVIATION] = v]
  /\ deviations' = deviations \cup {v}
  /\ UNCHANGED <<rtu_buf, frame_len, discrete_inputs, holding_regs, upgrading, pc, i, resp_len,
                 stray, request, before, written, reply, received>>

(* The main loop publishes its values when no request is being served.      *)
BetweenRequests == pc = "idle"
PublishPair(n, v) ==
  /\ BetweenRequests /\ Counted
  /\ n # RPM_DEVIATION /\ n + 1 # RPM_DEVIATION
  /\ input_regs' = [input_regs EXCEPT ![n] = v, ![n + 1] = v]
  /\ UNCHANGED <<rtu_buf, frame_len, discrete_inputs, holding_regs, upgrading, pc, i, resp_len,
                 stray, history, reply, received>>

PublishDiscrete(n, b) ==
  /\ BetweenRequests /\ Counted /\ discrete_inputs' = [discrete_inputs EXCEPT ![n] = b]
  /\ UNCHANGED <<rtu_buf, frame_len, input_regs, holding_regs, upgrading, pc, i, resp_len,
                 stray, history, reply, received>>

(* What the program does with the bytes behind rtu_buf overwritten is       *)
(* undefined: the model ends there.                                         *)
Next ==
  /\ ~stray
  /\ \/ \E r \in Requests : Receive(r)
     \/ CheckFrame \/ modbus_parse_frame \/ ReadInput \/ modbus_send_response \/ Release
     \/ \E v \in Words : SetDeviation(v) \/ \E n \in 0 .. Inputs - 2 : PublishPair(n, v)
     \/ \E n \in 0 .. Discretes - 1, b \in Bits : PublishDiscrete(n, b)
Spec == Init /\ [][Next]_vars
-----------------------------------------------------------------------------
(* Properties: a request, as the sequence of its bytes, says what is to be  *)
(* done with the registers and what is to be answered.                      *)

Span(addr, qty) == addr .. addr + qty - 1
Reads(s) == s[2] \in {READ_DISCRETE_INPUTS, READ_INPUT_REGS, READ_HOLDING_REGS, RW_MULTIPLE_REGS}
OfFirmware(s) == s[2] = WRITE_MULTIPLE_REGS /\ Asked(s, 3) >= UPGRADE_DATA_ADDRESS

(* The table that is read, the addresses in it, and the holding registers   *)
(* that are written.                                                        *)
Table(s) == 0 .. (CASE s[2] = READ_DISCRETE_INPUTS -> Discretes
                    [] s[2] = READ_INPUT_REGS -> Inputs
                    [] OTHER -> Holdings) - 1
ReadSpan(s) == IF Reads(s) THEN Span(Asked(s, 3), Asked(s, 5)) ELSE {}
WriteSpan(s) ==
  CASE s[2] \in {WRITE_SINGLE_REG, MASK_WRITE_REG} -> {Asked(s, 3)}
    [] s[2] = WRITE_MULTIPLE_REGS /\ ~OfFirmware(s) -> Span(Asked(s, 3), Asked(s, 5))
    [] s[2] = RW_MULTIPLE_REGS -> Span(Asked(s, 7), Asked(s, 9))
    [] OTHER -> {}

(* The exception a request deserves, 0 if none (firmware data apart).       *)
Deserves(s) ==
  LET starts == {Asked(s, 3)} \cup (IF s[2] = RW_MULTIPLE_REGS THEN {Asked(s, 7)} ELSE {})
      empty == \/ Reads(s) /\ ReadSpan(s) = {}
               \/ s[2] \in {WRITE_MULTIPLE_REGS, RW_MULTIPLE_REGS} /\ WriteSpan(s) = {}
      miscounted == \/ s[2] = WRITE_MULTIPLE_REGS /\ s[7] # 2 * Asked(s, 5)
                    \/ s[2] = RW_MULTIPLE_REGS /\ s[11] # 2 * Asked(s, 9)
  IN  IF s[2] \notin Functions THEN 1
      ELSE IF ~(starts \subseteq Table(s)) THEN 2
      ELSE IF ~(ReadSpan(s) \cup WriteSpan(s) \subseteq Table(s)) \/ empty \/ miscounted THEN 3
      ELSE 0

(* What a request makes of register n, which held v, is new.                *)
IsWritten(s, n, v, new) ==
  CASE s[2] = WRITE_SINGLE_REG -> new = Asked(s, 5)
    [] s[2] = WRITE_MULTIPLE_REGS -> new = Asked(s, 8 + 2 * (n - Asked(s, 3)))
    [] s[2] = RW_MULTIPLE_REGS -> new = Asked(s, 12 + 2 * (n - Asked(s, 7)))
    [] OTHER -> \A k \in 0 .. 2 * W - 1 :
         BitOf(new, k) = IF BitOf(Asked(s, 5), k) = 1 THEN BitOf(v, k) ELSE BitOf(Asked(s, 7), k)

(* A request writes the registers it names with the values it carries, and  *)
(* a refused one writes nothing (modbus.c:433-503), unless the reply        *)
(* overran the buffer, see OverrunOnlyByLongReads.                          *)
RegistersAsRequested ==
  pc \in {"read", "send", "sent"} /\ ~stray =>
    \A n \in 0 .. Holdings - 1 :
      IF ~OfFirmware(request) /\ Deserves(request) = 0 /\ n \in WriteSpan(request)
      THEN IsWritten(request, n, before[n], holding_regs[n])
      ELSE holding_regs[n] = before[n]

Refusal(code) == <<request[1], WithTopBit(request[2]), code>>
Echo == SubSeq(request, 1, IF request[2] = MASK_WRITE_REG THEN 8 ELSE 6)
IsHeader(r, count) == r[1] = request[1] /\ r[2] = request[2] /\ r[3] = count

(* A reply r to a read request carries the registers it asked for, in their *)
(* order, as the main loop left them; of the one an interrupt writes, a     *)
(* value that it had while the request was served.                          *)
ValuesOf(n) ==
  IF request[2] # READ_INPUT_REGS THEN {holding_regs[n]}
  ELSE IF n = RPM_DEVIATION THEN deviations ELSE {input_regs[n]}
AnswersRead(r) ==
  LET addr == Asked(request, 3) qty == Asked(request, 5) IN
  IF request[2] = READ_DISCRETE_INPUTS
  THEN LET bytes == (qty + W - 1) \div W
       IN  /\ IsHeader(r, bytes) /\ Len(r) = 3 + bytes
           /\ \A n \in 0 .. W * bytes - 1 :
                BitOf(r[4 + n \div W], n % W) = IF n < qty THEN discrete_inputs[addr + n] ELSE 0
  ELSE /\ IsHeader(r, 2 * qty) /\ Len(r) = 3 + 2 * qty
       /\ \A n \in 0 .. qty - 1 : Asked(r, 4 + 2 * n) \in ValuesOf(addr + n)

(* Firmware data goes to the SPI flash unchanged, only while an upgrade is  *)
(* in progress, and a write is confirmed only when it was done.             *)
ConfirmsFirmware(r) ==
  \/ ~upgrading /\ written = <<>> /\ r = Refusal(3)
  \/ upgrading /\ written = <<>> /\ r = Refusal(4)
  \/ /\ upgrading /\ r = Echo
     /\ written = <<2 * (Asked(request, 3) - UPGRADE_DATA_ADDRESS),
                    SubSeq(request, 8, 7 + 2 * Asked(request, 5))>>

Answers(r) ==
  IF OfFirmware(request) THEN ConfirmsFirmware(r)
  ELSE IF Deserves(request) # 0 THEN r = Refusal(Deserves(request))
  ELSE IF Reads(request) THEN AnswersRead(r)
  ELSE r = Echo

(* The reply is the one the request deserves, although it is put together   *)
(* in the bytes of the request, and firmware data is confirmed only when it *)
(* was written (modbus.c:380-513), unless the reply overran the buffer.     *)
ReplyAnswersRequest == pc = "sent" /\ ~stray => Answers(reply)

(* A read that the code accepts, although the reply with its CRC does not   *)
(* fit the buffer: with bytes of eight bits one of more than 125 registers. *)
ReplyBytes(s) ==
  IF s[2] = READ_DISCRETE_INPUTS THEN (Asked(s, 5) + W - 1) \div W ELSE 2 * Asked(s, 5)
TooLong(s) == Reads(s) /\ Deserves(s) = 0 /\ ReplyBytes(s) > Base - 5

(* Only such a read makes an access miss its array, while the reply is put  *)
(* together or with its CRC (modbus.c:341-355, 380-513).                    *)
OverrunOnlyByLongReads == stray => TooLong(request)
=============================================================================
