---------------------------- MODULE SerialLines ----------------------------
(***************************************************************************)
(* The two serial lines of the unit, together: the receive path of the     *)
(* console (UartReceive), the baud rate of MODBUS (BaudRate) and the       *)
(* requests of MODBUS (ModbusRequests).  None reads the state of another,  *)
(* so a behaviour is one of a single part, chosen in the beginning, while  *)
(* the others stand.  `part` may also name a part of a module that         *)
(* extends this one.                                                       *)
(***************************************************************************)
EXTENDS UartReceive

CONSTANTS
  Rates, Default, FrameSize, BufSize,          \* of BaudRate
  W, Power, Discretes, Inputs, Holdings, READ_DISCRETE_INPUTS, READ_HOLDING_REGS,
  READ_INPUT_REGS, WRITE_SINGLE_REG, WRITE_MULTIPLE_REGS, RW_MULTIPLE_REGS, MASK_WRITE_REG,
  UPGRADE_DATA_ADDRESS, RPM_DEVIATION, Requests, Stored, Bits, Words, MaxRequests,
  MaxEvents                                    \* of ModbusRequests

VARIABLES
  part,
  main, env, env_dirty, saved, baud_rate, compare, rtu_ptr, transmitted, inStep,
  rtu_buf, frame_len, discrete_inputs, input_regs, holding_regs, upgrading, phase, item,
  resp_len, stray, request, before, deviations, written, reply, received, events
receiver == vars
lineRate == <<main, env, env_dirty, saved, baud_rate, compare, rtu_ptr, transmitted, inStep>>
requests == <<rtu_buf, frame_len, discrete_inputs, input_regs, holding_regs, upgrading, phase,
  item, resp_len, stray, request, before, deviations, written, reply, received, events>>
lines == <<part, receiver, lineRate, requests>>

B == INSTANCE BaudRate WITH pc <- main, sent <- transmitted
Q == INSTANCE ModbusRequests WITH pc <- phase, i <- item

LinesInit == Init /\ B!Init /\ Q!Init

LinesNext ==
  \/ part = "receiver" /\ Next /\ UNCHANGED <<part, lineRate, requests>>
  \/ part = "rate" /\ B!Next /\ UNCHANGED <<part, receiver, requests>>
  \/ part = "requests" /\ Q!Next /\ UNCHANGED <<part, receiver, lineRate>>

(* The fairness of the parts.                                               *)
LinesFairness ==
  /\ WF_receiver(part = "receiver" /\ uart_gets)
  /\ SF_receiver(part = "receiver" /\ OnError) /\ SF_receiver(part = "receiver" /\ uart_callback)
  /\ WF_lineRate(part = "rate" /\ B!Main) /\ WF_lineRate(part = "rate" /\ B!WatchdogReset)

LinesSpec == LinesInit /\ [][LinesNext]_lines /\ LinesFairness
-----------------------------------------------------------------------------
(* The properties of the parts, as they state them; they hold while a part  *)
(* stands, too.                                                             *)

(* The silence separates the frames, also after a change of the rate        *)
(* (modbus.c:106-122, 577-583).                                             *)
FramesAreSeparated == B!FramesAreSeparated
(* A rate that the UART refuses does not keep the unit down (main.c:85-90). *)
UnitComesBack == B!UnitComesBack
(* A request writes what it names; a refused one writes nothing             *)
(* (modbus.c:433-503).                                                      *)
RegistersAsRequested == Q!RegistersAsRequested
(* The reply is the one the request deserves, and firmware data is          *)
(* confirmed only when it was written (modbus.c:380-513).                   *)
ReplyAnswersRequest == Q!ReplyAnswersRequest
(* Only a read whose reply does not fit the buffer makes an access miss its *)
(* array (modbus.c:341-355, 380-513).                                       *)
OverrunOnlyByLongReads == Q!OverrunOnlyByLongReads
=============================================================================
