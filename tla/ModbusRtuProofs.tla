--------------------------- MODULE ModbusRtuProofs ---------------------------
(***************************************************************************)
(* Proofs about ModbusRtu, for every buffer size, number of frames, number *)
(* of line faults and set of frame sizes and addresses.                    *)
(*                                                                         *)
(* The argument: while a frame is handed over (frame_len # 0) nobody fills *)
(* the buffer, so what the timer accepted is what the main loop checks and *)
(* executes; and every character stored since the last release was put on  *)
(* the line after the last executed frame was complete, so a whole frame   *)
(* made of such characters is a frame later than every executed one.       *)
(***************************************************************************)
EXTENDS ModbusRtu, SequenceTheorems, TLAPS

(* The main loop has not yet executed what the buffer holds.                *)
Pending == pc \in {"top", "sample", "check", "execute"}

(* The number of characters in the buffer that count.                       *)
Live == IF frame_len # 0 THEN frame_len ELSE rtu_ptr

(* A character of the line: already transmitted.                            *)
OnLine(c) ==
  c.frame # 0 =>
    /\ c.frame <= line.frame
    /\ c.frame = line.frame => c.size = line.size /\ c.pos <= line.sent

(* A character of no executed frame, nor of one before an executed frame.   *)
Newer(c) == c.frame # 0 => \A j \in DOMAIN executed : executed[j].frame < c.frame

(* The hand-over protocol of frame_len and rtu_ptr.                         *)
HandOverInv ==
  /\ frame_len # 0 => rtu_ptr = 0
  /\ pc \notin {"top", "sample"} => frame_len # 0
  /\ frame_len # 0 /\ Pending => rtu_buf[0].val \in {Broadcast, sealedFor}
  /\ pc = "execute" => Whole(rtu_buf, frame_len)

(* What counts in the buffer is from the line and newer than what was done. *)
BufferInv ==
  Pending => \A i \in Slots : i < Live => OnLine(rtu_buf[i]) /\ Newer(rtu_buf[i])

(* The executed frames were completely transmitted.                         *)
ExecutedInv ==
  \A j \in DOMAIN executed :
    /\ executed[j].frame <= line.frame
    /\ executed[j].frame = line.frame => line.sent = line.size

(* The reply in the buffer is the reply composed, until it has gone out.    *)
ReplyInv ==
  /\ pc # "clear" => out = <<>>
  /\ pc \in {"respond", "send"} => reply = Prefix(rtu_buf, Len(reply))
  /\ out # <<>> => out = reply

IInv == /\ TypeOK /\ HandOverInv /\ BufferInv /\ ExecutedInv /\ ReplyInv
        /\ RequestsAreWhole /\ RequestsInOrderOnce

-----------------------------------------------------------------------------
(* The first n slots of the buffer, as a sequence of characters.            *)
LEMMA PrefixType ==
  ASSUME NEW buf \in [Slots -> Char], NEW n \in 0 .. BufSize
  PROVE  /\ Prefix(buf, n) \in Seq(Char)
         /\ Len(Prefix(buf, n)) = n
<1>1. \A i \in 1 .. n : i - 1 \in Slots
  BY BufSizeAssumption DEF Slots
<1>2. Prefix(buf, n) \in [1 .. n -> Char]
  BY <1>1 DEF Prefix
<1>3. n \in Nat
  BY BufSizeAssumption
<1> QED
  BY <1>2, <1>3, SeqDef

(* The fill pointer stays an index of the buffer; filling never skips.      *)
LEMMA NextSlotType ==
  ASSUME NEW p \in Slots
  PROVE  /\ NextSlot(p) \in Slots
         /\ \A i \in Slots : i < NextSlot(p) => i < p \/ i = p
BY BufSizeAssumption DEF NextSlot, Slots

(* Receiving a character keeps the buffer's type.                           *)
LEMMA ReceiveType ==
  ASSUME TypeOK, NEW ch \in Char, modbus_receive(ch)
  PROVE  /\ rtu_buf' \in [Slots -> Char]
         /\ rtu_ptr' \in Slots
         /\ frame_len' \in Slots
         /\ timer' \in BOOLEAN
         /\ sealedFor' \in Nat
BY NextSlotType DEF TypeOK, modbus_receive

(* What can be in a slot of the buffer is a character.                      *)
LEMMA CharTypes ==
  ASSUME TypeOK
  PROVE  /\ \A i \in Nat : LineChar(i) \in Char
         /\ \A v \in Addresses : Noise(v) \in Char
         /\ Blank \in Char
BY AddressAssumption DEF TypeOK, LineChar, Noise, Blank, Char

(* Type correctness.                                                        *)

(* The state after start-up has the types.                                  *)
LEMMA TypeInit == Init => TypeOK
<1> SUFFICES ASSUME Init PROVE TypeOK
  OBVIOUS
<1>1. Blank \in Char
  BY DEF Blank, Char
<1> QED
  BY <1>1, BufSizeAssumption DEF Init, TypeOK, Slots

(* Every interrupt, every character and every step of do_modbus keeps the   *)
(* types.                                                                   *)
LEMMA TypeStep == TypeOK /\ [Next]_vars => TypeOK'
<1> SUFFICES ASSUME TypeOK, [Next]_vars PROVE TypeOK'
  OBVIOUS
<1> USE DEF lineVars, bufVars, mainVars
<1>1. CASE StartFrame
  BY <1>1, AddressAssumption, SizesAssumption DEF StartFrame, TypeOK
<1>2. CASE LineStep
  <2>a. /\ line' = [line EXCEPT !.sent = line.sent + 1]
        /\ line.sent < line.size
        /\ line \in [frame : Nat, to : Nat, fill : Nat, size : Nat, sent : Nat]
    BY <1>2 DEF LineStep, TypeOK
  <2>b. line.sent \in Nat /\ line.size \in Nat /\ line.sent + 1 \in Nat
    BY <2>a
  <2>1. /\ line' \in [frame : Nat, to : Nat, fill : Nat, size : Nat, sent : Nat]
        /\ line'.sent <= line'.size
    BY <2>a, <2>b
  <2>2. faults' \in Nat
    BY <1>2 DEF LineStep, TypeOK
  <2>3. line.sent + 1 \in Nat
    BY DEF TypeOK
  <2>4. /\ rtu_buf' \in [Slots -> Char]
        /\ rtu_ptr' \in Slots
        /\ frame_len' \in Slots
        /\ timer' \in BOOLEAN
        /\ sealedFor' \in Nat
    <3>1. CASE modbus_receive(LineChar(line.sent + 1))
      BY <3>1, <2>3, ReceiveType, CharTypes
    <3>2. CASE \E v \in Addresses : modbus_receive(Noise(v))
      BY <3>2, ReceiveType, CharTypes
    <3>3. CASE UNCHANGED bufVars
      BY <3>3 DEF TypeOK
    <3> QED
      BY <1>2, <3>1, <3>2, <3>3 DEF LineStep
  <2> QED
    BY <1>2, <2>1, <2>2, <2>4 DEF LineStep, TypeOK
<1>3. CASE modbus_tc_callback
  <2>1. 0 \in Slots
    BY BufSizeAssumption DEF Slots
  <2>2. slave_address \in Nat
    BY AddressAssumption DEF TypeOK
  <2> QED
    BY <1>3, <2>1, <2>2 DEF modbus_tc_callback, TypeOK
<1>4. CASE Housekeeping
  BY <1>4 DEF Housekeeping, TypeOK
<1>5. CASE SampleFrameLen
  BY <1>5 DEF SampleFrameLen, TypeOK
<1>6. CASE CheckFrame
  BY <1>6 DEF CheckFrame, TypeOK
<1>7. CASE ExecuteRequest
  <2>1. 0 \in Slots /\ rtu_buf[0] \in Char
    BY BufSizeAssumption DEF Slots, TypeOK
  <2>2. Request \in [frame : Nat, whole : BOOLEAN, to : Nat, self : Nat]
    BY <2>1 DEF Request, TypeOK, Char, Whole
  <2>3. executed' \in Seq([frame : Nat, whole : BOOLEAN, to : Nat, self : Nat])
    BY <1>7, <2>2 DEF ExecuteRequest, TypeOK
  <2>4. rtu_buf' \in [Slots -> Char] /\ reply' \in Seq(Char) /\ Len(reply') <= BufSize
    <3>1. CASE rtu_buf' = rtu_buf /\ reply' = Prefix(rtu_buf, frame_len)
      <4>1. frame_len \in 0 .. BufSize
        BY BufSizeAssumption DEF TypeOK, Slots
      <4>2. rtu_buf \in [Slots -> Char]
        BY DEF TypeOK
      <4>3. /\ Prefix(rtu_buf, frame_len) \in Seq(Char)
            /\ Len(Prefix(rtu_buf, frame_len)) = frame_len
        BY <4>1, <4>2, PrefixType
      <4> QED
        BY <3>1, <4>1, <4>2, <4>3
    <3>2. ASSUME NEW n \in ReplySizes,
                 rtu_buf' = Overwrite(rtu_buf, rtu_buf[0].frame, n),
                 reply' = Prefix(rtu_buf', n)
          PROVE  rtu_buf' \in [Slots -> Char] /\ reply' \in Seq(Char) /\ Len(reply') <= BufSize
      <4>1. n \in 0 .. BufSize
        BY ReplyAssumption, BufSizeAssumption
      <4>2. \A i \in Slots : ReplyChar(rtu_buf[0].frame, i) \in Char
        BY <2>1 DEF ReplyChar, Char, Slots
      <4>3. rtu_buf' \in [Slots -> Char]
        BY <3>2, <4>2 DEF Overwrite, TypeOK
      <4> QED
        BY <3>2, <4>1, <4>3, PrefixType
    <3> QED
      BY <1>7, <3>1, <3>2 DEF ExecuteRequest
  <2> QED
    BY <1>7, <2>3, <2>4 DEF ExecuteRequest, TypeOK
<1>8. CASE EnableDriver
  BY <1>8 DEF EnableDriver, TypeOK
<1>9. CASE SendReply
  <2>1. Len(reply) \in 0 .. BufSize
    BY BufSizeAssumption DEF TypeOK
  <2>2. out' \in Seq(Char)
    BY <1>9, <2>1, PrefixType DEF SendReply, TypeOK
  <2> QED
    BY <1>9, <2>2 DEF SendReply, TypeOK
<1>10. CASE ReleaseBuffer
  <2>1. 0 \in Slots
    BY BufSizeAssumption DEF Slots
  <2>2. <<>> \in Seq(Char) /\ Len(<<>>) <= BufSize
    BY BufSizeAssumption
  <2> QED
    BY <1>10, <2>1, <2>2 DEF ReleaseBuffer, TypeOK
<1>11. CASE UNCHANGED vars
  BY <1>11 DEF vars, TypeOK
<1> QED
  BY <1>1, <1>2, <1>3, <1>4, <1>5, <1>6, <1>7, <1>8, <1>9, <1>10, <1>11
     DEF Next, do_modbus

(* Every variable keeps its type in every behaviour; in particular the fill *)
(* pointer and the frame length stay indices of rtu_buf although the        *)
(* pointer wraps.                                                           *)
THEOREM TypeCorrect == Spec => []TypeOK
<1>1. Init => TypeOK
  BY TypeInit
<1>2. TypeOK /\ [Next]_vars => TypeOK'
  BY TypeStep
<1> QED
  BY <1>1, <1>2, PTL DEF Spec

-----------------------------------------------------------------------------
(* The effect of a received character, for the lemmas below.                *)
LEMMA ReceiveEffect ==
  ASSUME TypeOK, NEW ch \in Char, modbus_receive(ch)
  PROVE  /\ frame_len' = frame_len /\ sealedFor' = sealedFor
         /\ frame_len # 0 => rtu_buf' = rtu_buf /\ rtu_ptr' = rtu_ptr
         /\ frame_len = 0 =>
              \A i \in Slots : i < rtu_ptr' =>
                \/ i < rtu_ptr /\ rtu_buf'[i] = rtu_buf[i]
                \/ rtu_buf'[i] = ch
<1>1. rtu_ptr \in Slots /\ rtu_buf \in [Slots -> Char]
  BY DEF TypeOK
<1>2. /\ frame_len' = frame_len /\ sealedFor' = sealedFor
      /\ frame_len # 0 => rtu_buf' = rtu_buf /\ rtu_ptr' = rtu_ptr
  BY DEF modbus_receive
<1>3. ASSUME frame_len = 0, NEW i \in Slots, i < rtu_ptr'
      PROVE  \/ i < rtu_ptr /\ rtu_buf'[i] = rtu_buf[i]
             \/ rtu_buf'[i] = ch
  <2>1. rtu_buf' = [rtu_buf EXCEPT ![rtu_ptr] = ch] /\ rtu_ptr' = NextSlot(rtu_ptr)
    BY <1>3 DEF modbus_receive
  <2>2. i < rtu_ptr \/ i = rtu_ptr
    BY <1>1, <1>3, <2>1, NextSlotType
  <2>3. i = rtu_ptr => rtu_buf'[i] = ch
    BY <1>1, <2>1
  <2>4. i # rtu_ptr => rtu_buf'[i] = rtu_buf[i]
    BY <1>1, <2>1
  <2> QED
    BY <2>2, <2>3, <2>4
<1> QED
  BY <1>2, <1>3

(* A step of the line receives a character of the current frame or noise,   *)
(* or leaves the receiver alone.                                            *)
LEMMA LineStepEffect ==
  ASSUME TypeOK, LineStep
  PROVE  /\ line.sent < line.size
         /\ line' = [line EXCEPT !.sent = line.sent + 1]
         /\ UNCHANGED <<pc, executed, reply, out>>
         /\ \/ \E ch \in Char :
                 /\ modbus_receive(ch)
                 /\ pc # "send"
                 /\ ch.frame = 0 \/ ch = LineChar(line.sent + 1)
            \/ UNCHANGED <<rtu_buf, rtu_ptr, frame_len, sealedFor>>
<1>1. /\ line.sent < line.size
      /\ line' = [line EXCEPT !.sent = line.sent + 1]
      /\ UNCHANGED <<pc, executed, reply, out>>
  BY DEF LineStep, mainVars
<1>2. line.sent + 1 \in Nat
  BY DEF TypeOK
<1>3. ASSUME NEW v \in Addresses PROVE Noise(v).frame = 0
  BY DEF Noise, Blank
<1>4. CASE pc # "send" /\ modbus_receive(LineChar(line.sent + 1))
  BY <1>1, <1>2, <1>4, CharTypes
<1>5. CASE pc # "send" /\ \E v \in Addresses : modbus_receive(Noise(v))
  BY <1>1, <1>3, <1>5, CharTypes
<1>6. CASE UNCHANGED bufVars
  BY <1>1, <1>6 DEF bufVars
<1> QED
  BY <1>4, <1>5, <1>6 DEF LineStep, ReceiverOff

(* A request that was executed carries a frame number.                      *)
LEMMA ExecutedFrames ==
  ASSUME TypeOK
  PROVE  \A j \in DOMAIN executed : executed[j].frame \in Nat
<1> DEFINE R == [frame : Nat, whole : BOOLEAN, to : Nat, self : Nat]
<1>1. executed \in Seq(R)
  BY DEF TypeOK
<1>2. \A j \in DOMAIN executed : executed[j] \in R
  <2> HIDE DEF R
  <2> QED
    BY <1>1, LenProperties
<1> QED
  BY <1>2

(* The address byte is in the buffer.                                       *)
LEMMA ZeroSlot == 0 \in Slots
BY BufSizeAssumption DEF Slots

-----------------------------------------------------------------------------
(* The hand-over protocol is preserved.                                     *)
LEMMA HandOverStep == TypeOK /\ HandOverInv /\ [Next]_vars => HandOverInv'
<1> SUFFICES ASSUME TypeOK, HandOverInv, [Next]_vars PROVE HandOverInv'
  OBVIOUS
<1> USE DEF HandOverInv, Pending
<1>1. CASE StartFrame
  BY <1>1 DEF StartFrame, bufVars, mainVars, Whole
<1>2. CASE LineStep
  <2>1. CASE UNCHANGED <<rtu_buf, rtu_ptr, frame_len, sealedFor>>
    BY <1>2, <2>1, LineStepEffect DEF Whole
  <2>2. ASSUME NEW ch \in Char, modbus_receive(ch)
        PROVE  HandOverInv'
    <3>1. frame_len' = frame_len /\ sealedFor' = sealedFor /\ pc' = pc
      BY <1>2, <2>2, ReceiveEffect, LineStepEffect
    <3>2. CASE frame_len = 0
      BY <3>1, <3>2
    <3>3. CASE frame_len # 0
      <4>1. rtu_buf' = rtu_buf /\ rtu_ptr' = rtu_ptr
        BY <2>2, <3>3, ReceiveEffect
      <4> QED
        BY <3>1, <4>1 DEF Whole
    <3> QED
      BY <3>2, <3>3
  <2> QED
    BY <1>2, <2>1, <2>2, LineStepEffect
<1>3. CASE modbus_tc_callback
  <2>1. rtu_ptr' = 0 /\ rtu_buf' = rtu_buf /\ pc' = pc
    BY <1>3 DEF modbus_tc_callback, mainVars
  <2>2. CASE UNCHANGED <<frame_len, sealedFor>>
    BY <2>1, <2>2 DEF Whole
  <2>3. CASE Acceptable /\ frame_len' = rtu_ptr /\ sealedFor' = slave_address
    BY <2>1, <2>3 DEF Acceptable
  <2> QED
    BY <1>3, <2>2, <2>3 DEF modbus_tc_callback
<1>4. CASE Housekeeping
  BY <1>4 DEF Housekeeping, bufVars, Whole
<1>5. CASE SampleFrameLen
  BY <1>5 DEF SampleFrameLen, bufVars, Whole
<1>6. CASE CheckFrame
  BY <1>6 DEF CheckFrame, bufVars, Whole
<1>7. CASE ExecuteRequest
  BY <1>7 DEF ExecuteRequest
<1>8. CASE EnableDriver
  BY <1>8 DEF EnableDriver, bufVars
<1>9. CASE SendReply
  BY <1>9 DEF SendReply, bufVars
<1>10. CASE ReleaseBuffer
  BY <1>10 DEF ReleaseBuffer
<1>11. CASE UNCHANGED vars
  BY <1>11 DEF vars, bufVars, mainVars, Whole
<1> QED
  BY <1>1, <1>2, <1>3, <1>4, <1>5, <1>6, <1>7, <1>8, <1>9, <1>10, <1>11
     DEF Next, do_modbus

(* What counts in the buffer stays newer than every executed frame.         *)
LEMMA BufferStep ==
  TypeOK /\ HandOverInv /\ BufferInv /\ ExecutedInv /\ [Next]_vars => BufferInv'
<1> SUFFICES ASSUME TypeOK, HandOverInv, BufferInv, ExecutedInv, [Next]_vars,
                    Pending', NEW i \in Slots, i < Live'
             PROVE  (OnLine(rtu_buf[i]) /\ Newer(rtu_buf[i]))'
  BY DEF BufferInv
<1>0. /\ rtu_buf[i] \in Char /\ rtu_ptr \in Slots /\ frame_len \in Slots
      /\ line \in [frame : Nat, to : Nat, fill : Nat, size : Nat, sent : Nat]
      /\ line.sent <= line.size
  BY DEF TypeOK
<1>1. CASE StartFrame
  <2>1. /\ UNCHANGED <<rtu_buf, rtu_ptr, frame_len, pc, executed>>
        /\ line'.frame = line.frame + 1
    BY <1>1 DEF StartFrame, bufVars, mainVars
  <2>2. OnLine(rtu_buf[i]) /\ Newer(rtu_buf[i])
    BY <2>1 DEF BufferInv, Pending, Live
  <2> QED
    BY <1>0, <2>1, <2>2 DEF OnLine, Newer, Char
<1>2. CASE LineStep
  <2>1. /\ line.sent < line.size
        /\ line' = [line EXCEPT !.sent = line.sent + 1]
        /\ UNCHANGED <<pc, executed>>
    BY <1>2, LineStepEffect
  <2>2. Pending
    BY <2>1 DEF Pending
  <2>3. /\ line'.frame = line.frame /\ line'.size = line.size
        /\ line'.sent = line.sent + 1 /\ line.sent \in Nat
    BY <1>0, <2>1
  <2>4. ASSUME i < Live, rtu_buf'[i] = rtu_buf[i]
        PROVE  (OnLine(rtu_buf[i]) /\ Newer(rtu_buf[i]))'
    <3>1. OnLine(rtu_buf[i]) /\ Newer(rtu_buf[i])
      BY <2>2, <2>4 DEF BufferInv
    <3> QED
      BY <1>0, <2>1, <2>3, <2>4, <3>1 DEF OnLine, Newer, Char
  <2>5. CASE UNCHANGED <<rtu_buf, rtu_ptr, frame_len, sealedFor>>
    BY <2>4, <2>5 DEF Live
  <2>6. ASSUME NEW ch \in Char, modbus_receive(ch),
               ch.frame = 0 \/ ch = LineChar(line.sent + 1)
        PROVE  (OnLine(rtu_buf[i]) /\ Newer(rtu_buf[i]))'
    <3>1. CASE frame_len # 0
      BY <2>4, <2>6, <3>1, ReceiveEffect DEF Live
    <3>2. CASE frame_len = 0
      <4>1. i < rtu_ptr'
        BY <2>6, <3>2, ReceiveEffect DEF Live
      <4>2. CASE i < rtu_ptr /\ rtu_buf'[i] = rtu_buf[i]
        BY <2>4, <3>2, <4>2 DEF Live
      <4>3. CASE rtu_buf'[i] = ch
        <5>1. ASSUME ch.frame # 0
              PROVE  ch.frame = line.frame /\ ch.size = line.size /\ ch.pos = line.sent + 1
          BY <2>6, <5>1 DEF LineChar
        <5>2. \A j \in DOMAIN executed : executed[j].frame < line.frame
          <6>1. ASSUME NEW j \in DOMAIN executed
                PROVE  executed[j].frame <= line.frame /\ executed[j].frame # line.frame
            BY <1>0, <2>1, <2>3 DEF ExecutedInv
          <6>2. \A j \in DOMAIN executed : executed[j].frame \in Nat
            BY ExecutedFrames
          <6> QED
            BY <1>0, <6>1, <6>2
        <5> QED
          BY <1>0, <2>1, <2>3, <4>3, <5>1, <5>2 DEF OnLine, Newer, Char
      <4> QED
        BY <2>6, <3>2, <4>1, <4>2, <4>3, ReceiveEffect
    <3> QED
      BY <3>1, <3>2
  <2> QED
    BY <1>2, <2>5, <2>6, LineStepEffect
<1>3. CASE modbus_tc_callback
  <2>1. UNCHANGED <<line, rtu_buf, pc, executed>> /\ rtu_ptr' = 0
    BY <1>3 DEF modbus_tc_callback, lineVars, mainVars
  <2>2. Pending
    BY <2>1 DEF Pending
  <2>3. i < Live
    <3>1. CASE frame_len' = frame_len
      BY <1>0, <2>1, <3>1, ZeroSlot DEF Live, Slots
    <3>2. CASE Acceptable /\ frame_len' = rtu_ptr
      BY <1>0, <2>1, <3>2 DEF Live, Acceptable
    <3> QED
      BY <1>3, <3>1, <3>2 DEF modbus_tc_callback
  <2>4. OnLine(rtu_buf[i]) /\ Newer(rtu_buf[i])
    BY <2>2, <2>3 DEF BufferInv
  <2> QED
    BY <2>1, <2>4 DEF OnLine, Newer
<1>4. CASE Housekeeping \/ SampleFrameLen \/ CheckFrame
  <2>1. UNCHANGED <<line, rtu_buf, rtu_ptr, frame_len, executed>> /\ Pending
    BY <1>4 DEF Housekeeping, SampleFrameLen, CheckFrame, lineVars, bufVars, Pending
  <2>2. OnLine(rtu_buf[i]) /\ Newer(rtu_buf[i])
    BY <2>1 DEF BufferInv, Live
  <2> QED
    BY <2>1, <2>2 DEF OnLine, Newer
<1>5. CASE ExecuteRequest \/ EnableDriver \/ SendReply
  BY <1>5 DEF ExecuteRequest, EnableDriver, SendReply, Pending
<1>6. CASE ReleaseBuffer
  BY <1>0, <1>6 DEF ReleaseBuffer, HandOverInv, Live, Slots
<1>7. CASE UNCHANGED vars
  <2>1. UNCHANGED <<line, rtu_buf, rtu_ptr, frame_len, executed, pc>>
    BY <1>7 DEF vars, lineVars, bufVars, mainVars
  <2>2. OnLine(rtu_buf[i]) /\ Newer(rtu_buf[i])
    BY <2>1 DEF BufferInv, Live, Pending
  <2> QED
    BY <2>1, <2>2 DEF OnLine, Newer
<1> QED
  BY <1>1, <1>2, <1>3, <1>4, <1>5, <1>6, <1>7 DEF Next, do_modbus

-----------------------------------------------------------------------------
(* The frame about to be executed is completely transmitted, addressed to   *)
(* this slave and later than every executed one.                            *)
LEMMA RequestFacts ==
  ASSUME TypeOK, HandOverInv, BufferInv, pc = "execute"
  PROVE  /\ Request.whole = TRUE
         /\ Request.to \in {Broadcast, Request.self}
         /\ \A j \in DOMAIN executed : executed[j].frame < Request.frame
         /\ Request.frame <= line.frame
         /\ Request.frame = line.frame => line.sent = line.size
<1> DEFINE n == frame_len
<1>0. /\ n \in Slots /\ n # 0 /\ n - 1 \in Slots /\ n \in Nat /\ n - 1 < n
      /\ line \in [frame : Nat, to : Nat, fill : Nat, size : Nat, sent : Nat]
      /\ line.sent <= line.size
  BY BufSizeAssumption DEF TypeOK, HandOverInv, Slots
<1>1. Whole(rtu_buf, n) /\ rtu_buf[0].val \in {Broadcast, sealedFor}
  BY DEF HandOverInv, Pending
<1>2. \A i \in Slots : i < n => OnLine(rtu_buf[i]) /\ Newer(rtu_buf[i])
  BY <1>0 DEF BufferInv, Pending, Live
<1>3. OnLine(rtu_buf[0]) /\ Newer(rtu_buf[0]) /\ OnLine(rtu_buf[n - 1])
  BY <1>0, <1>2, ZeroSlot DEF Slots
<1>4. /\ rtu_buf[0].frame # 0 /\ rtu_buf[0].size = n
      /\ rtu_buf[n - 1].frame = rtu_buf[0].frame /\ rtu_buf[n - 1].pos = n
  <2>1. rtu_buf[n - 1].pos = (n - 1) + 1 /\ rtu_buf[n - 1].frame = rtu_buf[0].frame
    BY <1>0, <1>1 DEF Whole
  <2> QED
    BY <1>0, <1>1, <2>1 DEF Whole
<1>5. rtu_buf[0].frame = line.frame => line.sent = line.size
  BY <1>0, <1>3, <1>4 DEF OnLine
<1>6. /\ Request.frame = rtu_buf[0].frame /\ Request.whole = Whole(rtu_buf, n)
      /\ Request.to = rtu_buf[0].val /\ Request.self = sealedFor
  BY DEF Request
<1>7. Request.whole = TRUE
  <2>1. Whole(rtu_buf, n) \in BOOLEAN
    BY DEF Whole
  <2> QED
    BY <1>1, <1>6, <2>1
<1>8. Request.to \in {Broadcast, Request.self}
  BY <1>1, <1>6
<1>9. \A j \in DOMAIN executed : executed[j].frame < Request.frame
  BY <1>3, <1>4, <1>6 DEF Newer
<1>10. Request.frame <= line.frame
  BY <1>3, <1>4, <1>6 DEF OnLine
<1> QED
  BY <1>5, <1>6, <1>7, <1>8, <1>9, <1>10

(* The execution history is extended by a later, intact frame for this      *)
(* slave, or stays; what is on the line only advances.                      *)
LEMMA ExecutedStep ==
  /\ TypeOK /\ HandOverInv /\ BufferInv /\ ExecutedInv
  /\ RequestsAreWhole /\ RequestsInOrderOnce /\ [Next]_vars
  => ExecutedInv' /\ RequestsAreWhole' /\ RequestsInOrderOnce'
<1> SUFFICES ASSUME TypeOK, HandOverInv, BufferInv, ExecutedInv,
                    RequestsAreWhole, RequestsInOrderOnce, [Next]_vars
             PROVE  ExecutedInv' /\ RequestsAreWhole' /\ RequestsInOrderOnce'
  OBVIOUS
<1>0. /\ line \in [frame : Nat, to : Nat, fill : Nat, size : Nat, sent : Nat]
      /\ \A j \in DOMAIN executed : executed[j].frame \in Nat
  BY ExecutedFrames DEF TypeOK
<1>1. CASE UNCHANGED <<line, executed>>
  BY <1>1 DEF ExecutedInv, RequestsAreWhole, RequestsInOrderOnce
<1>2. CASE StartFrame
  <2>1. executed' = executed /\ line'.frame = line.frame + 1
    BY <1>2 DEF StartFrame, mainVars
  <2> QED
    BY <1>0, <2>1 DEF ExecutedInv, RequestsAreWhole, RequestsInOrderOnce
<1>3. CASE LineStep
  <2>1. /\ executed' = executed /\ line'.frame = line.frame
        /\ line.sent # line.size
    BY <1>0, <1>3, LineStepEffect
  <2> QED
    BY <1>0, <2>1 DEF ExecutedInv, RequestsAreWhole, RequestsInOrderOnce
<1>4. CASE ExecuteRequest
  <2> DEFINE R == [frame : Nat, whole : BOOLEAN, to : Nat, self : Nat]
  <2>1. executed' = Append(executed, Request) /\ line' = line /\ pc = "execute"
    BY <1>4 DEF ExecuteRequest, lineVars
  <2>2. /\ Request.whole = TRUE
        /\ Request.to \in {Broadcast, Request.self}
        /\ \A j \in DOMAIN executed : executed[j].frame < Request.frame
        /\ Request.frame <= line.frame
        /\ Request.frame = line.frame => line.sent = line.size
    BY <2>1, RequestFacts
  <2>3. /\ Len(executed) \in Nat /\ DOMAIN executed = 1 .. Len(executed)
        /\ DOMAIN executed' = 1 .. Len(executed) + 1
        /\ \A j \in 1 .. Len(executed) : executed'[j] = executed[j]
        /\ executed'[Len(executed) + 1] = Request
    <3>1. executed \in Seq(R) /\ Request \in R
      <4>1. rtu_buf[0] \in Char
        BY ZeroSlot DEF TypeOK
      <4> QED
        BY <4>1 DEF TypeOK, Request, Whole, Char
    <3> HIDE DEF R
    <3> QED
      BY <2>1, <3>1
  <2>4. ExecutedInv'
    BY <2>1, <2>2, <2>3 DEF ExecutedInv
  <2>5. RequestsAreWhole'
    BY <2>2, <2>3 DEF RequestsAreWhole
  <2>6. RequestsInOrderOnce'
    BY <2>2, <2>3 DEF RequestsInOrderOnce
  <2> QED
    BY <2>4, <2>5, <2>6
<1>5. CASE \/ modbus_tc_callback \/ Housekeeping \/ SampleFrameLen \/ CheckFrame
           \/ EnableDriver \/ SendReply \/ ReleaseBuffer
  BY <1>1, <1>5 DEF modbus_tc_callback, Housekeeping, SampleFrameLen, CheckFrame,
     EnableDriver, SendReply, ReleaseBuffer, lineVars, mainVars
<1> QED
  BY <1>1, <1>2, <1>3, <1>4, <1>5 DEF Next, do_modbus, vars, lineVars, mainVars

(* Nothing gets into the reply between its composition and the last byte.   *)
LEMMA ReplyStep ==
  TypeOK /\ HandOverInv /\ ReplyInv /\ [Next]_vars => ReplyInv'
<1> SUFFICES ASSUME TypeOK, HandOverInv, ReplyInv, [Next]_vars PROVE ReplyInv'
  OBVIOUS
<1>1. CASE UNCHANGED <<pc, out, reply, rtu_buf>>
  BY <1>1 DEF ReplyInv, Prefix
<1>2. CASE LineStep
  <2>1. UNCHANGED <<pc, out, reply>>
    BY <1>2, LineStepEffect
  <2>2. CASE frame_len = 0
    BY <2>1, <2>2 DEF ReplyInv, HandOverInv
  <2>3. CASE frame_len # 0
    <3>1. rtu_buf' = rtu_buf
      BY <1>2, <2>3, LineStepEffect, ReceiveEffect
    <3> QED
      BY <1>1, <2>1, <3>1
  <2> QED
    BY <2>2, <2>3
<1>3. CASE ExecuteRequest
  <2>1. pc = "execute" /\ pc' = "respond" /\ out' = out
    BY <1>3 DEF ExecuteRequest
  <2>2. reply' = Prefix(rtu_buf', Len(reply'))
    <3>1. CASE rtu_buf' = rtu_buf /\ reply' = Prefix(rtu_buf, frame_len)
      <4>1. rtu_buf \in [Slots -> Char] /\ frame_len \in 0 .. BufSize
        BY BufSizeAssumption DEF TypeOK, Slots
      <4> QED
        BY <3>1, <4>1, PrefixType
    <3>2. ASSUME NEW n \in ReplySizes, reply' = Prefix(rtu_buf', n)
          PROVE  reply' = Prefix(rtu_buf', Len(reply'))
      <4>1. rtu_buf' \in [Slots -> Char]
        BY TypeStep DEF TypeOK
      <4>2. n \in 0 .. BufSize
        BY ReplyAssumption, BufSizeAssumption
      <4> QED
        BY <3>2, <4>1, <4>2, PrefixType
    <3> QED
      BY <1>3, <3>1, <3>2 DEF ExecuteRequest
  <2> QED
    BY <2>1, <2>2 DEF ReplyInv
<1>4. CASE EnableDriver
  BY <1>4 DEF EnableDriver, ReplyInv, bufVars, Prefix
<1>5. CASE SendReply
  BY <1>5 DEF SendReply, ReplyInv, bufVars
<1>6. CASE ReleaseBuffer
  BY <1>6 DEF ReleaseBuffer, ReplyInv
<1>7. CASE Housekeeping \/ SampleFrameLen \/ CheckFrame
  BY <1>7 DEF Housekeeping, SampleFrameLen, CheckFrame, ReplyInv
<1>8. CASE StartFrame \/ modbus_tc_callback
  BY <1>1, <1>8 DEF StartFrame, modbus_tc_callback, bufVars, mainVars
<1> QED
  BY <1>1, <1>2, <1>3, <1>4, <1>5, <1>6, <1>7, <1>8
     DEF Next, do_modbus, vars, bufVars, mainVars

-----------------------------------------------------------------------------
(* The inductive invariant.                                                 *)

(* The state after start-up satisfies the inductive invariant.              *)
LEMMA IInvInit == Init => IInv
<1> SUFFICES ASSUME Init PROVE IInv
  OBVIOUS
<1>1. TypeOK
  BY TypeInit
<1>2. /\ executed = <<>> /\ out = <<>> /\ frame_len = 0 /\ rtu_ptr = 0
      /\ pc = "top"
  BY DEF Init
<1>3. HandOverInv /\ BufferInv /\ ReplyInv
  BY <1>2 DEF HandOverInv, BufferInv, ReplyInv, Live, Slots
<1>4. DOMAIN executed = {}
  BY <1>2
<1> QED
  BY <1>1, <1>3, <1>4 DEF IInv, ExecutedInv, RequestsAreWhole, RequestsInOrderOnce

(* Every step keeps the inductive invariant.                                *)
LEMMA IInvStep == IInv /\ [Next]_vars => IInv'
BY TypeStep, HandOverStep, BufferStep, ExecutedStep, ReplyStep DEF IInv

(* The inductive invariant, which the theorems below follow from, holds in  *)
(* every state of every behaviour.                                          *)
THEOREM IInvHolds == Spec => []IInv
BY IInvInit, IInvStep, PTL DEF Spec

(* Every request executed is an intact frame addressed to this slave, for   *)
(* every interleaving of the two interrupts with the main loop.             *)
THEOREM RequestsWhole == Spec => []RequestsAreWhole
<1>1. IInv => RequestsAreWhole
  BY DEF IInv
<1> QED
  BY <1>1, IInvHolds, PTL

(* No frame is executed twice or out of order, whatever the line does.      *)
THEOREM RequestsOrdered == Spec => []RequestsInOrderOnce
<1>1. IInv => RequestsInOrderOnce
  BY DEF IInv
<1> QED
  BY <1>1, IInvHolds, PTL

(* A reply goes out as it was composed.                                     *)
THEOREM RepliesUntorn == Spec => []RepliesAreUntorn
<1>1. IInv => RepliesAreUntorn
  BY DEF IInv, ReplyInv, RepliesAreUntorn
<1> QED
  BY <1>1, IInvHolds, PTL

(* Only an intact frame this slave accepted resets the MODBUS watchdog.     *)
THEOREM WatchdogFeeding == Spec => WatchdogFedByWholeFrames
<1> DEFINE Fed == modbus_watchdog_triggered = 1 /\ modbus_watchdog_triggered' = 0
                  => /\ Whole(rtu_buf, frame_len)
                     /\ rtu_buf[0].val \in {Broadcast, sealedFor}
<1>1. IInv /\ [Next]_vars => [Fed]_vars
  <2> SUFFICES ASSUME IInv, Next, modbus_watchdog_triggered = 1,
                      modbus_watchdog_triggered' = 0
               PROVE  /\ Whole(rtu_buf, frame_len)
                      /\ rtu_buf[0].val \in {Broadcast, sealedFor}
    OBVIOUS
  <2>1. CASE CheckFrame
    BY <2>1 DEF CheckFrame, IInv, HandOverInv, Pending
  <2>2. CASE Housekeeping
    BY <2>2 DEF Housekeeping
  <2>3. CASE \/ StartFrame \/ LineStep \/ modbus_tc_callback \/ SampleFrameLen
             \/ ExecuteRequest \/ EnableDriver \/ SendReply \/ ReleaseBuffer
    BY <2>3 DEF StartFrame, LineStep, modbus_tc_callback, SampleFrameLen,
       ExecuteRequest, EnableDriver, SendReply, ReleaseBuffer, mainVars
  <2> QED
    BY <2>1, <2>2, <2>3 DEF Next, do_modbus
<1> QED
  BY <1>1, IInvHolds, PTL DEF Spec, WatchdogFedByWholeFrames
=============================================================================
