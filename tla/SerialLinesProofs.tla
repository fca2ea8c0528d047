------------------------- MODULE SerialLinesProofs -------------------------
(***************************************************************************)
(* Proofs about SerialLines, for every value of its constants: that the    *)
(* ring buffer of the console implements the bounded queue (UartReceive),  *)
(* that the silence between two frames separates them, also after a change *)
(* of the rate (BaudRate), and that a request writes and is answered as    *)
(* it asks (ModbusRequests).  One inductive invariant for each part.       *)
(*                                                                         *)
(* The leaves with the numbers of modbus.c name their prover: as terms of  *)
(* the other one, numbers of that size are too long.                       *)
(***************************************************************************)
EXTENDS SerialLines, SequenceTheorems, WellFoundedInduction, TLAPS
-----------------------------------------------------------------------------
(* UartReceive: the ring buffer of the console.                             *)

(* What % RingSize does to an index that is at most RingSize.               *)
LEMMA IndexWraps ==
  ASSUME NEW i \in 0 .. RingSize
  PROVE  i % RingSize = IF i = RingSize THEN 0 ELSE i
  BY UartAssumption, SMT DEF UartAssumption

(* The index of ring_put stays in the buffer and moves by one.              *)
LEMMA HeadMoves ==
  ASSUME NEW h \in Slots
  PROVE  (h + 1) % RingSize = IF h + 1 = RingSize THEN 0 ELSE h + 1
  BY IndexWraps, UartAssumption DEF UartAssumption, Slots

(* Where uart_gets stands: interrupts are masked except between two calls,  *)
(* the tail is past the end only between tail++ and tail %= size, and the   *)
(* characters still to take are there.                                      *)
Masking == masked = (pc # "idle")
TailInside == tail = RingSize => pc = "wrap"
LeftToTake ==
  /\ pc = "get" => left <= Length
  /\ pc = "wrap" => left \in 1 .. Length + 1
IInv == TypeOK /\ Masking /\ TailInside /\ LeftToTake

LEMMA LengthType ==
  ASSUME head \in Slots, tail \in 0 .. RingSize
  PROVE  Length \in 0 .. RingSize /\ ring_size = Length
  BY UartAssumption DEF UartAssumption, Slots, Length, ring_size

THEOREM InitIInv == Init => IInv
  <1> SUFFICES ASSUME Init PROVE IInv
    OBVIOUS
  <1>1. TypeOK
    BY UartAssumption, SMT DEF UartAssumption, Init, TypeOK, Slots, Received, Errors
  <1>2. Masking /\ TailInside /\ LeftToTake
    BY UartAssumption DEF UartAssumption, Init, Masking, TailInside, LeftToTake
  <1> QED BY <1>1, <1>2 DEF IInv

(* The received characters keep their type.                                 *)
LEMMA FifoType ==
  ASSUME IInv, [Next]_vars
  PROVE  fifo' \in Seq(Received) /\ Len(fifo') <= 2 /\ bufovf' \in BOOLEAN
  <1> USE DEF IInv, TypeOK
  <1>1. ASSUME NEW c \in Chars, NEW e \in Errors, Arrive(c, e)
        PROVE  fifo' \in Seq(Received) /\ Len(fifo') <= 2 /\ bufovf' \in BOOLEAN
    <2> DEFINE r == [char |-> c, status |-> e, bad |-> e # "none"]
    <2>1. r \in Received
      BY DEF Received
    <2>2. CASE Len(fifo) < 2
      <3>1. fifo' = Append(fifo, r) /\ bufovf' = bufovf
        BY <1>1, <2>2 DEF Arrive
      <3> HIDE DEF r
      <3> QED BY <2>1, <2>2, <3>1
    <2>3. CASE ~(Len(fifo) < 2)
      BY <1>1, <2>3 DEF Arrive
    <2> QED BY <2>2, <2>3
  <1>2. CASE OnError
    <2>1. fifo # <<>> /\ Head(fifo) \in Received /\ Tail(fifo) \in Seq(Received) /\ Len(Tail(fifo)) <= 1
      BY <1>2 DEF OnError, Interrupt
    <2>2. ASSUME ClearStatus
          PROVE fifo' \in Seq(Received) /\ Len(fifo') <= 2
      <3> DEFINE r == [char |-> Head(fifo).char, status |-> "none", bad |-> Head(fifo).bad]
      <3>1. r \in Received
        BY <2>1 DEF Received, Errors
      <3>2. fifo' = <<r>> \o Tail(fifo)
        BY <2>2 DEF ClearStatus
      <3> HIDE DEF r
      <3> QED BY <2>1, <3>1, <3>2
    <2> QED BY <1>2, <2>2 DEF OnError, ClearStatus, ClearOverflow
  <1>3. CASE uart_callback
    BY <1>3 DEF uart_callback, Interrupt
  <1>4. CASE uart_gets
    BY <1>4 DEF uart_gets, EnterCriticalSection, TakeSize, ring_get, Wrap, LeaveCriticalSection
  <1>5. CASE UNCHANGED vars
    BY <1>5 DEF vars
  <1> QED BY <1>1, <1>2, <1>3, <1>4, <1>5 DEF Next

(* The character that waits in the SERCOM.                                  *)
LEMMA HeadType ==
  ASSUME IInv, fifo # <<>>
  PROVE  Head(fifo).char \in Chars
  <1>1. Head(fifo) \in Received
    BY DEF IInv, TypeOK
  <1> QED BY <1>1 DEF Received

THEOREM StepIInv == IInv /\ [Next]_vars => IInv'
  <1> SUFFICES ASSUME IInv, [Next]_vars PROVE IInv'
    OBVIOUS
  <1> USE UartAssumption DEF UartAssumption
  <1>0. fifo' \in Seq(Received) /\ Len(fifo') <= 2 /\ bufovf' \in BOOLEAN
    BY FifoType
  <1>1. CASE \E c \in Chars, e \in Errors : Arrive(c, e)
    BY <1>0, <1>1 DEF Arrive, IInv, TypeOK, Masking, TailInside, LeftToTake, Length, ring, line
  <1>2. CASE OnError
    BY <1>0, <1>2 DEF OnError, IInv, TypeOK, Masking, TailInside, LeftToTake, Length, ring, line
  <1>3. CASE uart_callback
    <2>1. pc = "idle" /\ UNCHANGED <<tail, masked, pc, left, sent, errors>>
      BY <1>3 DEF uart_callback, Interrupt, IInv, TypeOK, Masking, line
    <2>2. Head(fifo).char \in Chars
      BY <1>3, HeadType DEF uart_callback, Interrupt
    <2>3. head' \in Slots /\ data' \in [Slots -> Chars] /\ lost' \in Nat
      <3>1. (head + 1) % RingSize \in Slots
        BY HeadMoves DEF IInv, TypeOK, Slots
      <3> QED BY <1>3, <2>2, <3>1 DEF uart_callback, ring_put, IInv, TypeOK
    <2> QED BY <1>0, <2>1, <2>3 DEF IInv, TypeOK, Masking, TailInside, LeftToTake
  <1>4. ASSUME NEW n \in MaxLen, EnterCriticalSection(n) PROVE IInv'
    BY <1>0, <1>4 DEF EnterCriticalSection, IInv, TypeOK, Masking, TailInside, LeftToTake, ring, line
  <1>5. CASE TakeSize
    <2>1. Length \in 0 .. RingSize /\ ring_size = Length /\ Length' = Length
      BY <1>5, LengthType DEF TakeSize, IInv, TypeOK, Length, ring
    <2> QED BY <1>0, <1>5, <2>1 DEF TakeSize, IInv, TypeOK, Masking, TailInside, LeftToTake, ring, line
  <1>6. CASE ring_get
    <2>1. head # tail /\ tail \in Slots
      BY <1>6 DEF ring_get, IInv, TypeOK, TailInside, LeftToTake, Length, Slots
    <2>2. tail' = tail + 1 /\ Length' = Length - 1 /\ Length \in 1 .. RingSize
      BY <1>6, <2>1 DEF ring_get, IInv, TypeOK, Length, Slots
    <2> QED BY <1>0, <1>6, <2>1, <2>2 DEF ring_get, IInv, TypeOK, Masking, TailInside, LeftToTake,
                   Slots, line
  <1>7. CASE Wrap
    <2>1. tail' = (IF tail = RingSize THEN 0 ELSE tail)
      BY <1>7, IndexWraps DEF Wrap, IInv, TypeOK
    <2>2. Length' = Length /\ Length \in 0 .. RingSize
      BY <1>7, <2>1 DEF Wrap, IInv, TypeOK, Length, Slots
    <2> QED BY <1>0, <1>7, <2>1, <2>2 DEF Wrap, IInv, TypeOK, Masking, TailInside, LeftToTake, line
  <1>8. CASE LeaveCriticalSection
    BY <1>0, <1>8 DEF LeaveCriticalSection, IInv, TypeOK, Masking, TailInside, LeftToTake, ring, line
  <1>9. CASE UNCHANGED vars
    BY <1>0, <1>9 DEF vars, IInv, TypeOK, Masking, TailInside, LeftToTake, Length, ring, line
  <1> QED BY <1>1, <1>2, <1>3, <1>4, <1>5, <1>6, <1>7, <1>8, <1>9 DEF Next, uart_gets

(* Type correctness of the receive path.                                    *)
THEOREM TypeCorrect == Spec => []TypeOK
  <1>1. IInv => TypeOK
    BY DEF IInv
  <1> QED BY <1>1, InitIInv, StepIInv, PTL DEF Spec
-----------------------------------------------------------------------------
(* The refinement.  What each step of the code does to the queue.           *)

(* The slot of a character is in the buffer, and two characters are never   *)
(* in one slot.                                                             *)
LEMMA SlotType ==
  ASSUME head \in Slots, tail \in 0 .. RingSize, NEW i \in 1 .. Length
  PROVE  Slot(i) \in Slots /\ Slot(i) # head
  BY UartAssumption DEF UartAssumption, Slots, Length, Slot

ContentsMatch ==
  /\ Contents \in Seq(Chars) /\ Len(Contents) = Length
  /\ \A i \in 1 .. Length : Contents[i] = data[Slot(i)]

LEMMA ContentsType == TypeOK => ContentsMatch
  <1> SUFFICES ASSUME TypeOK PROVE ContentsMatch
    OBVIOUS
  <1>1. Length \in Nat
    BY LengthType, UartAssumption DEF TypeOK, UartAssumption
  <1>2. \A i \in 1 .. Length : data[Slot(i)] \in Chars
    BY SlotType DEF TypeOK
  <1>3. Contents \in [1 .. Length -> Chars]
    BY <1>2 DEF Contents
  <1>4. Contents \in Seq(Chars)
    BY <1>1, <1>3, SeqDef
  <1> QED BY <1>1, <1>3, <1>4 DEF Contents, ContentsMatch

LEMMA ContentsTypeNext == TypeOK' => ContentsMatch'
  BY ContentsType, PTL

(* A step that leaves the characters where they are leaves the queue.       *)
LEMMA SameContents ==
  ASSUME Length' = Length, \A i \in 1 .. Length : data'[Slot(i)'] = data[Slot(i)]
  PROVE  Contents' = Contents
  BY DEF Contents

(* An interrupt that finds a free slot appends the character.               *)
LEMMA PutAppends ==
  ASSUME IInv, IInv', uart_callback, (head + 1) % RingSize # tail
  PROVE  Queue!Put(Head(fifo).char)
  <1> DEFINE c == Head(fifo).char
  <1>1. TypeOK /\ TypeOK' /\ c \in Chars /\ tail' = tail /\ tail # RingSize
    <2>1. c \in Chars
      BY HeadType DEF uart_callback, Interrupt
    <2> HIDE DEF c
    <2> QED BY <2>1 DEF IInv, TypeOK, TailInside, Masking, uart_callback, Interrupt
  <1>2. head' = (IF head + 1 = RingSize THEN 0 ELSE head + 1) /\ head' # tail
    BY <1>1, HeadMoves DEF uart_callback, ring_put, TypeOK
  <1>3. data' = [data EXCEPT ![head] = c] /\ lost' = lost
    BY DEF uart_callback, ring_put
  <1> HIDE DEF c
  <1>4. PICK n \in 0 .. RingSize - 2 : n = Length /\ Length' = n + 1
    BY <1>1, <1>2, UartAssumption DEF TypeOK, Slots, Length, UartAssumption
  <1>5. \A i \in 1 .. n : Slot(i)' = Slot(i) /\ Slot(i) # head /\ Slot(i) \in Slots
    BY <1>1, <1>4, SlotType DEF TypeOK, Slot
  <1>6. Slot(n + 1)' = head
    BY <1>1, <1>4, UartAssumption DEF TypeOK, Slots, Length, Slot, UartAssumption
  <1>7. \A i \in 1 .. n : data'[Slot(i)'] = data[Slot(i)]
    BY <1>1, <1>3, <1>5 DEF TypeOK
  <1>8. data'[Slot(n + 1)'] = c
    BY <1>1, <1>3, <1>6 DEF TypeOK
  <1>9. /\ Contents \in Seq(Chars) /\ Len(Contents) = n
        /\ \A i \in 1 .. n : Contents[i] = data[Slot(i)]
    BY <1>1, <1>4, ContentsType DEF ContentsMatch
  <1>10. /\ Contents' \in Seq(Chars) /\ Len(Contents') = n + 1
         /\ \A i \in 1 .. n + 1 : Contents'[i] = data'[Slot(i)']
    BY <1>1, <1>4, ContentsTypeNext DEF ContentsMatch
  <1>11. Contents' = Append(Contents, c)
    <2>1. /\ Append(Contents, c) \in Seq(Chars) /\ Len(Append(Contents, c)) = n + 1
          /\ \A i \in 1 .. n : Append(Contents, c)[i] = Contents[i]
          /\ Append(Contents, c)[n + 1] = c
      BY <1>1, <1>4, <1>9
    <2>2. ASSUME NEW i \in 1 .. n + 1
          PROVE  Contents'[i] = Append(Contents, c)[i]
      <3>1. CASE i = n + 1
        BY <3>1, <1>8, <1>10, <2>1
      <3>2. CASE i \in 1 .. n
        BY <3>2, <1>7, <1>9, <1>10, <2>1
      <3>3. i = n + 1 \/ i \in 1 .. n
        <4>1. n \in Nat /\ i \in 1 .. n + 1
          BY <1>4, <2>2, UartAssumption DEF UartAssumption
        <4> QED BY <4>1
      <3> QED BY <3>1, <3>2, <3>3
    <2> QED BY <1>10, <2>1, <2>2, SeqEqual
  <1>12. Len(Contents) < RingSize - 1
    BY <1>4, <1>9, UartAssumption DEF UartAssumption
  <1> QED BY <1>3, <1>11, <1>12 DEF Queue!Put, c

(* An interrupt that finds no free slot drops the character: the queue is   *)
(* full.                                                                    *)
LEMMA FullDrops ==
  ASSUME IInv, uart_callback, (head + 1) % RingSize = tail
  PROVE  Queue!Drop
  <1>1. TypeOK /\ tail # RingSize
    BY DEF IInv, TypeOK, TailInside, Masking, uart_callback, Interrupt
  <1>2. Length = RingSize - 1
    BY <1>1, HeadMoves, UartAssumption DEF TypeOK, Slots, Length, UartAssumption
  <1>3. Len(Contents) = RingSize - 1
    BY <1>1, <1>2, ContentsType DEF ContentsMatch
  <1>4. lost' = lost + 1 /\ UNCHANGED <<head, tail, data>>
    BY DEF uart_callback, ring_put
  <1>5. Contents' = Contents
    BY <1>4 DEF Contents, Length, Slot
  <1> QED BY <1>3, <1>4, <1>5 DEF Queue!Drop

(* tail++ takes the oldest character.                                       *)
LEMMA GetTakesOldest ==
  ASSUME IInv, IInv', ring_get
  PROVE  Queue!Get
  <1>1. TypeOK /\ TypeOK' /\ tail \in Slots /\ head # tail /\ left <= Length
    <2>1. TypeOK /\ TypeOK'
      BY DEF IInv
    <2>2. left \in Nat /\ left > 0 /\ left <= Length
      BY <2>1 DEF TypeOK, IInv, LeftToTake, ring_get
    <2>3. tail \in Slots
      BY <2>1, UartAssumption DEF UartAssumption, IInv, TypeOK, TailInside, ring_get, Slots
    <2>4. head # tail
      BY <2>1, <2>2, <2>3 DEF TypeOK, Length, Slots
    <2> QED BY <2>1, <2>2, <2>3, <2>4
  <1>2. tail' = tail + 1 /\ UNCHANGED <<head, data, lost>>
    BY <1>1 DEF ring_get
  <1>3. PICK n \in 1 .. RingSize : n = Length /\ Length' = n - 1
    <2>1. Length \in 1 .. RingSize
      BY <1>1, UartAssumption DEF TypeOK, Slots, Length, UartAssumption
    <2>2. Length' = Length - 1
      BY <1>1, <1>2, UartAssumption DEF TypeOK, Slots, Length, UartAssumption
    <2> QED BY <2>1, <2>2
  <1>4. \A i \in 1 .. n - 1 : Slot(i)' = Slot(i + 1)
    BY <1>1, <1>2, <1>3, UartAssumption DEF TypeOK, Slots, Slot, UartAssumption
  <1>5. /\ Contents \in Seq(Chars) /\ Len(Contents) = n
        /\ \A i \in 1 .. n : Contents[i] = data[Slot(i)]
    BY <1>1, <1>3, ContentsType DEF ContentsMatch
  <1>6. /\ Contents' \in Seq(Chars) /\ Len(Contents') = n - 1
        /\ \A i \in 1 .. n - 1 : Contents'[i] = data[Slot(i)']
    BY <1>1, <1>2, <1>3, ContentsTypeNext DEF ContentsMatch
  <1>7. /\ Contents # <<>> /\ Tail(Contents) \in Seq(Chars) /\ Len(Tail(Contents)) = n - 1
        /\ \A i \in 1 .. n - 1 : Tail(Contents)[i] = Contents[i + 1]
    BY <1>3, <1>5
  <1>8. \A i \in 1 .. n - 1 : Contents'[i] = Tail(Contents)[i]
    BY <1>3, <1>4, <1>5, <1>6, <1>7
  <1>9. Contents' = Tail(Contents)
    BY <1>6, <1>7, <1>8, SeqEqual
  <1> QED BY <1>2, <1>7, <1>9 DEF Queue!Get

(* tail %= size moves the index and no character.                           *)
LEMMA WrapKeepsQueue ==
  ASSUME IInv, Wrap
  PROVE  UNCHANGED <<Contents, lost>>
  <1>1. TypeOK /\ UNCHANGED <<head, data, lost>>
    BY DEF IInv, Wrap
  <1>2. tail' = IF tail = RingSize THEN 0 ELSE tail
    BY <1>1, IndexWraps DEF Wrap, TypeOK
  <1>3. Length' = Length
    BY <1>1, <1>2 DEF TypeOK, Slots, Length
  <1>4. \A i \in 1 .. Length : Slot(i)' = Slot(i)
    BY <1>1, <1>2, UartAssumption DEF TypeOK, Slots, Length, Slot, UartAssumption
  <1>5. Contents' = Contents
    BY <1>1, <1>3, <1>4, SameContents
  <1> QED BY <1>1, <1>5

(* Initially the queue is empty.                                            *)
LEMMA InitRefines == Init => Queue!Init
  <1> SUFFICES ASSUME Init PROVE Queue!Init
    OBVIOUS
  <1>1. TypeOK /\ Length = 0
    BY InitIInv DEF IInv, Init, Length
  <1>2. Contents = <<>>
    BY <1>1, ContentsType DEF ContentsMatch
  <1> QED BY <1>2 DEF Init, Queue!Init

(* Every step of the code is a step of the queue or leaves it alone.        *)
LEMMA StepRefines ==
  ASSUME IInv, IInv', [Next]_vars
  PROVE  [Queue!Next]_<<Contents, lost>>
  <1> DEFINE Same == UNCHANGED <<head, tail, data, lost>>
  <1>1. Same => UNCHANGED <<Contents, lost>>
    BY DEF Contents, Length, Slot
  <1>2. CASE uart_callback
    <2>1. Head(fifo).char \in Chars
      BY <1>2, HeadType DEF uart_callback, Interrupt
    <2> QED BY <1>2, <2>1, PutAppends, FullDrops DEF Queue!Next
  <1>3. CASE uart_gets
    <2>1. CASE ring_get
      BY <2>1, GetTakesOldest DEF Queue!Next
    <2>2. CASE Wrap
      BY <2>2, WrapKeepsQueue
    <2>3. CASE ~ring_get /\ ~Wrap
      BY <1>1, <1>3, <2>3 DEF uart_gets, EnterCriticalSection, TakeSize, LeaveCriticalSection, ring
    <2> QED BY <2>1, <2>2, <2>3
  <1>4. CASE \E c \in Chars, e \in Errors : Arrive(c, e)
    BY <1>1, <1>4 DEF Arrive, ring
  <1>5. CASE OnError
    BY <1>1, <1>5 DEF OnError, ring
  <1>6. CASE UNCHANGED vars
    BY <1>1, <1>6 DEF vars, ring
  <1> QED BY <1>2, <1>3, <1>4, <1>5, <1>6 DEF Next

(* The receive path is a bounded queue, whatever the size of the ring       *)
(* buffer and wherever the interrupts come.                                 *)
THEOREM RingBufferIsQueue == Spec => ImplementsQueue
  <1> QED BY InitIInv, StepIInv, InitRefines, StepRefines, PTL DEF Spec, ImplementsQueue, Queue!Spec
-----------------------------------------------------------------------------
(* The rate of MODBUS: the silence that ends a frame, in clocks of a timer  *)
(* of 16 bits.                                                              *)

RateAssumption == B!BaudRateAssumption /\ B!SilenceFits

(* The silence belongs to the rate that is used.                            *)
Running == main \in {"env", "cli", "modbus"}
SilenceIsOfRate == Running => B!Usable(baud_rate) /\ compare = B!Silence(baud_rate)
RateInv == B!TypeOK /\ SilenceIsOfRate /\ FramesAreSeparated

LEMMA QuotientBounds ==
  ASSUME NEW n \in Nat, NEW d \in Nat, d > 0
  PROVE  n \div d \in Nat /\ d * (n \div d) <= n /\ n < (d * (n \div d)) + d
  BY SMT

LEMMA PositiveFactor ==
  ASSUME NEW a \in Int, NEW d \in Int, d > 0, d * a > 0
  PROVE  a > 0
  BY SMT

(* Of the quotients u (the silence in microseconds) and q (the time of a    *)
(* character in clocks) for a rate: two and a half characters are shorter   *)
(* than the silence, four and a half are longer.                            *)
LEMMA SilenceBounds ==
  ASSUME NEW r \in Nat, r > 0, r <= 500000,
         NEW u \in Nat, r * u <= 38500000, 38500000 < (r * u) + r, u < 8192,
         NEW q \in Nat, r * q <= 88000000, 88000000 < (r * q) + r
  PROVE  5 * q < 16 * u /\ 16 * u < (9 * q) - 1
  <1> DEFINE U == r * u
             P == r * q
  <1>1. U \in Nat /\ P \in Nat
    BY SMT
  <1>2. r * ((16 * u) - (5 * q)) = (16 * U) - (5 * P)
    BY SMT
  <1>3. r * (((9 * q) - 1) - (16 * u)) = ((9 * P) - r) - (16 * U)
    BY SMT
  <1>4. U <= 38500000 /\ 38500000 < U + r /\ P <= 88000000 /\ 88000000 < P + r
    BY SMT
  <1> HIDE DEF U, P
  <1>5. r * ((16 * u) - (5 * q)) > 0
    BY <1>1, <1>2, <1>4, SMT
  <1>6. r * (((9 * q) - 1) - (16 * u)) > 0
    BY <1>1, <1>3, <1>4, SMT
  <1> QED BY <1>5, <1>6, PositiveFactor, SMT

(* What modbus_configure_timeout sets for a rate that the UART can have,    *)
(* and the distances of characters then.                                    *)
LEMMA TimerOfRate ==
  ASSUME RateAssumption, NEW r \in Rates, B!Usable(r)
  PROVE  \E u, q \in Nat :
           /\ 5 * q < 16 * u /\ 16 * u < (9 * q) - 1
           /\ B!Silence(r) = 8 * (IF u < 1750 THEN 1750 ELSE u)
           /\ q = (11 * B!Clock) \div r
  <1>1. r \in Nat /\ r > 0 /\ r <= 500000
    BY SMT DEF RateAssumption, B!BaudRateAssumption, B!Usable, B!Clock
  <1> DEFINE u == 38500000 \div r
             q == 88000000 \div r
  <1>2. u \in Nat /\ r * u <= 38500000 /\ 38500000 < (r * u) + r
    BY <1>1, QuotientBounds, SMT
  <1>3. q \in Nat /\ r * q <= 88000000 /\ 88000000 < (r * q) + r
    BY <1>1, QuotientBounds, SMT
  <1>4. u < 8192
    BY <1>2, SMT DEF RateAssumption, B!SilenceFits, B!Width
  <1>5. q = (11 * B!Clock) \div r
    BY <1>1, SMT DEF B!Clock
  <1>6. B!Silence(r) = (8 * (IF u < 1750 THEN 1750 ELSE u)) % 65536
    BY SMT DEF B!Silence, B!Width
  <1> HIDE DEF u, q
  <1>7. 5 * q < 16 * u /\ 16 * u < (9 * q) - 1
    BY <1>1, <1>2, <1>3, <1>4, SilenceBounds, SMT
  <1>8. B!Silence(r) = 8 * (IF u < 1750 THEN 1750 ELSE u)
    BY <1>2, <1>4, <1>6, SMT
  <1> QED BY <1>2, <1>3, <1>5, <1>7, <1>8, SMT

(* Within a frame the timer is restarted in time, between two frames it has *)
(* fired.                                                                   *)
LEMMA Distances ==
  ASSUME RateAssumption, RateInv, Running
  PROVE  /\ \A distance \in B!WithinFrame : ~(distance >= compare)
         /\ B!BetweenFrames >= compare
  <1>1. PICK u \in Nat, q \in Nat :
          /\ 5 * q < 16 * u /\ 16 * u < (9 * q) - 1
          /\ compare = 8 * (IF u < 1750 THEN 1750 ELSE u)
          /\ B!CharacterTime = q
    <2>1. baud_rate \in Rates /\ B!Usable(baud_rate) /\ compare = B!Silence(baud_rate)
      BY SMT DEF RateInv, B!TypeOK, SilenceIsOfRate
    <2> QED BY <2>1, TimerOfRate, SMT DEF B!CharacterTime
  <1>2. ASSUME NEW distance \in B!WithinFrame PROVE ~(distance >= compare)
    <2>1. PICK n \in 0 .. 3 : distance = (q * (2 + n)) \div 2
      BY <1>1, SMT DEF B!WithinFrame, B!HalfCharacters
    <2>2. n = 0 \/ n = 1 \/ n = 2 \/ n = 3
      BY <2>1, SMT
    <2>3. distance \in Int /\ 2 * distance <= 5 * q
      BY <2>1, <2>2, SMT
    <2> QED BY <1>1, <2>3, SMT
  <1>3. B!BetweenFrames >= compare
    <2> DEFINE half == (7 * q) \div 2
    <2>1. half \in Int /\ 2 * half >= (7 * q) - 1
      BY SMT
    <2>2. B!BetweenFrames = q + (IF half > 14000 THEN half ELSE 14000)
      BY <1>1, SMT DEF B!BetweenFrames
    <2> HIDE DEF half
    <2> QED BY <1>1, <2>1, <2>2, SMT
  <1> QED BY <1>2, <1>3

LEMMA SilenceType ==
  ASSUME RateAssumption, NEW r \in Rates
  PROVE  B!Silence(r) \in 0 .. B!Width - 1
  <1>1. r \in Nat /\ r > 0
    BY SMT DEF RateAssumption, B!BaudRateAssumption
  <1> DEFINE u == 38500000 \div r
  <1>2. u \in Nat
    BY <1>1, QuotientBounds, SMT
  <1>3. B!Silence(r) = (8 * (IF u < 1750 THEN 1750 ELSE u)) % 65536
    BY SMT DEF B!Silence, B!Width
  <1> HIDE DEF u
  <1>4. B!Silence(r) \in Nat /\ B!Silence(r) < 65536
    BY <1>2, <1>3, SMT
  <1>5. B!Width \in Nat /\ B!Silence(r) < B!Width
    BY <1>4, SMT DEF B!Width
  <1> QED BY <1>4, <1>5, SMT

LEMMA RateInit == ASSUME RateAssumption, B!Init PROVE RateInv
  <1>c. FrameSize \in Nat \ {0, 1} /\ BufSize \in Nat \ {0, 1} /\ Default \in Rates
    BY SMT DEF RateAssumption, B!BaudRateAssumption
  <1>1. main = "init" /\ ~Running
    BY SMT DEF B!Init, Running
  <1>2. {env, saved, baud_rate} \subseteq Rates
    BY <1>c, SMT DEF B!Init
  <1>3. env_dirty \in BOOLEAN /\ inStep \in BOOLEAN
    BY Zenon DEF B!Init
  <1>4. compare \in 0 .. B!Width - 1
    BY <1>c, SilenceType, SMT DEF B!Init
  <1>5. rtu_ptr \in 0 .. BufSize - 1 /\ transmitted \in 0 .. FrameSize
    BY <1>c, SMT DEF B!Init
  <1>6. FramesAreSeparated
    BY <1>1, SMT DEF FramesAreSeparated, B!FramesAreSeparated
  <1> QED BY <1>1, <1>2, <1>3, <1>4, <1>5, <1>6, Zenon DEF RateInv, B!TypeOK, SilenceIsOfRate

(* A step that leaves the rate and the timer alone, or sets both.           *)
LEMMA SilenceStays ==
  ASSUME SilenceIsOfRate, UNCHANGED <<baud_rate, compare>>, Running' => Running
  PROVE  SilenceIsOfRate'
  BY SMT DEF SilenceIsOfRate, B!Usable, B!Silence, B!Clock, B!Width

LEMMA SilenceIsSet ==
  ASSUME B!Usable(env), baud_rate' = env, compare' = B!Silence(env)
  PROVE  SilenceIsOfRate'
  BY SMT DEF SilenceIsOfRate, B!Usable, B!Silence, B!Clock, B!Width

(* The width of the timer is a constant.                                    *)
LEMMA WidthStays == B!Width' = B!Width
  BY SMT DEF B!Width

LEMMA RateTypes ==
  ASSUME RateAssumption, B!TypeOK, B!Main \/ B!WatchdogReset \/ B!Reset
  PROVE  B!TypeOK'
  <1> USE DEF B!TypeOK, B!environment, B!line, B!Main, B!do_env, B!do_cli, B!do_modbus,
              B!modbus_init, B!WatchdogReset, B!Reset, B!Restart, B!Applied
  <1>c. FrameSize \in Nat \ {0, 1} /\ BufSize \in Nat \ {0, 1} /\ Default \in Rates
    BY SMT DEF RateAssumption, B!BaudRateAssumption
  <1>1. main' \in {"env", "cli", "modbus", "init", "stuck", "dead"}
    BY SMT
  <1>2. {env', saved', baud_rate'} \subseteq Rates
    BY <1>c, SMT
  <1>3. env_dirty' \in BOOLEAN /\ inStep' \in BOOLEAN
    BY Zenon
  <1>4. compare' \in 0 .. B!Width - 1
    BY SilenceType, SMT
  <1>5. rtu_ptr' \in 0 .. BufSize - 1 /\ transmitted' \in 0 .. FrameSize
    BY <1>c, SMT
  <1> QED BY <1>1, <1>2, <1>3, <1>4, <1>5, WidthStays, SMT

(* Only characters and new rates disturb the count of the characters.       *)
LEMMA FramesStay ==
  ASSUME FramesAreSeparated, UNCHANGED <<rtu_ptr, transmitted, inStep>>, Running' => Running
  PROVE  FramesAreSeparated'
  BY SMT DEF FramesAreSeparated, B!FramesAreSeparated, Running

(* The product of a number with a larger one.                               *)
LEMMA SmallFactor ==
  ASSUME NEW d \in Nat, NEW z \in Int, z * d < d, -d < z * d
  PROVE  z = 0
  BY SMT

(* Quotients.                                                               *)
LEMMA DivMultiple ==
  ASSUME NEW d \in Nat, d > 0, NEW q \in Int, NEW r \in 0 .. d - 1
  PROVE  (q * d + r) \div d = q
  <1> DEFINE p == q * d
             v == p + r
             e == v \div d
             m == e * d
  <1>1. p \in Int /\ v \in Int
    OBVIOUS
  <1>2. e \in Int /\ m \in Int /\ m <= v /\ v < m + d
    BY <1>1, SMT
  <1>3. (e - q) * d = m - p
    BY <1>1, <1>2
  <1> HIDE DEF p, m, e
  <1>4. m - p < d /\ -d < m - p
    BY <1>1, <1>2
  <1>5. e - q = 0
    BY <1>2, <1>3, <1>4, SmallFactor
  <1> QED BY <1>2, <1>5 DEF e, p

(* Quotient and remainder.                                                  *)
LEMMA DivideBy ==
  ASSUME NEW d \in Nat, d > 0, NEW v \in Nat
  PROVE  /\ v \div d \in Nat /\ v % d \in 0 .. d - 1 /\ v = (v \div d) * d + (v % d)
  BY SMT

(* The pointer and the number of characters go round together.              *)
LEMMA NextModulo ==
  ASSUME NEW s \in Nat, NEW b \in Nat \ {0, 1}
  PROVE  (s + 1) % b = IF (s % b) + 1 = b THEN 0 ELSE (s % b) + 1
  <1> DEFINE q == s \div b
             r == s % b
  <1>1. q \in Nat /\ r \in 0 .. b - 1 /\ s = q * b + r
    BY DivideBy
  <1>2. s + 1 \in Nat /\ s + 1 = ((s + 1) \div b) * b + ((s + 1) % b) /\ (s + 1) % b \in 0 .. b - 1
    BY DivideBy
  <1> HIDE DEF q, r
  <1>3. CASE r + 1 = b
    <2>1. q + 1 \in Nat /\ s + 1 = (q + 1) * b + 0
      BY <1>1, <1>3
    <2>2. (s + 1) \div b = q + 1
      BY <2>1, DivMultiple
    <2>3. (s + 1) % b = 0
      BY <1>2, <2>1, <2>2
    <2> QED BY <1>3, <2>3 DEF r
  <1>4. CASE r + 1 # b
    <2>1. r + 1 \in 0 .. b - 1 /\ s + 1 = q * b + (r + 1)
      BY <1>1, <1>4
    <2>2. (s + 1) \div b = q
      BY <1>1, <2>1, DivMultiple
    <2>3. (s + 1) % b = r + 1
      BY <1>1, <1>2, <2>1, <2>2
    <2> QED BY <1>4, <2>3 DEF r
  <1> QED BY <1>3, <1>4

LEMMA RateStep == ASSUME RateAssumption, RateInv, [B!Next]_lineRate PROVE RateInv'
  <1>1. CASE B!do_env \/ B!do_cli
    <2>1. Running /\ UNCHANGED <<baud_rate, compare, rtu_ptr, transmitted, inStep>>
      BY <1>1, SMT DEF B!do_env, B!do_cli, B!line, Running
    <2> QED BY <1>1, <2>1, RateTypes, SilenceStays, FramesStay, Zenon DEF B!Main, RateInv
  <1>2. CASE B!do_modbus
    <2>1. CASE B!Usable(env) /\ env # baud_rate
      <3>1. baud_rate' = env /\ compare' = B!Silence(env) /\ inStep' = FALSE
        BY <1>2, <2>1, SMT DEF B!do_modbus, B!Applied
      <3>2. FramesAreSeparated'
        BY <3>1, SMT DEF FramesAreSeparated, B!FramesAreSeparated
      <3> QED BY <1>2, <2>1, <3>1, <3>2, RateTypes, SilenceIsSet, Zenon DEF B!Main, RateInv
    <2>2. CASE env = baud_rate
      <3>1. Running /\ UNCHANGED <<baud_rate, compare, rtu_ptr, transmitted, inStep>>
        BY <1>2, <2>2, SMT DEF B!do_modbus, B!line, Running
      <3> QED BY <1>2, <3>1, RateTypes, SilenceStays, FramesStay, Zenon DEF B!Main, RateInv
    <2>3. CASE env # baud_rate /\ ~B!Usable(env)
      <3>1. ~Running' /\ Running /\ UNCHANGED <<rtu_ptr, transmitted, inStep>>
        BY <1>2, <2>3, SMT DEF B!do_modbus, B!line, Running
      <3> QED BY <1>2, <3>1, RateTypes, FramesStay, Zenon DEF B!Main, RateInv, SilenceIsOfRate
    <2> QED BY <2>1, <2>2, <2>3, Zenon
  <1>3. CASE B!modbus_init
    <2>1. CASE B!Usable(env)
      <3>1. baud_rate' = env /\ compare' = B!Silence(env) /\ inStep' = FALSE
        BY <1>3, <2>1, SMT DEF B!modbus_init, B!Applied
      <3>2. FramesAreSeparated'
        BY <3>1, SMT DEF FramesAreSeparated, B!FramesAreSeparated
      <3> QED BY <1>3, <2>1, <3>1, <3>2, RateTypes, SilenceIsSet, Zenon DEF B!Main, RateInv
    <2>2. CASE ~B!Usable(env)
      <3>1. ~Running' /\ UNCHANGED <<rtu_ptr, transmitted, inStep>>
        BY <1>3, <2>2, SMT DEF B!modbus_init, B!line, Running
      <3> QED BY <1>3, <3>1, RateTypes, FramesStay, Zenon DEF B!Main, RateInv, SilenceIsOfRate
    <2> QED BY <2>1, <2>2, Zenon
  <1>4. CASE B!WatchdogReset \/ B!Reset
    <2>1. ~Running' /\ UNCHANGED <<rtu_ptr, transmitted, inStep>>
      BY <1>4, SMT DEF B!WatchdogReset, B!Reset, B!Restart, B!line, Running
    <2> QED BY <1>4, <2>1, RateTypes, FramesStay, Zenon DEF RateInv, SilenceIsOfRate
  <1>5. CASE B!NextCharacter
    <2> USE DEF B!environment
    <2>c. FrameSize \in Nat \ {0, 1} /\ BufSize \in Nat \ {0, 1} /\ B!TypeOK /\ Running
      BY <1>5, SMT DEF RateAssumption, B!BaudRateAssumption, RateInv, B!NextCharacter, Running
    <2>1. CASE transmitted \in 1 .. FrameSize - 1 /\ transmitted' = transmitted + 1
               /\ \E distance \in B!WithinFrame : B!Received(distance)
      <3>1. /\ rtu_ptr' = B!NextSlot
            /\ UNCHANGED <<inStep, main, env, env_dirty, saved, baud_rate, compare>>
        BY <2>c, <2>1, Distances, SMT DEF B!Received
      <3>2. B!TypeOK'
        BY <2>c, <2>1, <3>1, SMT DEF B!TypeOK, B!NextSlot
      <3>3. ASSUME inStep PROVE rtu_ptr' = transmitted' % BufSize
        <4>1. rtu_ptr = transmitted % BufSize /\ transmitted \in Nat
          BY <2>c, <2>1, <3>3, SMT DEF RateInv, FramesAreSeparated, B!FramesAreSeparated, Running
        <4>2. (transmitted + 1) % BufSize = IF rtu_ptr + 1 = BufSize THEN 0 ELSE rtu_ptr + 1
          BY <2>c, <4>1, NextModulo, Zenon
        <4> QED BY <2>1, <3>1, <4>2, Zenon DEF B!NextSlot
      <3>4. FramesAreSeparated'
        BY <3>1, <3>3, SMT DEF FramesAreSeparated, B!FramesAreSeparated
      <3> QED BY <2>c, <3>1, <3>2, <3>4, SilenceStays, Zenon DEF RateInv
    <2>2. CASE transmitted' = 1 /\ B!Received(B!BetweenFrames)
      <3>1. /\ rtu_ptr' = 1 /\ inStep' = TRUE
            /\ UNCHANGED <<main, env, env_dirty, saved, baud_rate, compare>>
        BY <2>c, <2>2, Distances, SMT DEF B!Received
      <3>2. B!TypeOK'
        BY <2>c, <2>2, <3>1, SMT DEF B!TypeOK
      <3>3. FramesAreSeparated'
        BY <2>c, <2>2, <3>1, SMT DEF FramesAreSeparated, B!FramesAreSeparated
      <3> QED BY <2>c, <3>1, <3>2, <3>3, SilenceStays, Zenon DEF RateInv
    <2> QED BY <1>5, <2>1, <2>2, Zenon DEF B!NextCharacter
  <1>6. CASE UNCHANGED lineRate
    <2>1. /\ UNCHANGED <<main, env, env_dirty, saved, baud_rate, compare>>
          /\ UNCHANGED <<rtu_ptr, transmitted, inStep>>
      BY <1>6, SMT DEF lineRate
    <2>2. B!TypeOK'
      BY <2>1, SMT DEF RateInv, B!TypeOK
    <2>3. Running' = Running
      BY <2>1, SMT DEF Running
    <2> QED BY <2>1, <2>2, <2>3, SilenceStays, FramesStay, SMT DEF RateInv
  <1> QED BY <1>1, <1>2, <1>3, <1>4, <1>5, <1>6, Zenon DEF B!Next, B!Main

LEMMA RateHolds == ASSUME RateAssumption PROVE LinesSpec => []RateInv
  <1>1. LinesInit => RateInv
    BY RateInit, Zenon DEF LinesInit
  <1>2. [LinesNext]_lines => [B!Next]_lineRate
    BY Zenon DEF LinesNext, lines
  <1>3. RateInv /\ [LinesNext]_lines => RateInv'
    BY <1>2, RateStep, Zenon
  <1> QED BY <1>1, <1>3, PTL DEF LinesSpec

(* The rates of the environment and the UART, the compare register and the  *)
(* fill pointer keep their types: whatever the rate, what is written to the *)
(* register fits it (modbus.c:121), and the buffer is not overrun.          *)
THEOREM RateTypeCorrect == ASSUME RateAssumption PROVE LinesSpec => []B!TypeOK
  <1>1. RateInv => B!TypeOK
    BY Zenon DEF RateInv
  <1> QED BY <1>1, RateHolds, PTL

(* The silence of 3.5 characters ends every frame and none early, for every *)
(* rate that the UART can have and whose silence fits the timer, any sizes  *)
(* of frame and buffer, and any changes of the rate (modbus.c:106-122,      *)
(* 577-583).                                                                *)
THEOREM SilenceSeparatesFrames ==
  ASSUME RateAssumption PROVE LinesSpec => []FramesAreSeparated
  <1>1. RateInv => FramesAreSeparated
    BY Zenon DEF RateInv
  <1> QED BY <1>1, RateHolds, PTL
-----------------------------------------------------------------------------
(* The requests of MODBUS.                                                  *)

(* The buffer holds the request s.                                          *)
Holds(s) == \A k \in 1 .. Len(s) : rtu_buf[k - 1] = s[k]

(* Where a request is on its way: as it arrived, before it is parsed, while *)
(* the registers of its reply are read one by one, and with its reply       *)
(* ready.                                                                   *)
Arrived == phase = "idle" /\ frame_len # 0 => \E r \in Requests : frame_len = Len(r) + 2 /\ Holds(r)
Remembered == phase # "idle" => request \in Requests /\ input_regs[RPM_DEVIATION] \in deviations
Parsing == phase = "parse" => Holds(request) /\ before = holding_regs /\ written = <<>>

ReadSoFar ==
  LET addr == Q!Asked(request, 3) qty == Q!Asked(request, 5) IN
  /\ request[2] = READ_INPUT_REGS /\ Q!InRange(addr, qty, Inputs) /\ item <= qty
  /\ rtu_buf[0] = request[1] /\ rtu_buf[1] = request[2] /\ rtu_buf[2] = (2 * qty) % Q!Base
  /\ 3 + 2 * item <= Q!Base
  /\ \A n \in 0 .. item - 1 : Q!WordAt(3 + 2 * n) \in Q!ValuesOf(addr + n)
Reading == phase = "read" => ReadSoFar

(* The reply fits the buffer, and its CRC, too, unless the read is too long. *)
Fits == resp_len \in Nat /\ resp_len + 2 <= Q!Base /\ (resp_len + 4 <= Q!Base \/ Q!TooLong(request))
Sending == phase = "send" => Q!Answers(Q!Outgoing) /\ Fits

(* While no access has missed its array, and afterwards.                    *)
Serving ==
  /\ Q!TypeOK /\ stray = FALSE
  /\ Arrived /\ Remembered /\ Parsing /\ Reading /\ Sending
  /\ Q!RegistersAsRequested /\ Q!ReplyAnswersRequest
Overrun == Q!TypeOK /\ stray = TRUE /\ Q!TooLong(request)

RequestsInv == Serving \/ Overrun

(* A set of numbers has a least one.                                        *)
LEMMA LeastOf ==
  ASSUME NEW S \in SUBSET Nat, S # {}
  PROVE  \E m \in S : \A n \in S : m <= n
  <1> DEFINE R == OpToRel(<, Nat)
  <1>1. IsWellFoundedOn(R, Nat)
    BY NatLessThanWellFounded
  <1>2. \A m, n \in Nat : n < m => <<n, m>> \in R
    BY DEF OpToRel
  <1> HIDE DEF R
  <1>3. PICK m \in S : \A n \in S : ~(<<n, m>> \in R)
    BY <1>1, WFMin
  <1>4. \A n \in S : ~(n < m) /\ n \in Nat /\ m \in Nat
    BY <1>2, <1>3
  <1> QED BY <1>4

(* The powers of two.                                                       *)
LEMMA PowerStep ==
  ASSUME Q!RequestsAssumption
  PROVE  /\ W \in Nat /\ W > 2 /\ Power[0] = 1
         /\ \A n \in 0 .. 2 * W : Power[n] \in Nat
         /\ \A n \in 0 .. 2 * W - 1 : Power[n + 1] = 2 * Power[n]
  BY DEF Q!RequestsAssumption

(* By the least counterexample, as every such fact here.                    *)
LEMMA PowerPositive ==
  ASSUME Q!RequestsAssumption, NEW n \in 0 .. 2 * W
  PROVE  Power[n] \in Nat /\ Power[n] > 0
  <1> DEFINE S == {m \in 0 .. 2 * W : ~(Power[m] > 0)}
  <1>1. ASSUME S # {} PROVE FALSE
    <2>1. S \in SUBSET Nat
      OBVIOUS
    <2>2. PICK m \in S : \A k \in S : m <= k
      BY <1>1, <2>1, LeastOf
    <2>3. m # 0 /\ m - 1 \in 0 .. 2 * W - 1 /\ m - 1 \notin S
      BY <2>2, PowerStep
    <2>4. Power[(m - 1) + 1] = 2 * Power[m - 1] /\ (m - 1) + 1 = m /\ Power[m - 1] \in Nat
      BY <2>2, <2>3, PowerStep
    <2> QED BY <2>2, <2>3, <2>4, PowerStep
  <1> QED BY <1>1, PowerStep

(* A power is an even multiple of each lower one.                           *)
LEMMA PowerMultiple ==
  ASSUME Q!RequestsAssumption, NEW n \in 0 .. 2 * W, NEW k \in 0 .. n - 1
  PROVE  \E f \in Nat : f > 0 /\ Power[n] = 2 * (f * Power[k])
  <1> DEFINE P(m) == \E f \in Nat : f > 0 /\ Power[m] = 2 * (f * Power[k])
             S == {m \in k + 1 .. 2 * W : ~P(m)}
  <1>1. ASSUME S # {} PROVE FALSE
    <2>1. S \in SUBSET Nat
      OBVIOUS
    <2>2. PICK m \in S : \A j \in S : m <= j
      BY <1>1, <2>1, LeastOf
    <2> W \in Nat
      BY PowerStep
    <2>3. CASE m = k + 1
      <3>1. Power[m] = 2 * (1 * Power[k])
        BY <2>3, PowerStep
      <3> QED BY <2>2, <3>1
    <2>4. CASE m # k + 1
      <3>1. m - 1 \in k + 1 .. 2 * W /\ m - 1 \notin S
        BY <2>2, <2>4
      <3>2. PICK f \in Nat : f > 0 /\ Power[m - 1] = 2 * (f * Power[k])
        BY <3>1
      <3>3. Power[m] = 2 * Power[m - 1]
        <4>1. m - 1 \in 0 .. 2 * W - 1 /\ (m - 1) + 1 = m
          BY <3>1, <2>2, PowerStep
        <4>2. Power[(m - 1) + 1] = 2 * Power[m - 1]
          BY <4>1, PowerStep
        <4> QED BY <4>1, <4>2
      <3>4. 2 * (2 * (f * Power[k])) = 2 * ((2 * f) * Power[k])
        BY PowerStep
      <3>5. 2 * f \in Nat /\ 2 * f > 0
        BY <3>2
      <3> QED BY <2>2, <3>2, <3>3, <3>4, <3>5
    <2> QED BY <2>3, <2>4
  <1> QED BY <1>1

(* 2^(W + n) = 2^W * 2^n.                                                   *)
LEMMA PowerSum ==
  ASSUME Q!RequestsAssumption, NEW n \in 0 .. W
  PROVE  Power[W + n] = Q!Base * Power[n]
  <1> DEFINE S == {m \in 0 .. W : ~(Power[W + m] = Q!Base * Power[m])}
  <1>1. ASSUME S # {} PROVE FALSE
    <2>1. S \in SUBSET Nat
      OBVIOUS
    <2>2. PICK m \in S : \A j \in S : m <= j
      BY <1>1, <2>1, LeastOf
    <2>3. CASE m = 0
      <3>1. Q!Base \in Nat /\ W + 0 = W /\ Q!Base * 1 = Q!Base
        BY PowerStep DEF Q!Base
      <3>2. Power[W + 0] = Q!Base
        BY <3>1 DEF Q!Base
      <3>3. Q!Base * Power[0] = Q!Base
        BY <3>1, PowerStep
      <3>4. Power[W + m] = Q!Base * Power[m]
        BY <2>2, <2>3, <3>1, <3>2, <3>3, PowerStep
      <3> QED BY <2>2, <3>4
    <2>4. CASE m # 0
      <3>1. m - 1 \in 0 .. W /\ m - 1 \notin S
        BY <2>2, <2>4, PowerStep
      <3>2. Power[W + (m - 1)] = Q!Base * Power[m - 1]
        BY <3>1
      <3>3. Power[(m - 1) + 1] = 2 * Power[m - 1] /\ Power[(W + (m - 1)) + 1] = 2 * Power[W + (m - 1)]
        BY <3>1, PowerStep
      <3>4. (m - 1) + 1 = m /\ (W + (m - 1)) + 1 = W + m
        BY <2>2, PowerStep
      <3>5. Q!Base \in Nat /\ Power[m - 1] \in Nat
        BY <3>1, PowerStep DEF Q!Base
      <3>6. 2 * (Q!Base * Power[m - 1]) = Q!Base * (2 * Power[m - 1])
        BY <3>5
      <3> QED BY <2>2, <3>2, <3>3, <3>4, <3>6
    <2> QED BY <2>3, <2>4
  <1> QED BY <1>1

(* The base is an even power of two, and a word has 2 * W bits.             *)
LEMMA BaseFacts ==
  ASSUME Q!RequestsAssumption
  PROVE  /\ Q!Base \in Nat /\ Q!Base >= 8 /\ Q!Base % 2 = 0 /\ Power[2 * W] = Q!Base * Q!Base
         /\ Q!Base * Q!Base \in Nat /\ Q!Base <= Q!Base * Q!Base
  <1>1. Q!Base \in Nat /\ Q!Base > 0 /\ Power[W + W] = Q!Base * Power[W] /\ W + W = 2 * W
    BY PowerStep, PowerPositive, PowerSum DEF Q!Base
  <1>2. Power[0 + 1] = 2 /\ Power[1 + 1] = 2 * Power[1] /\ Power[2] = 4
    BY PowerStep
  <1>3. PICK f \in Nat : f > 0 /\ Power[W] = 2 * (f * Power[2])
    BY PowerMultiple, PowerStep
  <1>4. Q!Base = 8 * f
    BY <1>2, <1>3 DEF Q!Base
  <1>5. Q!Base * Q!Base \in Nat /\ Q!Base <= Q!Base * Q!Base
    BY <1>1, SMT
  <1> QED BY <1>1, <1>3, <1>4, <1>5 DEF Q!Base

(* A bit is 0 or 1.                                                         *)
LEMMA BitType ==
  ASSUME Q!RequestsAssumption, NEW n \in 0 .. 2 * W, NEW v \in Nat
  PROVE  Q!BitOf(v, n) \in {0, 1}
  <1>1. v \div Power[n] \in Nat
    BY PowerPositive, DivideBy
  <1> QED BY <1>1 DEF Q!BitOf

(* Adding a multiple of a higher power does not touch a bit.                *)
LEMMA BitKept ==
  ASSUME Q!RequestsAssumption, NEW n \in 0 .. 2 * W, NEW k \in 0 .. n - 1,
         NEW v \in Nat, NEW b \in {0, 1}
  PROVE  Q!BitOf(v + b * Power[n], k) = Q!BitOf(v, k)
  <1> W \in Nat /\ k \in 0 .. 2 * W
    BY PowerStep
  <1>1. PICK f \in Nat : f > 0 /\ Power[n] = 2 * (f * Power[k])
    BY PowerMultiple
  <1> DEFINE d == Power[k]
             q == v \div d
             r == v % d
             g == b * f
  <1>2. d \in Nat /\ d > 0
    BY PowerPositive
  <1>3. q \in Nat /\ r \in 0 .. d - 1 /\ v = q * d + r
    BY <1>2, DivideBy
  <1>4. g \in Nat
    BY <1>1
  <1>5. b * Power[n] = (2 * g) * d
    BY <1>1, <1>2
  <1> HIDE DEF d, q, r, g
  <1>6. v + b * Power[n] = (q + 2 * g) * d + r
    BY <1>2, <1>3, <1>4, <1>5
  <1>7. (v + b * Power[n]) \div d = q + 2 * g
    BY <1>2, <1>3, <1>4, <1>6, DivMultiple
  <1>8. (q + 2 * g) % 2 = q % 2
    BY <1>3, <1>4
  <1> QED BY <1>7, <1>8 DEF Q!BitOf, d, q

(* A bit that is added on top.                                              *)
LEMMA BitAdded ==
  ASSUME Q!RequestsAssumption, NEW n \in 0 .. 2 * W,
         NEW v \in 0 .. Power[n] - 1, NEW b \in {0, 1}
  PROVE  Q!BitOf(v + b * Power[n], n) = b
  <1>1. (b * Power[n] + v) \div Power[n] = b
    BY PowerPositive, DivMultiple
  <1>2. b * Power[n] + v = v + b * Power[n]
    BY PowerPositive
  <1>3. b % 2 = b
    OBVIOUS
  <1> QED BY <1>1, <1>2, <1>3 DEF Q!BitOf

HasBits(v, bit, n) == \A k \in 0 .. n - 1 : Q!BitOf(v, k) = bit[k]

(* Any bits are the bits of a number, built from the lowest one on.         *)
LEMMA NumberExists ==
  ASSUME Q!RequestsAssumption, NEW n \in 0 .. 2 * W, NEW bit,
         \A k \in 0 .. n - 1 : bit[k] \in {0, 1}
  PROVE  \E v \in 0 .. Power[n] - 1 : HasBits(v, bit, n)
  <1> W \in Nat /\ n \in Nat
    BY PowerStep
  <1> DEFINE P(m) == \E v \in 0 .. Power[m] - 1 : HasBits(v, bit, m)
             S == {m \in 0 .. n : ~P(m)}
  <1>1. ASSUME S # {} PROVE FALSE
    <2>1. S \in SUBSET Nat
      OBVIOUS
    <2>2. PICK m \in S : \A j \in S : m <= j
      BY <1>1, <2>1, LeastOf
    <2>3. CASE m = 0
      <3>1. 0 \in 0 .. Power[0] - 1 /\ HasBits(0, bit, 0)
        BY PowerStep DEF HasBits
      <3> QED BY <2>2, <2>3, <3>1
    <2>4. CASE m # 0
      <3> DEFINE l == m - 1
      <3>1. l \in 0 .. n - 1 /\ l \notin S /\ m = l + 1 /\ l \in 0 .. 2 * W - 1 /\ l \in 0 .. 2 * W
        BY <2>2, <2>4
      <3>2. PICK v \in 0 .. Power[l] - 1 : HasBits(v, bit, l)
        BY <3>1
      <3> HIDE DEF l
      <3>3. Power[m] = 2 * Power[l] /\ Power[l] \in Nat
        BY <3>1, PowerStep
      <3>4. bit[l] \in {0, 1}
        BY <3>1
      <3> DEFINE w == v + bit[l] * Power[l]
      <3>5. w \in 0 .. Power[m] - 1
        BY <3>2, <3>3, <3>4
      <3>6. ASSUME NEW k \in 0 .. m - 1 PROVE Q!BitOf(w, k) = bit[k]
        <4>1. CASE k = l
          BY <3>1, <3>2, <3>4, <4>1, BitAdded
        <4>2. CASE k # l
          <5>1. k \in 0 .. l - 1
            BY <3>1, <4>2
          <5>2. Q!BitOf(w, k) = Q!BitOf(v, k)
            BY <3>1, <3>2, <3>3, <3>4, <5>1, BitKept
          <5> QED BY <3>2, <5>1, <5>2 DEF HasBits
        <4> QED BY <4>1, <4>2
      <3> HIDE DEF w
      <3>7. P(m)
        BY <3>5, <3>6 DEF HasBits
      <3> QED BY <2>2, <3>7
    <2> QED BY <2>3, <2>4
  <1> HIDE DEF P
  <1>2. P(n)
    BY <1>1
  <1> QED BY <1>2 DEF P

(* So NumberOf chooses one that has them.                                   *)
LEMMA NumberHasBits ==
  ASSUME Q!RequestsAssumption, NEW n \in 0 .. 2 * W, NEW bit,
         \A k \in 0 .. n - 1 : bit[k] \in {0, 1}
  PROVE  Q!NumberOf(bit, n) \in 0 .. Power[n] - 1 /\ HasBits(Q!NumberOf(bit, n), bit, n)
  BY NumberExists, Zenon DEF Q!NumberOf, HasBits

(* The complement has the other bits.                                       *)
LEMMA BitOfComplement ==
  ASSUME Q!RequestsAssumption, NEW x \in Q!Word, NEW k \in 0 .. 2 * W - 1
  PROVE  Q!Complement(x) \in Q!Word /\ Q!BitOf(Q!Complement(x), k) = 1 - Q!BitOf(x, k)
  <1> W \in Nat /\ k \in 0 .. 2 * W
    BY PowerStep
  <1>1. PICK f \in Nat : f > 0 /\ Power[2 * W] = 2 * (f * Power[k])
    BY PowerMultiple
  <1> DEFINE d == Power[k]
             q == x \div d
             r == x % d
  <1>2. d \in Nat /\ d > 0 /\ x \in Nat /\ Q!Base * Q!Base = Power[2 * W] /\ Q!Base * Q!Base \in Nat
    BY PowerPositive, BaseFacts DEF Q!Word
  <1>3. q \in Nat /\ r \in 0 .. d - 1 /\ x = q * d + r
    BY <1>2, DivideBy
  <1>4. Q!Complement(x) = (2 * f) * d - 1 - x
    BY <1>1, <1>2 DEF Q!Complement
  <1> HIDE DEF d, q, r
  <1>5. Q!Complement(x) = ((2 * f - 1) - q) * d + ((d - 1) - r)
    BY <1>1, <1>2, <1>3, <1>4
  <1>6. Q!Complement(x) \div d = (2 * f - 1) - q
    BY <1>1, <1>2, <1>3, <1>5, DivMultiple
  <1>7. ((2 * f - 1) - q) % 2 = 1 - (q % 2)
    BY <1>1, <1>3
  <1>8. Q!Complement(x) \in Q!Word
    BY <1>2 DEF Q!Complement, Q!Word
  <1> QED BY <1>6, <1>7, <1>8 DEF Q!BitOf, d, q

(* The masked value takes its bits where the code says (modbus.c:498).      *)
LEMMA MaskedBits ==
  ASSUME Q!RequestsAssumption, NEW v \in Q!Word, NEW a \in Q!Word, NEW o \in Q!Word
  PROVE  /\ Q!Masked(v, a, o) \in Q!Word
         /\ \A k \in 0 .. 2 * W - 1 :
              Q!BitOf(Q!Masked(v, a, o), k) = IF Q!BitOf(a, k) = 1 THEN Q!BitOf(v, k) ELSE Q!BitOf(o, k)
  <1> W \in Nat /\ Q!Word = 0 .. Power[2 * W] - 1 /\ Q!Word \subseteq Nat
    BY PowerStep, BaseFacts DEF Q!Word
  <1> DEFINE c == Q!Complement(a)
             x == Q!BitAnd(v, a)
             y == Q!BitAnd(o, c)
  <1>1. c \in Q!Word /\ \A k \in 0 .. 2 * W - 1 : Q!BitOf(c, k) = 1 - Q!BitOf(a, k)
    <2>1. 0 \in 0 .. 2 * W - 1
      BY PowerStep
    <2> QED BY <2>1, BitOfComplement
  <1>2. ASSUME NEW s \in Q!Word, NEW t \in Q!Word
        PROVE  /\ Q!BitAnd(s, t) \in Q!Word
               /\ \A k \in 0 .. 2 * W - 1 : Q!BitOf(Q!BitAnd(s, t), k) = Q!BitOf(s, k) * Q!BitOf(t, k)
    <2> DEFINE bit == [k \in 0 .. 2 * W - 1 |-> Q!BitOf(s, k) * Q!BitOf(t, k)]
    <2>1. \A k \in 0 .. 2 * W - 1 : bit[k] = Q!BitOf(s, k) * Q!BitOf(t, k) /\ bit[k] \in {0, 1}
      BY BitType
    <2>2. Q!BitAnd(s, t) = Q!NumberOf(bit, 2 * W)
      BY DEF Q!BitAnd
    <2> HIDE DEF bit
    <2> QED BY <2>1, <2>2, NumberHasBits DEF HasBits
  <1>3. ASSUME NEW s \in Q!Word, NEW t \in Q!Word
        PROVE  /\ Q!BitOr(s, t) \in Q!Word
               /\ \A k \in 0 .. 2 * W - 1 :
                    Q!BitOf(Q!BitOr(s, t), k) = IF Q!BitOf(s, k) + Q!BitOf(t, k) > 0 THEN 1 ELSE 0
    <2> DEFINE bit == [k \in 0 .. 2 * W - 1 |-> IF Q!BitOf(s, k) + Q!BitOf(t, k) > 0 THEN 1 ELSE 0]
    <2>1. \A k \in 0 .. 2 * W - 1 :
            bit[k] = (IF Q!BitOf(s, k) + Q!BitOf(t, k) > 0 THEN 1 ELSE 0) /\ bit[k] \in {0, 1}
      OBVIOUS
    <2>2. Q!BitOr(s, t) = Q!NumberOf(bit, 2 * W)
      BY DEF Q!BitOr
    <2> HIDE DEF bit
    <2> QED BY <2>1, <2>2, NumberHasBits DEF HasBits
  <1> HIDE DEF c, x, y
  <1>4. x \in Q!Word /\ \A k \in 0 .. 2 * W - 1 : Q!BitOf(x, k) = Q!BitOf(v, k) * Q!BitOf(a, k)
    BY <1>2 DEF x
  <1>5. y \in Q!Word /\ \A k \in 0 .. 2 * W - 1 : Q!BitOf(y, k) = Q!BitOf(o, k) * Q!BitOf(c, k)
    BY <1>1, <1>2 DEF y
  <1>6. Q!Masked(v, a, o) = Q!BitOr(x, y)
    BY DEF Q!Masked, x, y, c
  <1>7. ASSUME NEW k \in 0 .. 2 * W - 1
        PROVE  Q!BitOf(Q!BitOr(x, y), k) = IF Q!BitOf(a, k) = 1 THEN Q!BitOf(v, k) ELSE Q!BitOf(o, k)
    <2>1. Q!BitOf(v, k) \in {0, 1} /\ Q!BitOf(a, k) \in {0, 1} /\ Q!BitOf(o, k) \in {0, 1}
      BY BitType
    <2>2. Q!BitOf(x, k) = Q!BitOf(v, k) * Q!BitOf(a, k) /\ Q!BitOf(y, k) = Q!BitOf(o, k) * (1 - Q!BitOf(a, k))
      BY <1>1, <1>4, <1>5
    <2>3. Q!BitOf(Q!BitOr(x, y), k) = IF Q!BitOf(x, k) + Q!BitOf(y, k) > 0 THEN 1 ELSE 0
      BY <1>3, <1>4, <1>5
    <2> QED BY <2>1, <2>2, <2>3
  <1> QED BY <1>3, <1>4, <1>5, <1>6, <1>7

(* The function codes are different.                                        *)
LEMMA CodesDiffer ==
  ASSUME Q!RequestsAssumption
  PROVE  /\ Q!Functions = {READ_DISCRETE_INPUTS, READ_HOLDING_REGS, READ_INPUT_REGS, WRITE_SINGLE_REG,
                         WRITE_MULTIPLE_REGS, RW_MULTIPLE_REGS, MASK_WRITE_REG}
         /\ READ_DISCRETE_INPUTS \notin {READ_HOLDING_REGS, READ_INPUT_REGS, WRITE_SINGLE_REG,
                                         WRITE_MULTIPLE_REGS, RW_MULTIPLE_REGS, MASK_WRITE_REG}
         /\ READ_HOLDING_REGS \notin {READ_INPUT_REGS, WRITE_SINGLE_REG, WRITE_MULTIPLE_REGS,
                                      RW_MULTIPLE_REGS, MASK_WRITE_REG}
         /\ READ_INPUT_REGS \notin {WRITE_SINGLE_REG, WRITE_MULTIPLE_REGS, RW_MULTIPLE_REGS, MASK_WRITE_REG}
         /\ WRITE_SINGLE_REG \notin {WRITE_MULTIPLE_REGS, RW_MULTIPLE_REGS, MASK_WRITE_REG}
         /\ WRITE_MULTIPLE_REGS \notin {RW_MULTIPLE_REGS, MASK_WRITE_REG}
         /\ RW_MULTIPLE_REGS # MASK_WRITE_REG
  <1>1. /\ DOMAIN Q!Codes = 1 .. 7
        /\ Q!Codes[1] = READ_DISCRETE_INPUTS /\ Q!Codes[2] = READ_HOLDING_REGS
        /\ Q!Codes[3] = READ_INPUT_REGS
        /\ Q!Codes[4] = WRITE_SINGLE_REG /\ Q!Codes[5] = WRITE_MULTIPLE_REGS /\ Q!Codes[6] = RW_MULTIPLE_REGS
        /\ Q!Codes[7] = MASK_WRITE_REG
    BY DEF Q!Codes
  <1>2. \A j, k \in 1 .. 7 : Q!Codes[j] = Q!Codes[k] => j = k
    BY <1>1 DEF Q!RequestsAssumption
  <1> QED BY <1>1, <1>2 DEF Q!Functions

(* The words of a request.                                                  *)
LEMMA WordOfBytes ==
  ASSUME NEW b \in Nat, NEW x \in 0 .. b - 1, NEW y \in 0 .. b - 1
  PROVE  x * b + y \in 0 .. b * b - 1
  <1> DEFINE z == (b - 1) - x
             p == x * b
             r == z * b
             s == b * b
  <1>1. z \in Nat /\ p \in Nat /\ r \in Nat /\ s \in Nat
    OBVIOUS
  <1>2. p + r = s - b
    OBVIOUS
  <1> HIDE DEF p, r, s
  <1>3. p + y \in 0 .. s - 1
    BY <1>1, <1>2
  <1> QED BY <1>3 DEF p, s

(* Two bytes of a request are a word.                                       *)
LEMMA AskedType ==
  ASSUME Q!RequestsAssumption, NEW s \in Seq(Q!Byte), NEW k \in 1 .. Len(s) - 1
  PROVE  Q!Asked(s, k) \in Q!Word /\ Q!Asked(s, k) \in Nat
  <1>1. s[k] \in Q!Byte /\ s[k + 1] \in Q!Byte
    OBVIOUS
  <1>2. s[k] * Q!Base + s[k + 1] \in Q!Word
    BY <1>1, BaseFacts, WordOfBytes DEF Q!Byte, Q!Word
  <1>3. Q!Word \subseteq Nat
    BY BaseFacts DEF Q!Word
  <1> QED BY <1>2, <1>3 DEF Q!Asked

(* The sizes of the tables.                                                 *)
LEMMA TableSizes ==
  ASSUME Q!RequestsAssumption
  PROVE  /\ Discretes \in Nat /\ Discretes > 0 /\ Inputs \in Nat /\ Inputs > 0
         /\ Holdings \in Nat /\ Holdings > 0 /\ UPGRADE_DATA_ADDRESS \in Nat
         /\ Holdings <= UPGRADE_DATA_ADDRESS /\ RPM_DEVIATION \in 0 .. Inputs - 1
  <1>1. {Discretes, Inputs, Holdings, UPGRADE_DATA_ADDRESS} \subseteq Nat \ {0}
    BY DEF Q!RequestsAssumption
  <1>2. Holdings <= UPGRADE_DATA_ADDRESS /\ RPM_DEVIATION \in 0 .. Inputs - 1
    BY DEF Q!RequestsAssumption
  <1> QED BY <1>1, <1>2

(* What is in a span, and when it is in a table.                            *)
LEMMA SpanInTable ==
  ASSUME NEW a \in Nat, NEW q \in Nat, NEW c \in Nat, a < c
  PROVE  (Q!Span(a, q) \subseteq 0 .. c - 1 /\ Q!Span(a, q) # {}) <=> Q!InRange(a, q, c)
  <1>1. CASE q = 0
    BY <1>1 DEF Q!Span, Q!InRange
  <1>2. CASE q > 0
    <2>1. a + q - 1 \in Q!Span(a, q)
      BY <1>2 DEF Q!Span
    <2>2. CASE a + q <= c
      BY <1>2, <2>1, <2>2 DEF Q!Span, Q!InRange
    <2>3. CASE ~(a + q <= c)
      <3>1. a + q - 1 \notin 0 .. c - 1
        BY <2>3
      <3> QED BY <1>2, <2>1, <2>3, <3>1 DEF Q!InRange
    <2> QED BY <2>2, <2>3
  <1> QED BY <1>1, <1>2

(* The exceptions that the requests deserve, one lemma for each kind.       *)
LEMMA DeservesRead ==
  ASSUME Q!RequestsAssumption, NEW s, Q!Asked(s, 3) \in Nat, Q!Asked(s, 5) \in Nat, NEW c \in Nat,
         \/ s[2] = READ_DISCRETE_INPUTS /\ c = Discretes
         \/ s[2] = READ_INPUT_REGS /\ c = Inputs
         \/ s[2] = READ_HOLDING_REGS /\ c = Holdings
  PROVE  /\ Q!Reads(s) /\ ~Q!OfFirmware(s) /\ Q!WriteSpan(s) = {}
         /\ Q!Deserves(s) = IF Q!Asked(s, 3) >= c THEN 2
                          ELSE IF Q!InRange(Q!Asked(s, 3), Q!Asked(s, 5), c) THEN 0 ELSE 3
  <1> DEFINE a == Q!Asked(s, 3)
             q == Q!Asked(s, 5)
  <1>1. /\ s[2] \in Q!Functions /\ s[2] # RW_MULTIPLE_REGS /\ s[2] # WRITE_MULTIPLE_REGS
        /\ s[2] # WRITE_SINGLE_REG /\ s[2] # MASK_WRITE_REG
        /\ (s[2] = READ_DISCRETE_INPUTS => c = Discretes) /\ (s[2] = READ_INPUT_REGS => c = Inputs)
        /\ (s[2] # READ_DISCRETE_INPUTS /\ s[2] # READ_INPUT_REGS => c = Holdings)
        /\ Q!Reads(s)
    BY CodesDiffer DEF Q!Reads
  <1>2. ~Q!OfFirmware(s) /\ Q!WriteSpan(s) = {} /\ Q!ReadSpan(s) = Q!Span(a, q)
    BY <1>1 DEF Q!OfFirmware, Q!WriteSpan, Q!ReadSpan
  <1>3. Q!Table(s) = 0 .. c - 1
    BY <1>1 DEF Q!Table
  <1>4. Q!Deserves(s) = IF ~({a} \subseteq Q!Table(s)) THEN 2
                      ELSE IF Q!Span(a, q) \subseteq Q!Table(s) /\ Q!Span(a, q) # {} THEN 0 ELSE 3
    BY <1>1, <1>2 DEF Q!Deserves
  <1> HIDE DEF a, q
  <1>5. a \in Nat /\ q \in Nat
    BY DEF a, q
  <1>6. CASE a >= c
    BY <1>1, <1>2, <1>3, <1>4, <1>5, <1>6 DEF a, q
  <1>7. CASE a < c
    <2>1. (Q!Span(a, q) \subseteq Q!Table(s) /\ Q!Span(a, q) # {}) <=> Q!InRange(a, q, c)
      BY <1>3, <1>5, <1>7, SpanInTable
    <2>2. {a} \subseteq Q!Table(s)
      BY <1>3, <1>5, <1>7
    <2>3. Q!Deserves(s) = IF Q!InRange(a, q, c) THEN 0 ELSE 3
      BY <1>4, <2>1, <2>2
    <2> QED BY <1>1, <1>2, <1>5, <1>7, <2>3 DEF a, q
  <1> QED BY <1>5, <1>6, <1>7

(* What a write of one register deserves.                                   *)
LEMMA DeservesWriteOne ==
  ASSUME Q!RequestsAssumption, NEW s, Q!Asked(s, 3) \in Nat, s[2] \in {WRITE_SINGLE_REG, MASK_WRITE_REG}
  PROVE  /\ ~Q!Reads(s) /\ ~Q!OfFirmware(s) /\ Q!WriteSpan(s) = {Q!Asked(s, 3)}
         /\ Q!Deserves(s) = IF Q!Asked(s, 3) >= Holdings THEN 2 ELSE 0
  <1> DEFINE a == Q!Asked(s, 3)
  <1>1. /\ s[2] \in Q!Functions /\ s[2] # RW_MULTIPLE_REGS /\ s[2] # WRITE_MULTIPLE_REGS
        /\ s[2] # READ_DISCRETE_INPUTS /\ s[2] # READ_INPUT_REGS /\ s[2] # READ_HOLDING_REGS
        /\ ~Q!Reads(s)
    BY CodesDiffer DEF Q!Reads
  <1>2. ~Q!OfFirmware(s) /\ Q!WriteSpan(s) = {a} /\ Q!ReadSpan(s) = {}
    BY <1>1 DEF Q!OfFirmware, Q!WriteSpan, Q!ReadSpan
  <1>3. Q!Table(s) = 0 .. Holdings - 1
    BY <1>1 DEF Q!Table
  <1>4. Q!Deserves(s) = IF {a} \subseteq Q!Table(s) THEN 0 ELSE 2
    BY <1>1, <1>2 DEF Q!Deserves
  <1> HIDE DEF a
  <1>5. a \in Nat
    BY DEF a
  <1>6. {a} \subseteq Q!Table(s) <=> ~(a >= Holdings)
    BY <1>3, <1>5, TableSizes
  <1> QED BY <1>1, <1>2, <1>4, <1>6 DEF a

(* What a write of many registers deserves.                                 *)
LEMMA DeservesWriteMultiple ==
  ASSUME Q!RequestsAssumption, NEW s, Q!Asked(s, 3) \in Nat, Q!Asked(s, 5) \in Nat,
         s[2] = WRITE_MULTIPLE_REGS
  PROVE  /\ ~Q!Reads(s) /\ (Q!OfFirmware(s) <=> Q!Asked(s, 3) >= UPGRADE_DATA_ADDRESS)
         /\ ~Q!OfFirmware(s) =>
              /\ Q!WriteSpan(s) = Q!Span(Q!Asked(s, 3), Q!Asked(s, 5))
              /\ Q!Deserves(s) = IF Q!Asked(s, 3) >= Holdings THEN 2
                               ELSE IF /\ Q!InRange(Q!Asked(s, 3), Q!Asked(s, 5), Holdings)
                                       /\ s[7] = 2 * Q!Asked(s, 5)
                                    THEN 0 ELSE 3
  <1> DEFINE a == Q!Asked(s, 3)
             q == Q!Asked(s, 5)
  <1>1. /\ s[2] \in Q!Functions /\ s[2] # RW_MULTIPLE_REGS /\ s[2] # WRITE_SINGLE_REG
        /\ s[2] # MASK_WRITE_REG /\ s[2] # READ_DISCRETE_INPUTS /\ s[2] # READ_INPUT_REGS
        /\ s[2] # READ_HOLDING_REGS /\ ~Q!Reads(s)
    BY CodesDiffer DEF Q!Reads
  <1>2. Q!OfFirmware(s) <=> a >= UPGRADE_DATA_ADDRESS
    BY DEF Q!OfFirmware
  <1>3. ASSUME ~Q!OfFirmware(s)
        PROVE  /\ Q!WriteSpan(s) = Q!Span(a, q)
               /\ Q!Deserves(s) = IF a >= Holdings THEN 2
                                ELSE IF Q!InRange(a, q, Holdings) /\ s[7] = 2 * q THEN 0 ELSE 3
    <2>1. Q!WriteSpan(s) = Q!Span(a, q) /\ Q!ReadSpan(s) = {}
      BY <1>1, <1>3 DEF Q!WriteSpan, Q!ReadSpan
    <2>2. Q!Table(s) = 0 .. Holdings - 1
      BY <1>1 DEF Q!Table
    <2>3. Q!Deserves(s) = IF ~({a} \subseteq Q!Table(s)) THEN 2
                        ELSE IF Q!Span(a, q) \subseteq Q!Table(s) /\ Q!Span(a, q) # {} /\ s[7] = 2 * q
                             THEN 0 ELSE 3
      BY <1>1, <2>1 DEF Q!Deserves
    <2> HIDE DEF a, q
    <2>4. a \in Nat /\ q \in Nat
      BY DEF a, q
    <2>5. CASE a >= Holdings
      BY <2>1, <2>2, <2>3, <2>4, <2>5, TableSizes
    <2>6. CASE a < Holdings
      <3>1. (Q!Span(a, q) \subseteq Q!Table(s) /\ Q!Span(a, q) # {}) <=> Q!InRange(a, q, Holdings)
        BY <2>2, <2>4, <2>6, SpanInTable, TableSizes
      <3>2. {a} \subseteq Q!Table(s)
        BY <2>2, <2>4, <2>6, TableSizes
      <3>3. Q!Deserves(s) = IF Q!InRange(a, q, Holdings) /\ s[7] = 2 * q THEN 0 ELSE 3
        BY <2>3, <3>1, <3>2
      <3> QED BY <2>1, <2>4, <2>6, <3>3, TableSizes
    <2> QED BY <2>4, <2>5, <2>6, TableSizes
  <1> HIDE DEF a, q
  <1> QED BY <1>1, <1>2, <1>3 DEF a, q

(* What a write and read deserves.                                          *)
LEMMA DeservesRw ==
  ASSUME Q!RequestsAssumption, NEW s, s[2] = RW_MULTIPLE_REGS,
         Q!Asked(s, 3) \in Nat, Q!Asked(s, 5) \in Nat, Q!Asked(s, 7) \in Nat, Q!Asked(s, 9) \in Nat
  PROVE  /\ Q!Reads(s) /\ ~Q!OfFirmware(s) /\ Q!WriteSpan(s) = Q!Span(Q!Asked(s, 7), Q!Asked(s, 9))
         /\ Q!Deserves(s) = IF Q!Asked(s, 3) >= Holdings \/ Q!Asked(s, 7) >= Holdings THEN 2
                          ELSE IF /\ Q!InRange(Q!Asked(s, 3), Q!Asked(s, 5), Holdings)
                                  /\ Q!InRange(Q!Asked(s, 7), Q!Asked(s, 9), Holdings)
                                  /\ s[11] = 2 * Q!Asked(s, 9)
                               THEN 0 ELSE 3
  <1> DEFINE a == Q!Asked(s, 3)
             q == Q!Asked(s, 5)
             b == Q!Asked(s, 7)
             n == Q!Asked(s, 9)
  <1>1. /\ s[2] \in Q!Functions /\ s[2] # WRITE_MULTIPLE_REGS /\ s[2] # WRITE_SINGLE_REG
        /\ s[2] # MASK_WRITE_REG /\ s[2] # READ_DISCRETE_INPUTS /\ s[2] # READ_INPUT_REGS
        /\ Q!Reads(s)
    BY CodesDiffer DEF Q!Reads
  <1>2. ~Q!OfFirmware(s) /\ Q!WriteSpan(s) = Q!Span(b, n) /\ Q!ReadSpan(s) = Q!Span(a, q)
    BY <1>1 DEF Q!OfFirmware, Q!WriteSpan, Q!ReadSpan
  <1>3. Q!Table(s) = 0 .. Holdings - 1
    BY <1>1 DEF Q!Table
  <1>4. Q!Deserves(s) = IF ~({a} \cup {b} \subseteq Q!Table(s)) THEN 2
                      ELSE IF /\ Q!Span(a, q) \cup Q!Span(b, n) \subseteq Q!Table(s)
                              /\ Q!Span(a, q) # {} /\ Q!Span(b, n) # {} /\ s[11] = 2 * n
                           THEN 0 ELSE 3
    BY <1>1, <1>2 DEF Q!Deserves
  <1> HIDE DEF a, q, b, n
  <1>5. a \in Nat /\ q \in Nat /\ b \in Nat /\ n \in Nat
    BY DEF a, q, b, n
  <1>6. CASE a >= Holdings \/ b >= Holdings
    <2>1. ~({a} \cup {b} \subseteq Q!Table(s))
      <3>1. a \notin 0 .. Holdings - 1 \/ b \notin 0 .. Holdings - 1
        BY <1>5, <1>6, TableSizes
      <3> QED BY <1>3, <3>1, Zenon
    <2>2. Q!Deserves(s) = 2
      BY <1>4, <2>1, Zenon
    <2> QED BY <1>1, <1>2, <1>6, <2>2 DEF a, q, b, n
  <1>7. CASE a < Holdings /\ b < Holdings
    <2>1. (Q!Span(a, q) \subseteq Q!Table(s) /\ Q!Span(a, q) # {}) <=> Q!InRange(a, q, Holdings)
      BY <1>3, <1>5, <1>7, SpanInTable, TableSizes
    <2>2. (Q!Span(b, n) \subseteq Q!Table(s) /\ Q!Span(b, n) # {}) <=> Q!InRange(b, n, Holdings)
      BY <1>3, <1>5, <1>7, SpanInTable, TableSizes
    <2>3. {a} \cup {b} \subseteq Q!Table(s)
      <3>1. a \in 0 .. Holdings - 1 /\ b \in 0 .. Holdings - 1
        BY <1>5, <1>7, TableSizes
      <3> QED BY <1>3, <3>1, Zenon
    <2>4. Q!Deserves(s) = IF Q!InRange(a, q, Holdings) /\ Q!InRange(b, n, Holdings) /\ s[11] = 2 * n
                          THEN 0 ELSE 3
      <3>1. Q!Span(a, q) \cup Q!Span(b, n) \subseteq Q!Table(s) <=>
              Q!Span(a, q) \subseteq Q!Table(s) /\ Q!Span(b, n) \subseteq Q!Table(s)
        BY Zenon
      <3> QED BY <1>4, <2>1, <2>2, <2>3, <3>1, Zenon
    <2>5. ~(a >= Holdings \/ b >= Holdings)
      BY <1>5, <1>7, TableSizes
    <2> QED BY <1>1, <1>2, <2>4, <2>5 DEF a, q, b, n
  <1> QED BY <1>5, <1>6, <1>7, TableSizes

(* What Put makes of the buffer.                                            *)
LEMMA PutAt ==
  ASSUME Q!RequestsAssumption, NEW buf \in [Q!Buffer -> Q!Byte], NEW k \in Nat, NEW s \in Seq(Q!Byte)
  PROVE  /\ Q!Put(buf, k, s) \in [Q!Buffer -> Q!Byte]
         /\ \A n \in Q!Buffer : Q!Put(buf, k, s)[n] = IF n - k + 1 \in 1 .. Len(s) THEN s[n - k + 1] ELSE buf[n]
  <1>1. DOMAIN s = 1 .. Len(s) /\ \A m \in 1 .. Len(s) : s[m] \in Q!Byte
    OBVIOUS
  <1> QED BY <1>1 DEF Q!Put

(* Bytes are numbers below the base, and lengths that are bytes do not wrap. *)
LEMMA ByteFacts ==
  ASSUME Q!RequestsAssumption
  PROVE  /\ Q!Buffer = 0 .. Q!Base - 1 /\ Q!Byte = 0 .. Q!Base - 1
         /\ Q!Buffer \subseteq Nat /\ Q!Byte \subseteq Nat
         /\ Q!Base \in Nat /\ Q!Base >= 8 /\ \A n \in Q!Byte : n % Q!Base = n
         /\ \A x \in Q!Byte : Q!WithTopBit(x) \in Q!Byte
  <1>1. Q!Base \in Nat /\ Q!Base >= 8 /\ Q!Base % 2 = 0
    BY BaseFacts
  <1>2. \A n \in 0 .. Q!Base - 1 : n % Q!Base = n
    BY <1>1
  <1>3. \A x \in 0 .. Q!Base - 1 : Q!WithTopBit(x) \in 0 .. Q!Base - 1
    BY <1>1 DEF Q!WithTopBit
  <1> QED BY <1>1, <1>2, <1>3 DEF Q!Buffer, Q!Byte

(* The bytes of a word, and the word again.                                 *)
LEMMA BytesOfWord ==
  ASSUME Q!RequestsAssumption, NEW v \in Q!Word
  PROVE  /\ Q!BytesOf(v) \in Seq(Q!Byte) /\ Len(Q!BytesOf(v)) = 2
         /\ Q!BytesOf(v)[1] \in Q!Byte /\ Q!BytesOf(v)[2] \in Q!Byte
         /\ Q!BytesOf(v)[1] * Q!Base + Q!BytesOf(v)[2] = v
  <1> DEFINE q == v \div Q!Base
             r == v % Q!Base
  <1>1. v \in Nat /\ Q!Base \in Nat /\ Q!Base > 0 /\ v < Q!Base * Q!Base
    BY BaseFacts DEF Q!Word
  <1>2. q \in Nat /\ r \in 0 .. Q!Base - 1 /\ v = q * Q!Base + r
    BY <1>1, DivideBy
  <1> HIDE DEF q, r
  <1>3. q < Q!Base
    <2>1. SUFFICES ASSUME q >= Q!Base PROVE FALSE
      BY <1>1, <1>2
    <2> DEFINE z == q - Q!Base
               p == z * Q!Base
    <2>2. z \in Nat /\ p \in Nat /\ q * Q!Base = p + Q!Base * Q!Base
      BY <1>1, <1>2, <2>1
    <2> HIDE DEF z, p
    <2> QED BY <1>1, <1>2, <2>2
  <1>4. q \in Q!Byte /\ r \in Q!Byte
    BY <1>1, <1>2, <1>3 DEF Q!Byte
  <1>5. Q!BytesOf(v) = <<q, r>>
    BY DEF Q!BytesOf, q, r
  <1>6. Q!BytesOf(v) \in Seq(Q!Byte) /\ Len(Q!BytesOf(v)) = 2
    BY <1>4, <1>5
  <1>7. Q!BytesOf(v)[1] = q /\ Q!BytesOf(v)[2] = r
    BY <1>5
  <1> QED BY <1>2, <1>4, <1>6, <1>7

(* A reply that fits the buffer is sent from its beginning.                 *)
LEMMA OutgoingBytes ==
  ASSUME Q!RequestsAssumption, Fits
  PROVE  /\ Q!Outgoing = [n \in 1 .. resp_len + 2 |-> rtu_buf[n - 1]]
          /\ Len(Q!Outgoing) = resp_len + 2
  <1>1. \A n \in 1 .. resp_len + 2 : (n - 1) % Q!Base = n - 1
    BY ByteFacts DEF Fits
  <1>2. Q!Outgoing = [n \in 1 .. resp_len + 2 |-> rtu_buf[n - 1]]
    BY <1>1 DEF Q!Outgoing
  <1> QED BY <1>2 DEF Fits

(* The outcome of a request: a reply that it deserves, ready to be sent,    *)
(* and the registers as it asked.                                           *)
Served ==
  /\ rtu_buf \in [Q!Buffer -> Q!Byte] /\ resp_len \in Q!Byte /\ Fits
  /\ stray = FALSE /\ phase = "send"
  /\ holding_regs \in [0 .. Holdings - 1 -> Q!Word]
  /\ Q!Answers(Q!Outgoing) /\ Q!RegistersAsRequested

(* Or one that is too long.                                                 *)
Overruns ==
  /\ rtu_buf \in [Q!Buffer -> Q!Byte] /\ resp_len \in Q!Byte
  /\ stray = TRUE /\ phase = "send"
  /\ holding_regs \in [0 .. Holdings - 1 -> Q!Word]
  /\ Q!TooLong(request)

(* A request that is parsed, with the words in it.                          *)
Parsed ==
  /\ Q!RequestsAssumption /\ Q!TypeOK /\ phase = "parse" /\ stray = FALSE
  /\ Q!WellFormed(request) /\ Holds(request)
  /\ before = holding_regs /\ written = <<>>

(* The invariant gives what the functions start from.                       *)
LEMMA ParsedRequest ==
  ASSUME Serving, Q!RequestsAssumption, phase = "parse"
  PROVE  Parsed
  <1>1. Q!WellFormed(request) /\ Q!TypeOK /\ Holds(request) /\ before = holding_regs /\ written = <<>>
    BY DEF Serving, Remembered, Parsing, Q!RequestsAssumption
  <1> QED BY <1>1 DEF Parsed, Serving

(* The buffer holds the request, byte by byte.                              *)
LEMMA RequestBytes ==
  ASSUME Parsed
  PROVE  /\ request \in Seq(Q!Byte) /\ Len(request) \in 2 .. Q!Base - 3
         /\ \A k \in 1 .. Len(request) : request[k] \in Q!Byte /\ rtu_buf[k - 1] = request[k]
         /\ rtu_buf \in [Q!Buffer -> Q!Byte] /\ rtu_buf[0] = request[1] /\ rtu_buf[1] = request[2]
  <1>1. request \in Seq(Q!Byte) /\ Len(request) \in 2 .. Q!Base - 3
    BY DEF Parsed, Q!WellFormed
  <1>2. \A k \in 1 .. Len(request) : rtu_buf[k - 1] = request[k]
    BY DEF Parsed, Holds
  <1>3. 1 \in 1 .. Len(request) /\ 2 \in 1 .. Len(request)
    BY <1>1, BaseFacts DEF Parsed
  <1>4. rtu_buf[1 - 1] = request[1] /\ rtu_buf[2 - 1] = request[2]
    BY <1>2, <1>3
  <1> QED BY <1>1, <1>2, <1>4 DEF Parsed, Q!TypeOK

(* A word decoded from the buffer is the one the request carries.           *)
LEMMA WordIsAsked ==
  ASSUME Parsed, NEW k \in Nat, k + 2 <= Len(request)
  PROVE  Q!WordAt(k) = Q!Asked(request, k + 1) /\ Q!WordAt(k) \in Q!Word /\ Q!WordAt(k) \in Nat
  <1>1. k + 1 \in 1 .. Len(request) - 1 /\ k + 1 \in 1 .. Len(request) /\ k + 2 \in 1 .. Len(request)
    BY RequestBytes
  <1>2. rtu_buf[(k + 1) - 1] = request[k + 1] /\ rtu_buf[(k + 2) - 1] = request[k + 2]
    BY <1>1, RequestBytes
  <1>3. rtu_buf[k] = request[k + 1] /\ rtu_buf[k + 1] = request[(k + 1) + 1]
    BY <1>2
  <1>4. Q!WordAt(k) = Q!Asked(request, k + 1)
    BY <1>3 DEF Q!WordAt, Q!Asked
  <1>5. Q!Asked(request, k + 1) \in Q!Word /\ Q!Asked(request, k + 1) \in Nat
    BY <1>1, RequestBytes, AskedType DEF Parsed
  <1> QED BY <1>4, <1>5

Others == <<discrete_inputs, input_regs, upgrading, request, before, deviations>>

(* A refusal answers a request that deserves it.                            *)
LEMMA RefusalServes ==
  ASSUME Parsed, NEW code \in 1 .. 4, Q!Exception(code), UNCHANGED <<Others, written>>,
         \/ ~Q!OfFirmware(request) /\ Q!Deserves(request) = code
         \/ Q!OfFirmware(request) /\ ((code = 3 /\ ~upgrading) \/ (code = 4 /\ upgrading))
  PROVE  Served'
  <1> Q!RequestsAssumption /\ Q!TypeOK
    BY DEF Parsed
  <1>1. request[1] \in Q!Byte /\ Q!WithTopBit(request[2]) \in Q!Byte /\ code \in Q!Byte
    <2>1. request[1] \in Q!Byte /\ request[2] \in Q!Byte
      BY RequestBytes, ByteFacts
    <2>2. Q!WithTopBit(request[2]) \in Q!Byte
      BY <2>1, ByteFacts
    <2>3. code \in Q!Byte
      BY ByteFacts
    <2> QED BY <2>1, <2>2, <2>3
  <1>2. /\ rtu_buf' \in [Q!Buffer -> Q!Byte] /\ rtu_buf'[0] = request[1]
        /\ rtu_buf'[1] = Q!WithTopBit(request[2]) /\ rtu_buf'[2] = code
    <2>1. rtu_buf' = [rtu_buf EXCEPT ![1] = Q!WithTopBit(request[2]), ![2] = code]
      BY RequestBytes DEF Q!Exception
    <2>2. 0 \in Q!Buffer /\ 1 \in Q!Buffer /\ 2 \in Q!Buffer
      BY ByteFacts
    <2>3. rtu_buf \in [Q!Buffer -> Q!Byte] /\ rtu_buf[0] = request[1]
      BY RequestBytes
    <2> QED BY <1>1, <2>1, <2>2, <2>3
  <1>3. resp_len' = 1 /\ phase' = "send" /\ holding_regs' = holding_regs /\ stray' = FALSE
    BY DEF Q!Exception, Parsed
  <1>4. Fits' /\ resp_len' \in Q!Byte
    BY <1>3, ByteFacts DEF Fits
  <1>5. Q!Outgoing' = Q!Refusal(code)
    <2>1. Q!Outgoing' = [n \in 1 .. resp_len' + 2 |-> rtu_buf'[(n - 1) % Q!Base]]
      BY DEF Q!Outgoing
    <2>2. \A n \in 1 .. 3 : (n - 1) % Q!Base = n - 1
      BY ByteFacts
    <2>3. Q!Outgoing' = [n \in 1 .. 3 |-> rtu_buf'[n - 1]]
      BY <1>3, <2>1, <2>2
    <2> QED BY <1>2, <2>3 DEF Q!Refusal
  <1>6. request' = request /\ upgrading' = upgrading /\ written' = <<>> /\ before' = before
    BY DEF Others, Parsed
  <1>7. Q!Answers(Q!Outgoing)'
    BY <1>5, <1>6 DEF Q!Answers, Q!ConfirmsFirmware, Q!Refusal
  <1>8. Q!RegistersAsRequested'
    BY <1>3, <1>6 DEF Q!RegistersAsRequested, Parsed
  <1> QED BY <1>2, <1>3, <1>4, <1>7, <1>8 DEF Served, Q!TypeOK

(* What is sent after AnswerBytes(s): the header with the length, and s.    *)
LEMMA BytesAnswered ==
  ASSUME Parsed, NEW s \in Seq(Q!Byte), Len(s) + 3 <= Q!Base, Q!AnswerBytes(s)
  PROVE  /\ rtu_buf' \in [Q!Buffer -> Q!Byte] /\ resp_len' \in Q!Byte /\ resp_len' = Len(s) + 1
         /\ stray' = FALSE /\ phase' = "send"
         /\ Len(Q!Outgoing') = 3 + Len(s)
         /\ Q!Outgoing'[1] = request[1] /\ Q!Outgoing'[2] = request[2] /\ Q!Outgoing'[3] = Len(s)
         /\ \A k \in 1 .. Len(s) : Q!Outgoing'[3 + k] = s[k]
  <1> Q!RequestsAssumption /\ Q!TypeOK
    BY DEF Parsed
  <1> DEFINE len == Len(s)
             l == <<len % Q!Base>>
             one == Q!Put(rtu_buf, 2, l)
             two == Q!Put(one, 3, s)
  <1>1. len \in Nat /\ len \in Q!Byte /\ len % Q!Base = len /\ len + 1 \in Q!Byte /\ (len + 1) % Q!Base = len + 1
    BY ByteFacts
  <1>2. l \in Seq(Q!Byte) /\ Len(l) = 1 /\ l[1] = len
    BY <1>1
  <1>3. one \in [Q!Buffer -> Q!Byte] /\ \A n \in Q!Buffer : one[n] = IF n = 2 THEN len ELSE rtu_buf[n]
    <2> HIDE DEF l, len
    <2>0. rtu_buf \in [Q!Buffer -> Q!Byte]
      BY RequestBytes
    <2>1. ASSUME NEW t \in Seq(Q!Byte)
          PROVE  /\ Q!Put(rtu_buf, 2, t) \in [Q!Buffer -> Q!Byte]
                 /\ \A n \in Q!Buffer :
                      Q!Put(rtu_buf, 2, t)[n] = IF n - 2 + 1 \in 1 .. Len(t) THEN t[n - 2 + 1] ELSE rtu_buf[n]
      BY <2>0, PutAt
    <2>2. /\ one \in [Q!Buffer -> Q!Byte]
          /\ \A n \in Q!Buffer : one[n] = IF n - 2 + 1 \in 1 .. Len(l) THEN l[n - 2 + 1] ELSE rtu_buf[n]
      BY <1>2, <2>1, Zenon
    <2> HIDE DEF one
    <2>3. ASSUME NEW n \in Q!Buffer PROVE one[n] = IF n = 2 THEN len ELSE rtu_buf[n]
      <3>1. n \in Nat /\ 1 .. Len(l) = {1}
        BY <1>2, ByteFacts
      <3>2. one[n] = IF n - 2 + 1 \in {1} THEN l[n - 2 + 1] ELSE rtu_buf[n]
        BY <2>2, <3>1
      <3>3. n - 2 + 1 = 1 <=> n = 2
        BY <3>1
      <3> QED BY <1>2, <3>2, <3>3
    <2> QED BY <2>2, <2>3
  <1>4. /\ two \in [Q!Buffer -> Q!Byte]
        /\ \A n \in Q!Buffer : two[n] = IF n - 3 + 1 \in 1 .. len THEN s[n - 3 + 1] ELSE one[n]
    <2> HIDE DEF one
    <2> QED BY <1>3, PutAt
  <1>5. rtu_buf' = two /\ resp_len' = len + 1 /\ phase' = "send" /\ stray' = FALSE
    <2>1. rtu_buf' = two /\ resp_len' = (len + 1) % Q!Base /\ phase' = "send"
      BY DEF Q!AnswerBytes, Q!Answer
    <2>2. stray' = (stray \/ Q!Misses(3, s)) /\ stray = FALSE
      BY DEF Q!AnswerBytes, Parsed
    <2>3. ~Q!Misses(3, s)
      BY <1>1, ByteFacts DEF Q!Misses
    <2>4. stray' = FALSE
      BY <2>2, <2>3
    <2> HIDE DEF two, len
    <2> QED BY <1>1, <2>1, <2>4
  <1> HIDE DEF l, one, two, len
  <1>6. len = Len(s) /\ len + 3 <= Q!Base
    BY DEF len
  <1>7. resp_len' \in Q!Byte /\ resp_len' = len + 1
    BY <1>1, <1>5
  <1>8. Q!Outgoing' = [n \in 1 .. len + 3 |-> rtu_buf'[(n - 1) % Q!Base]]
    BY <1>1, <1>5 DEF Q!Outgoing
  <1>9. ASSUME NEW n \in 1 .. len + 3
        PROVE  (n - 1) % Q!Base = n - 1 /\ n - 1 \in Q!Buffer
    <2>1. n - 1 \in Q!Buffer /\ n - 1 \in Q!Byte
      BY <1>1, <1>6, ByteFacts
    <2> QED BY <2>1, ByteFacts
  <1>10. Q!Outgoing' = [n \in 1 .. len + 3 |-> two[n - 1]]
    BY <1>5, <1>8, <1>9
  <1>11. Len(Q!Outgoing') = 3 + len
    BY <1>1, <1>10
  <1>12. two[0] = request[1] /\ two[1] = request[2] /\ two[2] = len
    <2>1. 0 \in Q!Buffer /\ 1 \in Q!Buffer /\ 2 \in Q!Buffer
      BY ByteFacts
    <2>2. two[0] = one[0] /\ two[1] = one[1] /\ two[2] = one[2]
      BY <1>1, <1>4, <2>1
    <2>3. one[0] = rtu_buf[0] /\ one[1] = rtu_buf[1] /\ one[2] = len
      BY <1>3, <2>1
    <2> QED BY <2>2, <2>3, RequestBytes
  <1>13. ASSUME NEW k \in 1 .. len PROVE two[k + 2] = s[k]
    <2>1. k + 2 \in Q!Buffer /\ (k + 2) - 3 + 1 = k
      BY <1>1, <1>6, ByteFacts
    <2> QED BY <1>4, <2>1
  <1>14. Q!Outgoing'[1] = request[1] /\ Q!Outgoing'[2] = request[2] /\ Q!Outgoing'[3] = len
    BY <1>1, <1>10, <1>12
  <1>15. ASSUME NEW k \in 1 .. len PROVE Q!Outgoing'[3 + k] = s[k]
    <2>1. 3 + k \in 1 .. len + 3 /\ (3 + k) - 1 = k + 2
      BY <1>1
    <2> QED BY <1>10, <1>13, <2>1
  <1> QED BY <1>4, <1>5, <1>6, <1>7, <1>11, <1>14, <1>15

(* A reply that does not fit the buffer.                                    *)
LEMMA BytesOverrun ==
  ASSUME Parsed, NEW s \in Seq(Q!Byte), ~(Len(s) + 3 <= Q!Base), Q!AnswerBytes(s)
  PROVE  /\ rtu_buf' \in [Q!Buffer -> Q!Byte] /\ resp_len' \in Q!Byte
         /\ stray' = TRUE /\ phase' = "send"
  <1> Q!RequestsAssumption /\ Q!TypeOK
    BY DEF Parsed
  <1> DEFINE len == Len(s)
             l == <<len % Q!Base>>
             one == Q!Put(rtu_buf, 2, l)
  <1>1. len \in Nat /\ len % Q!Base \in Q!Byte /\ (len + 1) % Q!Base \in Q!Byte
    BY ByteFacts
  <1>2. l \in Seq(Q!Byte)
    BY <1>1
  <1>3. rtu_buf' = Q!Put(one, 3, s) /\ resp_len' = (len + 1) % Q!Base /\ phase' = "send"
        /\ stray' = (stray \/ Q!Misses(3, s))
    BY DEF Q!AnswerBytes, Q!Answer
  <1>4. Q!Misses(3, s)
    BY <1>1, ByteFacts DEF Q!Misses
  <1> HIDE DEF l, len
  <1>5. one \in [Q!Buffer -> Q!Byte]
    BY <1>2, RequestBytes, PutAt
  <1> HIDE DEF one
  <1>6. Q!Put(one, 3, s) \in [Q!Buffer -> Q!Byte]
    BY <1>5, PutAt
  <1> QED BY <1>1, <1>3, <1>4, <1>6

(* What is sent after Answer(len) alone: the beginning of the request.      *)
LEMMA RequestEchoed ==
  ASSUME Parsed, NEW len \in {4, 6}, len + 2 <= Len(request), Q!Answer(len), UNCHANGED <<rtu_buf, stray>>
  PROVE  /\ rtu_buf' \in [Q!Buffer -> Q!Byte] /\ resp_len' \in Q!Byte /\ Fits'
         /\ stray' = FALSE /\ phase' = "send"
         /\ Q!Outgoing' = SubSeq(request, 1, len + 2)
  <1> Q!RequestsAssumption /\ Q!TypeOK
    BY DEF Parsed
  <1>1. request \in Seq(Q!Byte) /\ Len(request) \in 2 .. Q!Base - 3 /\ rtu_buf \in [Q!Buffer -> Q!Byte]
    BY RequestBytes
  <1>2. Q!Base \in Nat /\ len + 5 <= Q!Base
    BY <1>1, ByteFacts
  <1>3. resp_len' = len /\ len \in Q!Byte /\ phase' = "send"
    <2>1. len \in Q!Byte
      BY <1>2, ByteFacts
    <2> QED BY <2>1, ByteFacts DEF Q!Answer
  <1>4. stray' = FALSE
    BY DEF Parsed
  <1>5. Fits'
    BY <1>2, <1>3 DEF Fits
  <1>6. Q!Outgoing' = [n \in 1 .. len + 2 |-> rtu_buf[(n - 1) % Q!Base]]
    BY <1>3 DEF Q!Outgoing
  <1>7. ASSUME NEW n \in 1 .. len + 2 PROVE rtu_buf[(n - 1) % Q!Base] = request[n]
    <2>1. (n - 1) % Q!Base = n - 1
      BY <1>2
    <2>2. n \in 1 .. Len(request)
      BY <1>1
    <2> QED BY <2>1, <2>2, RequestBytes
  <1>8. Q!Outgoing' = [n \in 1 .. len + 2 |-> request[n]]
    BY <1>6, <1>7
  <1>9. SubSeq(request, 1, len + 2) = [n \in 1 .. len + 2 |-> request[n]]
    BY <1>1
  <1> QED BY <1>1, <1>3, <1>4, <1>5, <1>8, <1>9

(* The registers of a reply, byte by byte.                                  *)
LEMMA RegisterBytesAt ==
  ASSUME Q!RequestsAssumption, NEW c \in Nat, NEW regs \in [0 .. c - 1 -> Q!Word],
         NEW addr \in Nat, NEW qty \in Nat, addr + qty <= c
  PROVE  /\ Q!RegisterBytes(regs, addr, qty) \in Seq(Q!Byte)
         /\ Len(Q!RegisterBytes(regs, addr, qty)) = 2 * qty
         /\ \A n \in 0 .. qty - 1 :
              Q!RegisterBytes(regs, addr, qty)[2 * n + 1] * Q!Base + Q!RegisterBytes(regs, addr, qty)[2 * n + 2]
                = regs[addr + n]
  <1> DEFINE s == Q!RegisterBytes(regs, addr, qty)
  <1>1. s = [k \in 1 .. 2 * qty |-> Q!BytesOf(regs[addr + (k - 1) \div 2])[((k - 1) % 2) + 1]]
    BY DEF Q!RegisterBytes
  <1>2. ASSUME NEW k \in 1 .. 2 * qty
        PROVE  Q!BytesOf(regs[addr + (k - 1) \div 2])[((k - 1) % 2) + 1] \in Q!Byte
    <2>1. addr + (k - 1) \div 2 \in 0 .. c - 1 /\ ((k - 1) % 2) + 1 \in {1, 2}
      OBVIOUS
    <2>2. regs[addr + (k - 1) \div 2] \in Q!Word
      BY <2>1
    <2> QED BY <2>1, <2>2, BytesOfWord
  <1>3. s \in Seq(Q!Byte) /\ Len(s) = 2 * qty
    BY <1>1, <1>2
  <1>4. ASSUME NEW n \in 0 .. qty - 1
        PROVE  s[2 * n + 1] * Q!Base + s[2 * n + 2] = regs[addr + n]
    <2> DEFINE v == regs[addr + n]
    <2>1. v \in Q!Word
      OBVIOUS
    <2>2. 2 * n + 1 \in 1 .. 2 * qty /\ ((2 * n + 1) - 1) \div 2 = n /\ ((2 * n + 1) - 1) % 2 = 0
      OBVIOUS
    <2>3. 2 * n + 2 \in 1 .. 2 * qty /\ ((2 * n + 2) - 1) \div 2 = n /\ ((2 * n + 2) - 1) % 2 = 1
      OBVIOUS
    <2> HIDE DEF s
    <2>4. s[2 * n + 1] = Q!BytesOf(v)[0 + 1]
      BY <1>1, <2>2
    <2>5. s[2 * n + 2] = Q!BytesOf(v)[1 + 1]
      BY <1>1, <2>3
    <2> HIDE DEF v
    <2>6. s[2 * n + 1] * Q!Base + s[2 * n + 2] = v
      BY <2>1, <2>4, <2>5, BytesOfWord
    <2> QED BY <2>6 DEF v
  <1> QED BY <1>3, <1>4

(* The bytes s are those of the registers from addr on.                     *)
AreRegisters(s, regs, addr, qty) ==
  /\ s \in Seq(Q!Byte) /\ Len(s) = 2 * qty
  /\ \A n \in 0 .. qty - 1 : s[2 * n + 1] * Q!Base + s[2 * n + 2] = regs[addr + n]
LEMMA HoldingBytes ==
  ASSUME Q!RequestsAssumption, NEW regs \in [0 .. Holdings - 1 -> Q!Word],
         NEW addr \in Nat, NEW qty \in Nat, addr + qty <= Holdings
  PROVE  AreRegisters(Q!RegisterBytes(regs, addr, qty), regs, addr, qty)
  <1>1. Holdings \in Nat
    BY TableSizes
  <1> QED BY <1>1, RegisterBytesAt, Zenon DEF AreRegisters

(* The discrete inputs of a reply, bit by bit.                              *)
LEMMA PackedByteBits ==
  ASSUME Q!RequestsAssumption, discrete_inputs \in [0 .. Discretes - 1 -> {0, 1}],
         NEW addr \in Nat, NEW qty \in Nat, addr + qty <= Discretes, NEW b \in Nat
  PROVE  /\ Q!PackedByte(addr, qty, b) \in Q!Byte
         /\ \A k \in 0 .. W - 1 :
              Q!BitOf(Q!PackedByte(addr, qty, b), k) =
                IF W * b + k < qty THEN discrete_inputs[addr + W * b + k] ELSE 0
  <1> DEFINE bit == [k \in 0 .. W - 1 |-> IF W * b + k < qty THEN discrete_inputs[addr + W * b + k] ELSE 0]
             p == W * b
  <1>1. W \in Nat /\ W \in 0 .. 2 * W /\ p \in Nat /\ Discretes \in Nat
    BY PowerStep, TableSizes
  <1>2. ASSUME NEW k \in 0 .. W - 1
        PROVE  /\ bit[k] = IF W * b + k < qty THEN discrete_inputs[addr + W * b + k] ELSE 0
               /\ bit[k] \in {0, 1}
    <2>1. bit[k] = IF p + k < qty THEN discrete_inputs[addr + p + k] ELSE 0
      OBVIOUS
    <2> HIDE DEF bit, p
    <2>2. p + k < qty => addr + p + k \in 0 .. Discretes - 1
      BY <1>1
    <2>3. bit[k] \in {0, 1}
      BY <2>1, <2>2
    <2> QED BY <2>1, <2>3 DEF p
  <1>3. Q!PackedByte(addr, qty, b) = Q!NumberOf(bit, W)
    BY DEF Q!PackedByte
  <1> HIDE DEF bit
  <1>4. Q!NumberOf(bit, W) \in 0 .. Power[W] - 1 /\ HasBits(Q!NumberOf(bit, W), bit, W)
    BY <1>1, <1>2, NumberHasBits
  <1> QED BY <1>2, <1>3, <1>4 DEF HasBits, Q!Byte, Q!Base

(* The place of a bit in a row of bytes.                                    *)
LEMMA BitPlace ==
  ASSUME NEW w \in Nat, w > 0, NEW m \in Nat, NEW n \in 0 .. (w * m) - 1
  PROVE  /\ n \div w \in 0 .. m - 1 /\ n % w \in 0 .. w - 1
         /\ w * (n \div w) + (n % w) = n
  <1> DEFINE q == n \div w
             r == n % w
  <1>1. n \in Nat /\ w * m \in Nat
    OBVIOUS
  <1>2. q \in Nat /\ r \in 0 .. w - 1 /\ n = q * w + r
    BY <1>1, DivideBy
  <1> HIDE DEF q, r
  <1>3. q * w = w * q /\ w * q \in Nat
    BY <1>2
  <1>4. q < m
    <2>1. SUFFICES ASSUME q >= m PROVE FALSE
      BY <1>2
    <2> DEFINE z == q - m
               p == w * z
    <2>2. z \in Nat /\ p \in Nat /\ w * q = p + w * m
      BY <1>2, <2>1
    <2> HIDE DEF z, p
    <2> QED BY <1>1, <1>2, <1>3, <2>2
  <1>5. n = w * q + r
    BY <1>2, <1>3
  <1> QED BY <1>2, <1>4, <1>5 DEF q, r

(* The discrete inputs of a reply, byte by byte.                            *)
LEMMA PackedBits ==
  ASSUME Q!RequestsAssumption, discrete_inputs \in [0 .. Discretes - 1 -> {0, 1}],
         NEW addr \in Nat, NEW qty \in Nat, addr + qty <= Discretes,
         NEW bytes, bytes = (qty + W - 1) \div W
  PROVE  /\ bytes \in Nat /\ Q!Packed(addr, qty) \in Seq(Q!Byte) /\ Len(Q!Packed(addr, qty)) = bytes
         /\ \A n \in 0 .. W * bytes - 1 :
              /\ n \div W \in 0 .. bytes - 1
              /\ Q!BitOf(Q!Packed(addr, qty)[n \div W + 1], n % W) =
                   IF n < qty THEN discrete_inputs[addr + n] ELSE 0
  <1> DEFINE s == Q!Packed(addr, qty)
  <1>1. W \in Nat /\ W > 0 /\ qty + W - 1 \in Nat
    <2>1. W \in Nat /\ W > 2
      BY PowerStep
    <2> QED BY <2>1
  <1>2. bytes \in Nat
    BY <1>1, DivideBy
  <1>3. s = [k \in 1 .. bytes |-> Q!PackedByte(addr, qty, k - 1)]
    BY DEF Q!Packed
  <1>4. \A k \in 1 .. bytes : k - 1 \in Nat /\ Q!PackedByte(addr, qty, k - 1) \in Q!Byte
    BY <1>2, PackedByteBits
  <1>5. s \in Seq(Q!Byte) /\ Len(s) = bytes
    BY <1>2, <1>3, <1>4
  <1> HIDE DEF s
  <1>6. ASSUME NEW n \in 0 .. W * bytes - 1
        PROVE  /\ n \div W \in 0 .. bytes - 1
               /\ Q!BitOf(s[n \div W + 1], n % W) = IF n < qty THEN discrete_inputs[addr + n] ELSE 0
    <2> DEFINE b == n \div W
               k == n % W
               p == W * b
    <2>1. b \in 0 .. bytes - 1 /\ k \in 0 .. W - 1 /\ p + k = n
      BY <1>1, <1>2, BitPlace
    <2> HIDE DEF b, k
    <2>2. b \in Nat /\ p \in Nat /\ n \in Nat /\ b + 1 \in 1 .. bytes /\ (b + 1) - 1 = b
      BY <1>1, <1>2, <2>1
    <2>3. s[b + 1] = Q!PackedByte(addr, qty, b)
      BY <1>3, <2>2
    <2>4. Q!BitOf(Q!PackedByte(addr, qty, b), k) = IF p + k < qty THEN discrete_inputs[addr + p + k] ELSE 0
      BY <2>1, <2>2, PackedByteBits
    <2> HIDE DEF p
    <2>5. addr + p + k = addr + n
      BY <1>1, <2>1, <2>2
    <2> QED BY <2>1, <2>3, <2>4, <2>5 DEF b, k
  <1> QED BY <1>2, <1>5, <1>6 DEF s

(* The words of a request with at least six bytes.                          *)
LEMMA FirstWords ==
  ASSUME Parsed, Len(request) >= 6
  PROVE  /\ Q!WordAt(2) = Q!Asked(request, 3) /\ Q!WordAt(4) = Q!Asked(request, 5)
         /\ Q!Asked(request, 3) \in Nat /\ Q!Asked(request, 5) \in Nat
         /\ Q!Asked(request, 3) \in Q!Word /\ Q!Asked(request, 5) \in Q!Word
  <1>1. 2 + 2 <= Len(request) /\ 4 + 2 <= Len(request)
    BY RequestBytes
  <1>2. /\ Q!WordAt(2) = Q!Asked(request, 2 + 1) /\ Q!WordAt(2) \in Q!Word /\ Q!WordAt(2) \in Nat
        /\ Q!WordAt(4) = Q!Asked(request, 4 + 1) /\ Q!WordAt(4) \in Q!Word /\ Q!WordAt(4) \in Nat
    BY <1>1, WordIsAsked
  <1> QED BY <1>2

(* A request that only reads leaves the registers alone.                    *)
LEMMA NothingWritten ==
  ASSUME Parsed, UNCHANGED <<Others, written, holding_regs>>, Q!WriteSpan(request) = {}
  PROVE  Q!RegistersAsRequested'
  <1>1. request' = request /\ before' = before /\ holding_regs' = holding_regs /\ before = holding_regs
    BY DEF Others, Parsed
  <1> QED BY <1>1 DEF Q!RegistersAsRequested

(* READ_DISCRETE_INPUTS (modbus.c:380-397).                                 *)
LEMMA ReadDiscreteServes ==
  ASSUME Parsed, Q!ReadDiscreteInputs, UNCHANGED <<Others, written>>
  PROVE  (Served' \/ Overruns') /\ item' = item
  <1> Q!RequestsAssumption /\ Q!TypeOK
    BY DEF Parsed
  <1> DEFINE addr == Q!Asked(request, 3)
             qty == Q!Asked(request, 5)
             bytes == (qty + W - 1) \div W
             s == Q!Packed(addr, qty)
             r == Q!Outgoing'
  <1>1. request[2] = READ_DISCRETE_INPUTS /\ item' = item
    BY RequestBytes DEF Q!ReadDiscreteInputs
  <1>2. Len(request) = 6
    BY <1>1 DEF Parsed, Q!WellFormed
  <1>3. addr \in Nat /\ qty \in Nat /\ Q!WordAt(2) = addr /\ Q!WordAt(4) = qty
    BY <1>2, FirstWords
  <1>4. /\ Q!Reads(request) /\ ~Q!OfFirmware(request) /\ Q!WriteSpan(request) = {}
        /\ Q!Deserves(request) = IF addr >= Discretes THEN 2
                               ELSE IF Q!InRange(addr, qty, Discretes) THEN 0 ELSE 3
    BY <1>1, <1>3, TableSizes, DeservesRead
  <1>5. \/ addr >= Discretes /\ Q!Exception(2)
        \/ addr < Discretes /\ ~Q!InRange(addr, qty, Discretes) /\ Q!Exception(3)
        \/ /\ addr < Discretes /\ Q!InRange(addr, qty, Discretes)
           /\ Q!AnswerBytes(s) /\ UNCHANGED holding_regs
    BY <1>3 DEF Q!ReadDiscreteInputs
  <1> HIDE DEF addr, qty, bytes, s, r
  <1>6. CASE addr >= Discretes /\ Q!Exception(2)
    <2>1. Q!Deserves(request) = 2
      BY <1>4, <1>6
    <2> QED BY <1>1, <1>4, <1>6, <2>1, RefusalServes
  <1>7. CASE addr < Discretes /\ ~Q!InRange(addr, qty, Discretes) /\ Q!Exception(3)
    <2>1. Q!Deserves(request) = 3
      BY <1>3, <1>4, <1>7, TableSizes
    <2> QED BY <1>1, <1>4, <1>7, <2>1, RefusalServes
  <1>8. CASE /\ addr < Discretes /\ Q!InRange(addr, qty, Discretes)
             /\ Q!AnswerBytes(s) /\ UNCHANGED holding_regs
    <2>1. Q!Deserves(request) = 0 /\ addr + qty <= Discretes /\ qty <= Discretes
      BY <1>3, <1>4, <1>8, TableSizes DEF Q!InRange
    <2>2. /\ bytes \in Nat /\ s \in Seq(Q!Byte) /\ Len(s) = bytes
          /\ \A n \in 0 .. W * bytes - 1 :
               /\ n \div W \in 0 .. bytes - 1
               /\ Q!BitOf(s[n \div W + 1], n % W) = IF n < qty THEN discrete_inputs[addr + n] ELSE 0
      BY <1>3, <2>1, PackedBits DEF s, bytes, Q!TypeOK
    <2>6. request' = request /\ discrete_inputs' = discrete_inputs /\ holding_regs' = holding_regs
      BY <1>8 DEF Others
    <2>11. Q!Base \in Nat /\ (~(bytes + 5 <= Q!Base) => Q!TooLong(request)')
      <3>1. Q!ReplyBytes(request) = bytes
        BY <1>1 DEF Q!ReplyBytes, bytes, qty
      <3> QED BY <1>4, <2>1, <2>2, <2>6, <3>1, ByteFacts DEF Q!TooLong
    <2>3. CASE ~(bytes + 3 <= Q!Base)
      <3>1. /\ rtu_buf' \in [Q!Buffer -> Q!Byte] /\ resp_len' \in Q!Byte
            /\ stray' = TRUE /\ phase' = "send"
        BY <1>8, <2>2, <2>3, BytesOverrun
      <3>2. Q!TooLong(request)'
        BY <2>2, <2>3, <2>11
      <3> QED BY <1>1, <2>6, <3>1, <3>2 DEF Overruns, Q!TypeOK
    <2> SUFFICES ASSUME bytes + 3 <= Q!Base PROVE Served' /\ item' = item
      BY <2>3
    <2>4. /\ rtu_buf' \in [Q!Buffer -> Q!Byte] /\ resp_len' \in Q!Byte /\ resp_len' = Len(s) + 1
          /\ stray' = FALSE /\ phase' = "send"
          /\ Len(r) = 3 + Len(s)
          /\ r[1] = request[1] /\ r[2] = request[2] /\ r[3] = Len(s)
          /\ \A k \in 1 .. Len(s) : r[3 + k] = s[k]
      BY <1>8, <2>2, BytesAnswered DEF r
    <2>12. Fits'
      BY <2>2, <2>4, <2>11 DEF Fits
    <2>5. Q!RegistersAsRequested'
      BY <1>4, <1>8, NothingWritten
    <2>7. ASSUME NEW n \in 0 .. W * bytes - 1
          PROVE  Q!BitOf(r[4 + n \div W], n % W) = IF n < qty THEN discrete_inputs[addr + n] ELSE 0
      <3> DEFINE b == n \div W
      <3>1. b \in 0 .. bytes - 1 /\ Q!BitOf(s[b + 1], n % W) = IF n < qty THEN discrete_inputs[addr + n] ELSE 0
        BY <2>2
      <3> HIDE DEF b
      <3>2. b + 1 \in 1 .. Len(s) /\ 3 + (b + 1) = 4 + b
        BY <2>2, <3>1
      <3>3. r[4 + b] = s[b + 1]
        BY <2>4, <3>2
      <3> QED BY <3>1, <3>3 DEF b
    <2>8. Q!IsHeader(r, bytes) /\ Len(r) = 3 + bytes
      BY <2>2, <2>4 DEF Q!IsHeader
    <2>9. Q!AnswersRead(Q!Outgoing)'
      BY <1>1, <2>6, <2>7, <2>8 DEF Q!AnswersRead, Q!IsHeader, addr, qty, bytes, r
    <2>10. Q!Answers(Q!Outgoing)'
      BY <1>4, <2>1, <2>6, <2>9 DEF Q!Answers
    <2> QED BY <1>1, <2>4, <2>5, <2>6, <2>10, <2>12 DEF Served, Q!TypeOK
  <1> QED BY <1>5, <1>6, <1>7, <1>8

(* The registers that SetHolding sets, from the words of the request.       *)
LEMMA DataWords ==
  ASSUME Parsed, NEW k \in Nat, NEW qty \in Nat, k + 2 * qty <= Len(request)
  PROVE  /\ DOMAIN Q!Data(k, qty) = 1 .. qty
         /\ \A n \in 1 .. qty :
              /\ Q!Data(k, qty)[n] = Q!Asked(request, k + 1 + 2 * (n - 1))
              /\ Q!Data(k, qty)[n] \in Q!Word
  <1>1. Q!Data(k, qty) = [n \in 1 .. qty |-> Q!WordAt(k + 2 * (n - 1))]
    BY DEF Q!Data
  <1>2. ASSUME NEW n \in 1 .. qty
        PROVE  /\ Q!WordAt(k + 2 * (n - 1)) = Q!Asked(request, k + 1 + 2 * (n - 1))
               /\ Q!WordAt(k + 2 * (n - 1)) \in Q!Word
    <2> DEFINE j == k + 2 * (n - 1)
    <2>1. j \in Nat /\ j + 2 <= Len(request) /\ j + 1 = k + 1 + 2 * (n - 1)
      BY RequestBytes
    <2> HIDE DEF j
    <2>2. Q!WordAt(j) = Q!Asked(request, j + 1) /\ Q!WordAt(j) \in Q!Word
      BY <2>1, WordIsAsked
    <2> QED BY <2>1, <2>2 DEF j
  <1> QED BY <1>1, <1>2

(* The registers after SetHolding.                                          *)
LEMMA RegistersSet ==
  ASSUME Q!RequestsAssumption, holding_regs \in [0 .. Holdings - 1 -> Q!Word],
         NEW addr \in Nat, NEW qty \in Nat, NEW vals, DOMAIN vals = 1 .. qty,
         \A n \in 1 .. qty : vals[n] \in Q!Word, Q!SetHolding(addr, vals)
  PROVE  /\ holding_regs' \in [0 .. Holdings - 1 -> Q!Word]
         /\ \A n \in 0 .. Holdings - 1 :
              holding_regs'[n] = IF n \in Q!Span(addr, qty) THEN vals[n - addr + 1] ELSE holding_regs[n]
  <1>1. holding_regs' = [n \in 0 .. Holdings - 1 |->
          IF n - addr + 1 \in 1 .. qty THEN vals[n - addr + 1] ELSE holding_regs[n]]
    BY DEF Q!SetHolding
  <1>2. \A n \in 0 .. Holdings - 1 : n \in Q!Span(addr, qty) <=> n - addr + 1 \in 1 .. qty
    BY TableSizes DEF Q!Span
  <1> QED BY <1>1, <1>2

(* The reply with the holding registers.                                    *)
LEMMA HoldingsAnswered ==
  ASSUME Parsed, request[2] \in {READ_HOLDING_REGS, RW_MULTIPLE_REGS}, Len(request) >= 6,
         holding_regs' \in [0 .. Holdings - 1 -> Q!Word], UNCHANGED Others,
         Q!InRange(Q!Asked(request, 3), Q!Asked(request, 5), Holdings),
         Q!Reads(request), Q!Deserves(request) = 0,
         Q!AnswerBytes(Q!RegisterBytes(holding_regs', Q!Asked(request, 3), Q!Asked(request, 5)))
  PROVE  \/ /\ rtu_buf' \in [Q!Buffer -> Q!Byte] /\ resp_len' \in Q!Byte /\ Fits'
            /\ stray' = FALSE /\ phase' = "send" /\ Q!AnswersRead(Q!Outgoing)'
         \/ Overruns'
  <1> Q!RequestsAssumption /\ Q!TypeOK
    BY DEF Parsed
  <1> DEFINE addr == Q!Asked(request, 3)
             qty == Q!Asked(request, 5)
             r == Q!Outgoing'
  <1>1. addr \in Nat /\ qty \in Nat
    BY FirstWords
  <1>2. addr + qty <= Holdings /\ qty <= Holdings
    BY <1>1, TableSizes DEF Q!InRange
  <1>3. Q!Base \in Nat /\ (~(2 * qty + 5 <= Q!Base) => Q!TooLong(request)')
    <2>1. Q!ReplyBytes(request) = 2 * qty
      BY CodesDiffer DEF Q!ReplyBytes
    <2>2. request' = request /\ Q!Base \in Nat
      BY BaseFacts DEF Others
    <2>3. Q!Reads(request)' /\ Q!Deserves(request)' = 0 /\ Q!ReplyBytes(request)' = 2 * qty
      BY <2>1, <2>2
    <2> HIDE DEF addr, qty
    <2> QED BY <1>1, <2>2, <2>3 DEF Q!TooLong
  <1> DEFINE s == Q!RegisterBytes(holding_regs', addr, qty)
  <1>5. Q!AnswerBytes(s)
    OBVIOUS
  <1>14. holding_regs' \in [0 .. Holdings - 1 -> Q!Word]
    OBVIOUS
  <1> HIDE DEF addr, qty, r
  <1>4. /\ s \in Seq(Q!Byte) /\ Len(s) = 2 * qty
        /\ \A n \in 0 .. qty - 1 : s[2 * n + 1] * Q!Base + s[2 * n + 2] = holding_regs'[addr + n]
    <2>1. AreRegisters(s, holding_regs', addr, qty)
      BY <1>1, <1>2, <1>14, HoldingBytes
    <2> QED BY <2>1 DEF AreRegisters
  <1> HIDE DEF s
  <1>6. CASE ~(Len(s) + 3 <= Q!Base)
    <2>1. /\ rtu_buf' \in [Q!Buffer -> Q!Byte] /\ resp_len' \in Q!Byte
          /\ stray' = TRUE /\ phase' = "send"
      BY <1>4, <1>5, <1>6, BytesOverrun
    <2>2. Q!TooLong(request)'
      BY <1>1, <1>3, <1>4, <1>6
    <2> QED BY <2>1, <2>2 DEF Overruns
  <1> SUFFICES ASSUME Len(s) + 3 <= Q!Base
               PROVE  /\ rtu_buf' \in [Q!Buffer -> Q!Byte] /\ resp_len' \in Q!Byte /\ Fits'
                      /\ stray' = FALSE /\ phase' = "send" /\ Q!AnswersRead(Q!Outgoing)'
    BY <1>6
  <1>7. /\ rtu_buf' \in [Q!Buffer -> Q!Byte] /\ resp_len' \in Q!Byte /\ resp_len' = Len(s) + 1
        /\ stray' = FALSE /\ phase' = "send"
        /\ Len(r) = 3 + Len(s)
        /\ r[1] = request[1] /\ r[2] = request[2] /\ r[3] = Len(s)
        /\ \A k \in 1 .. Len(s) : r[3 + k] = s[k]
    BY <1>4, <1>5, BytesAnswered DEF r
  <1>12. Fits'
    BY <1>1, <1>3, <1>4, <1>7 DEF Fits
  <1>8. ASSUME NEW n \in 0 .. qty - 1 PROVE Q!Asked(r, 4 + 2 * n) = holding_regs'[addr + n]
    <2>1. /\ 2 * n + 1 \in 1 .. Len(s) /\ 2 * n + 2 \in 1 .. Len(s)
          /\ 3 + (2 * n + 1) = 4 + 2 * n /\ 3 + (2 * n + 2) = (4 + 2 * n) + 1
      BY <1>1, <1>4
    <2>2. r[4 + 2 * n] = s[2 * n + 1] /\ r[(4 + 2 * n) + 1] = s[2 * n + 2]
      BY <1>7, <2>1
    <2> QED BY <1>4, <2>2 DEF Q!Asked
  <1>9. request' = request /\ request[2] # READ_DISCRETE_INPUTS /\ request[2] # READ_INPUT_REGS
    BY CodesDiffer DEF Others
  <1>10. Q!IsHeader(r, 2 * qty) /\ Len(r) = 3 + 2 * qty
    BY <1>4, <1>7 DEF Q!IsHeader
  <1>11. Q!AnswersRead(Q!Outgoing)'
    <2>1. \A n \in 0 .. qty - 1 : Q!Asked(r, 4 + 2 * n) \in {holding_regs'[addr + n]}
      BY <1>8
    <2> QED BY <1>9, <1>10, <2>1 DEF Q!AnswersRead, Q!ValuesOf, Q!IsHeader, addr, qty, r
  <1> QED BY <1>7, <1>11, <1>12

(* READ_HOLDING_REGS.                                                       *)
LEMMA ReadHoldingServes ==
  ASSUME Parsed, Q!ReadHoldingRegs, UNCHANGED <<Others, written>>
  PROVE  (Served' \/ Overruns') /\ item' = item
  <1> Q!RequestsAssumption /\ Q!TypeOK
    BY DEF Parsed
  <1> DEFINE addr == Q!Asked(request, 3)
             qty == Q!Asked(request, 5)
  <1>1. request[2] = READ_HOLDING_REGS /\ item' = item
    BY RequestBytes DEF Q!ReadHoldingRegs
  <1>2. Len(request) = 6
    BY <1>1 DEF Parsed, Q!WellFormed
  <1>3. addr \in Nat /\ qty \in Nat /\ Q!WordAt(2) = addr /\ Q!WordAt(4) = qty
    BY <1>2, FirstWords
  <1>4. /\ Q!Reads(request) /\ ~Q!OfFirmware(request) /\ Q!WriteSpan(request) = {}
        /\ Q!Deserves(request) = IF addr >= Holdings THEN 2
                               ELSE IF Q!InRange(addr, qty, Holdings) THEN 0 ELSE 3
    BY <1>1, <1>3, TableSizes, DeservesRead
  <1>5. \/ addr >= Holdings /\ Q!Exception(2)
        \/ addr < Holdings /\ ~Q!InRange(addr, qty, Holdings) /\ Q!Exception(3)
        \/ /\ addr < Holdings /\ Q!InRange(addr, qty, Holdings)
           /\ Q!AnswerBytes(Q!RegisterBytes(holding_regs, addr, qty)) /\ UNCHANGED holding_regs
    BY <1>3 DEF Q!ReadHoldingRegs
  <1>6. CASE addr >= Holdings /\ Q!Exception(2)
    <2>1. Q!Deserves(request) = 2
      BY <1>4, <1>6
    <2> QED BY <1>1, <1>4, <1>6, <2>1, RefusalServes
  <1>7. CASE addr < Holdings /\ ~Q!InRange(addr, qty, Holdings) /\ Q!Exception(3)
    <2> HIDE DEF addr, qty
    <2>1. Q!Deserves(request) = 3
      BY <1>3, <1>4, <1>7, TableSizes
    <2> QED BY <1>1, <1>4, <1>7, <2>1, RefusalServes
  <1>8. CASE /\ addr < Holdings /\ Q!InRange(addr, qty, Holdings)
             /\ Q!AnswerBytes(Q!RegisterBytes(holding_regs, addr, qty)) /\ UNCHANGED holding_regs
    <2>1. holding_regs' = holding_regs /\ holding_regs' \in [0 .. Holdings - 1 -> Q!Word]
      BY <1>8 DEF Q!TypeOK
    <2>2. Q!AnswerBytes(Q!RegisterBytes(holding_regs', addr, qty))
      BY <1>8, <2>1
    <2>3. UNCHANGED Others /\ request[2] \in {READ_HOLDING_REGS, RW_MULTIPLE_REGS} /\ Len(request) >= 6
      BY <1>1, <1>2
    <2>6. Q!Deserves(request) = 0 /\ request' = request
      <3> HIDE DEF addr, qty
      <3> QED BY <1>3, <1>4, <1>8, TableSizes DEF Others
    <2>4. \/ /\ rtu_buf' \in [Q!Buffer -> Q!Byte] /\ resp_len' \in Q!Byte /\ Fits'
             /\ stray' = FALSE /\ phase' = "send" /\ Q!AnswersRead(Q!Outgoing)'
          \/ Overruns'
      BY <1>4, <1>8, <2>1, <2>2, <2>3, <2>6, HoldingsAnswered, Zenon
    <2>5. Q!RegistersAsRequested'
      BY <1>4, <1>8, NothingWritten
    <2> HIDE DEF addr, qty
    <2>7. Q!AnswersRead(Q!Outgoing)' => Q!Answers(Q!Outgoing)'
      BY <1>4, <2>6 DEF Q!Answers
    <2> QED BY <1>1, <2>1, <2>4, <2>5, <2>7 DEF Served
  <1> QED BY <1>5, <1>6, <1>7, <1>8

(* A write is confirmed with the beginning of the request.                  *)
LEMMA EchoServes ==
  ASSUME Parsed, NEW len \in {4, 6}, len = (IF request[2] = MASK_WRITE_REG THEN 6 ELSE 4),
         len + 2 <= Len(request), Q!Answer(len), UNCHANGED <<rtu_buf, stray, Others, written>>,
         ~Q!OfFirmware(request), ~Q!Reads(request), Q!Deserves(request) = 0,
         holding_regs' \in [0 .. Holdings - 1 -> Q!Word], Q!RegistersAsRequested'
  PROVE  Served'
  <1>1. /\ rtu_buf' \in [Q!Buffer -> Q!Byte] /\ resp_len' \in Q!Byte /\ Fits'
        /\ stray' = FALSE /\ phase' = "send" /\ Q!Outgoing' = SubSeq(request, 1, len + 2)
    BY RequestEchoed
  <1>2. request' = request
    BY DEF Others
  <1>3. Q!Outgoing' = Q!Echo
    BY <1>1 DEF Q!Echo
  <1>4. Q!Answers(Q!Outgoing)'
    BY <1>2, <1>3 DEF Q!Answers, Q!Echo
  <1> QED BY <1>1, <1>4 DEF Served

(* The registers after a write of the words that value(n) gives.            *)
LEMMA WriteSingleServes ==
  ASSUME Parsed, Q!WriteSingleReg, UNCHANGED <<Others, written>>
  PROVE  Served' /\ item' = item
  <1> Q!RequestsAssumption /\ Q!TypeOK
    BY DEF Parsed
  <1> DEFINE addr == Q!Asked(request, 3)
             val == Q!Asked(request, 5)
  <1>1. request[2] = WRITE_SINGLE_REG /\ item' = item
    BY RequestBytes DEF Q!WriteSingleReg
  <1>2. Len(request) = 6
    BY <1>1 DEF Parsed, Q!WellFormed
  <1>3. addr \in Nat /\ val \in Q!Word /\ Q!WordAt(2) = addr /\ Q!WordAt(4) = val
    BY <1>2, FirstWords
  <1>4. /\ ~Q!Reads(request) /\ ~Q!OfFirmware(request) /\ Q!WriteSpan(request) = {addr}
        /\ Q!Deserves(request) = IF addr >= Holdings THEN 2 ELSE 0
    BY <1>1, <1>3, DeservesWriteOne
  <1>5. \/ addr >= Holdings /\ Q!Exception(2)
        \/ /\ addr < Holdings /\ Q!SetHolding(addr, <<val>>) /\ Q!Answer(4)
           /\ UNCHANGED <<rtu_buf, stray>>
    BY <1>3 DEF Q!WriteSingleReg
  <1>6. CASE addr >= Holdings /\ Q!Exception(2)
    <2>1. Q!Deserves(request) = 2
      BY <1>4, <1>6
    <2> QED BY <1>1, <1>4, <1>6, <2>1, RefusalServes
  <1>7. CASE /\ addr < Holdings /\ Q!SetHolding(addr, <<val>>) /\ Q!Answer(4)
             /\ UNCHANGED <<rtu_buf, stray>>
    <2>1. DOMAIN <<val>> = 1 .. 1 /\ \A n \in 1 .. 1 : <<val>>[n] = val
      OBVIOUS
    <2>2. holding_regs \in [0 .. Holdings - 1 -> Q!Word] /\ before = holding_regs
      BY DEF Q!TypeOK, Parsed
    <2> HIDE DEF addr, val
    <2>3. /\ holding_regs' \in [0 .. Holdings - 1 -> Q!Word]
          /\ \A n \in 0 .. Holdings - 1 :
               holding_regs'[n] = IF n \in Q!Span(addr, 1) THEN <<val>>[n - addr + 1] ELSE holding_regs[n]
      <3> DEFINE vals == <<val>>
      <3>1. DOMAIN vals = 1 .. 1 /\ \A n \in 1 .. 1 : vals[n] \in Q!Word
        BY <1>3, <2>1
      <3>2. Q!SetHolding(addr, vals)
        BY <1>7
      <3>3. addr \in Nat /\ 1 \in Nat
        BY <1>3
      <3> HIDE DEF vals
      <3>4. /\ holding_regs' \in [0 .. Holdings - 1 -> Q!Word]
            /\ \A n \in 0 .. Holdings - 1 :
                 holding_regs'[n] = IF n \in Q!Span(addr, 1) THEN vals[n - addr + 1] ELSE holding_regs[n]
        BY <2>2, <3>1, <3>2, <3>3, RegistersSet, Zenon
      <3> QED BY <3>4 DEF vals
    <2>4. \A n \in 0 .. Holdings - 1 : holding_regs'[n] = IF n = addr THEN val ELSE holding_regs[n]
      <3>1. \A n \in 0 .. Holdings - 1 : n \in Q!Span(addr, 1) <=> n = addr
        BY <1>3, TableSizes DEF Q!Span
      <3>2. addr - addr + 1 = 1
        BY <1>3
      <3> QED BY <2>1, <2>3, <3>1, <3>2
    <2>5. request' = request /\ before' = before
      BY DEF Others
    <2>6. Q!Deserves(request) = 0
      BY <1>3, <1>4, <1>7, TableSizes
    <2>7. ASSUME NEW n \in 0 .. Holdings - 1 PROVE Q!IsWritten(request, n, before[n], val)
      BY <1>1, CodesDiffer DEF Q!IsWritten, val
    <2>8. Q!RegistersAsRequested'
      BY <1>4, <2>2, <2>4, <2>5, <2>6, <2>7 DEF Q!RegistersAsRequested
    <2>9. request[2] # MASK_WRITE_REG
      BY <1>1, CodesDiffer
    <2>10. Served'
      BY <1>2, <1>4, <1>7, <2>3, <2>6, <2>8, <2>9, EchoServes
    <2> QED BY <1>1, <2>10
  <1> QED BY <1>5, <1>6, <1>7

(* MASK_WRITE_REG: the mask is applied bit by bit.                          *)
LEMMA MaskWriteServes ==
  ASSUME Parsed, Q!MaskWriteReg, UNCHANGED <<Others, written>>
  PROVE  Served' /\ item' = item
  <1> Q!RequestsAssumption /\ Q!TypeOK
    BY DEF Parsed
  <1> DEFINE addr == Q!Asked(request, 3)
             and_mask == Q!Asked(request, 5)
             or_mask == Q!Asked(request, 7)
             val == Q!Masked(holding_regs[addr], and_mask, or_mask)
  <1>1. request[2] = MASK_WRITE_REG /\ item' = item
    BY RequestBytes DEF Q!MaskWriteReg
  <1>2. Len(request) = 8
    BY <1>1 DEF Parsed, Q!WellFormed
  <1>3. addr \in Nat /\ and_mask \in Q!Word /\ Q!WordAt(2) = addr /\ Q!WordAt(4) = and_mask
    BY <1>2, FirstWords
  <1>4. or_mask \in Q!Word /\ Q!WordAt(6) = or_mask
    <2>1. 6 + 2 <= Len(request)
      BY <1>2
    <2>2. Q!WordAt(6) = Q!Asked(request, 6 + 1) /\ Q!WordAt(6) \in Q!Word
      BY <2>1, WordIsAsked
    <2> QED BY <2>2
  <1>5. /\ ~Q!Reads(request) /\ ~Q!OfFirmware(request) /\ Q!WriteSpan(request) = {addr}
        /\ Q!Deserves(request) = IF addr >= Holdings THEN 2 ELSE 0
    BY <1>1, <1>3, DeservesWriteOne
  <1>6. \/ addr >= Holdings /\ Q!Exception(2)
        \/ /\ addr < Holdings /\ Q!SetHolding(addr, <<val>>) /\ Q!Answer(6)
           /\ UNCHANGED <<rtu_buf, stray>>
    BY <1>3, <1>4 DEF Q!MaskWriteReg
  <1>7. CASE addr >= Holdings /\ Q!Exception(2)
    <2>1. Q!Deserves(request) = 2
      BY <1>5, <1>7
    <2> QED BY <1>1, <1>5, <1>7, <2>1, RefusalServes
  <1>8. CASE /\ addr < Holdings /\ Q!SetHolding(addr, <<val>>) /\ Q!Answer(6)
             /\ UNCHANGED <<rtu_buf, stray>>
    <2>1. DOMAIN <<val>> = 1 .. 1 /\ \A n \in 1 .. 1 : <<val>>[n] = val
      OBVIOUS
    <2>2. holding_regs \in [0 .. Holdings - 1 -> Q!Word] /\ before = holding_regs
      BY DEF Q!TypeOK, Parsed
    <2> HIDE DEF addr, and_mask, or_mask
    <2>3. /\ val \in Q!Word
          /\ \A k \in 0 .. 2 * W - 1 :
               Q!BitOf(val, k) = IF Q!BitOf(and_mask, k) = 1 THEN Q!BitOf(holding_regs[addr], k)
                               ELSE Q!BitOf(or_mask, k)
      <3>1. holding_regs[addr] \in Q!Word
        BY <1>3, <1>8, <2>2, TableSizes
      <3> QED BY <1>3, <1>4, <3>1, MaskedBits
    <2> HIDE DEF val
    <2>4. /\ holding_regs' \in [0 .. Holdings - 1 -> Q!Word]
          /\ \A n \in 0 .. Holdings - 1 :
               holding_regs'[n] = IF n \in Q!Span(addr, 1) THEN <<val>>[n - addr + 1] ELSE holding_regs[n]
      <3> DEFINE vals == <<val>>
      <3>1. DOMAIN vals = 1 .. 1 /\ \A n \in 1 .. 1 : vals[n] \in Q!Word
        BY <1>3, <2>1, <2>3
      <3>2. Q!SetHolding(addr, vals)
        BY <1>8
      <3>3. addr \in Nat /\ 1 \in Nat
        BY <1>3
      <3> HIDE DEF vals
      <3>4. /\ holding_regs' \in [0 .. Holdings - 1 -> Q!Word]
            /\ \A n \in 0 .. Holdings - 1 :
                 holding_regs'[n] = IF n \in Q!Span(addr, 1) THEN vals[n - addr + 1] ELSE holding_regs[n]
        BY <2>2, <3>1, <3>2, <3>3, RegistersSet, Zenon
      <3> QED BY <3>4 DEF vals
    <2>5. \A n \in 0 .. Holdings - 1 : holding_regs'[n] = IF n = addr THEN val ELSE holding_regs[n]
      <3>1. \A n \in 0 .. Holdings - 1 : n \in Q!Span(addr, 1) <=> n = addr
        BY <1>3, TableSizes DEF Q!Span
      <3>2. addr - addr + 1 = 1
        BY <1>3
      <3> QED BY <2>1, <2>4, <3>1, <3>2
    <2>6. request' = request /\ before' = before
      BY DEF Others
    <2>7. Q!Deserves(request) = 0
      BY <1>3, <1>5, <1>8, TableSizes
    <2>8. Q!IsWritten(request, addr, before[addr], val)
      <3>1. request[2] \notin {WRITE_SINGLE_REG, WRITE_MULTIPLE_REGS, RW_MULTIPLE_REGS}
        BY <1>1, CodesDiffer
      <3> QED BY <2>2, <2>3, <3>1 DEF Q!IsWritten, and_mask, or_mask
    <2>9. Q!RegistersAsRequested'
      BY <1>5, <2>2, <2>5, <2>6, <2>7, <2>8 DEF Q!RegistersAsRequested
    <2>10. Served'
      BY <1>1, <1>2, <1>5, <1>8, <2>4, <2>7, <2>9, EchoServes
    <2> QED BY <1>1, <2>10
  <1> QED BY <1>6, <1>7, <1>8

(* WRITE_MULTIPLE_REGS of registers.                                        *)
LEMMA WriteMultipleServes ==
  ASSUME Parsed, Q!WriteMultipleRegs, UNCHANGED Others
  PROVE  Served' /\ item' = item
  <1> Q!RequestsAssumption /\ Q!TypeOK
    BY DEF Parsed
  <1> DEFINE addr == Q!Asked(request, 3)
             qty == Q!Asked(request, 5)
             vals == Q!Data(7, qty)
  <1>1. request[2] = WRITE_MULTIPLE_REGS /\ item' = item /\ written' = written
    BY RequestBytes DEF Q!WriteMultipleRegs
  <1>2. Len(request) >= 7 /\ Len(request) = 7 + 2 * qty
    BY <1>1 DEF Parsed, Q!WellFormed
  <1>3. addr \in Nat /\ qty \in Nat /\ Q!WordAt(2) = addr /\ Q!WordAt(4) = qty
    BY <1>2, FirstWords, RequestBytes
  <1>4. rtu_buf[6] = request[7]
    <2>1. 7 \in 1 .. Len(request) /\ 7 - 1 = 6
      BY <1>2, RequestBytes
    <2> QED BY <2>1, RequestBytes
  <1>5. /\ addr < UPGRADE_DATA_ADDRESS
        /\ \/ addr >= Holdings /\ Q!Exception(2)
           \/ addr < Holdings /\ ~(Q!InRange(addr, qty, Holdings) /\ request[7] = 2 * qty) /\ Q!Exception(3)
           \/ /\ addr < Holdings /\ Q!InRange(addr, qty, Holdings) /\ request[7] = 2 * qty
              /\ Q!SetHolding(addr, vals) /\ Q!Answer(4) /\ UNCHANGED <<rtu_buf, stray>>
    BY <1>3, <1>4 DEF Q!WriteMultipleRegs
  <1>6. ~(addr >= UPGRADE_DATA_ADDRESS)
    BY <1>3, <1>5, TableSizes
  <1>7. /\ ~Q!Reads(request) /\ ~Q!OfFirmware(request) /\ Q!WriteSpan(request) = Q!Span(addr, qty)
        /\ Q!Deserves(request) = IF addr >= Holdings THEN 2
                               ELSE IF Q!InRange(addr, qty, Holdings) /\ request[7] = 2 * qty THEN 0 ELSE 3
    BY <1>1, <1>3, <1>6, DeservesWriteMultiple
  <1>8. CASE addr >= Holdings /\ Q!Exception(2)
    <2>1. Q!Deserves(request) = 2
      BY <1>7, <1>8
    <2> QED BY <1>1, <1>7, <1>8, <2>1, RefusalServes
  <1> HIDE DEF addr, qty, vals
  <1>9. CASE addr < Holdings /\ ~(Q!InRange(addr, qty, Holdings) /\ request[7] = 2 * qty) /\ Q!Exception(3)
    <2>1. Q!Deserves(request) = 3
      BY <1>3, <1>7, <1>9, TableSizes
    <2> QED BY <1>1, <1>7, <1>9, <2>1, RefusalServes
  <1>10. CASE /\ addr < Holdings /\ Q!InRange(addr, qty, Holdings) /\ request[7] = 2 * qty
              /\ Q!SetHolding(addr, vals) /\ Q!Answer(4) /\ UNCHANGED <<rtu_buf, stray>>
    <2>1. /\ DOMAIN vals = 1 .. qty
          /\ \A n \in 1 .. qty : vals[n] = Q!Asked(request, 7 + 1 + 2 * (n - 1)) /\ vals[n] \in Q!Word
      <3>1. 7 + 2 * qty <= Len(request)
        BY <1>2, <1>3 DEF qty
      <3> QED BY <1>3, <3>1, DataWords DEF vals
    <2>2. holding_regs \in [0 .. Holdings - 1 -> Q!Word] /\ before = holding_regs
      BY DEF Q!TypeOK, Parsed
    <2>3. /\ holding_regs' \in [0 .. Holdings - 1 -> Q!Word]
          /\ \A n \in 0 .. Holdings - 1 :
               holding_regs'[n] = IF n \in Q!Span(addr, qty) THEN vals[n - addr + 1] ELSE holding_regs[n]
      BY <1>3, <1>10, <2>1, <2>2, RegistersSet
    <2>4. request' = request /\ before' = before
      BY DEF Others
    <2>5. Q!Deserves(request) = 0
      BY <1>3, <1>7, <1>10, TableSizes
    <2>6. ASSUME NEW n \in 0 .. Holdings - 1, n \in Q!Span(addr, qty)
          PROVE  Q!IsWritten(request, n, before[n], vals[n - addr + 1])
      <3>1. n - addr + 1 \in 1 .. qty /\ 7 + 1 + 2 * ((n - addr + 1) - 1) = 8 + 2 * (n - addr)
        BY <1>3, <2>6, TableSizes DEF Q!Span
      <3>2. vals[n - addr + 1] = Q!Asked(request, 8 + 2 * (n - addr))
        BY <2>1, <3>1
      <3> QED BY <1>1, <3>2, CodesDiffer DEF Q!IsWritten, addr
    <2>7. Q!RegistersAsRequested'
      BY <1>7, <2>2, <2>3, <2>4, <2>5, <2>6 DEF Q!RegistersAsRequested
    <2>8. request[2] # MASK_WRITE_REG /\ 4 + 2 <= Len(request)
      BY <1>1, <1>2, CodesDiffer, RequestBytes
    <2>9. Served'
      BY <1>1, <1>7, <1>10, <2>3, <2>5, <2>7, <2>8, EchoServes
    <2> QED BY <1>1, <2>9
  <1> QED BY <1>5, <1>8, <1>9, <1>10

(* WRITE_MULTIPLE_REGS of firmware data.                                    *)
LEMMA UpgradeServes ==
  ASSUME Parsed, Q!WriteUpgradeData, UNCHANGED Others
  PROVE  Served' /\ item' = item
  <1> Q!RequestsAssumption /\ Q!TypeOK
    BY DEF Parsed
  <1> DEFINE addr == Q!Asked(request, 3)
             qty == Q!Asked(request, 5)
             chunk == <<(addr - UPGRADE_DATA_ADDRESS) * 2, [n \in 1 .. 2 * qty |-> rtu_buf[6 + n]]>>
  <1>1. request[2] = WRITE_MULTIPLE_REGS /\ item' = item
    BY RequestBytes DEF Q!WriteUpgradeData
  <1>2. Len(request) >= 7 /\ Len(request) = 7 + 2 * qty
    BY <1>1 DEF Parsed, Q!WellFormed
  <1>3. addr \in Nat /\ qty \in Nat /\ Q!WordAt(2) = addr /\ Q!WordAt(4) = qty
    BY <1>2, FirstWords, RequestBytes
  <1>4. /\ addr >= UPGRADE_DATA_ADDRESS
        /\ \/ ~upgrading /\ Q!Exception(3) /\ UNCHANGED written
           \/ upgrading /\ Q!Exception(4) /\ UNCHANGED written
           \/ upgrading /\ Q!Answer(4) /\ written' = chunk /\ UNCHANGED <<rtu_buf, holding_regs, stray>>
    BY <1>3 DEF Q!WriteUpgradeData
  <1>5. Q!OfFirmware(request) /\ ~Q!Reads(request)
    BY <1>1, <1>3, <1>4, DeservesWriteMultiple
  <1> HIDE DEF chunk
  <1>6. CASE ~upgrading /\ Q!Exception(3) /\ UNCHANGED written
    BY <1>1, <1>5, <1>6, RefusalServes
  <1>7. CASE upgrading /\ Q!Exception(4) /\ UNCHANGED written
    BY <1>1, <1>5, <1>7, RefusalServes
  <1>8. CASE upgrading /\ Q!Answer(4) /\ written' = chunk /\ UNCHANGED <<rtu_buf, holding_regs, stray>>
    <2>1. request[2] # MASK_WRITE_REG /\ 4 + 2 <= Len(request)
      BY <1>1, <1>2, CodesDiffer, RequestBytes
    <2>2. /\ rtu_buf' \in [Q!Buffer -> Q!Byte] /\ resp_len' \in Q!Byte /\ Fits'
          /\ stray' = FALSE /\ phase' = "send" /\ Q!Outgoing' = SubSeq(request, 1, 4 + 2)
      BY <1>8, <2>1, RequestEchoed
    <2>3. request' = request /\ upgrading' = upgrading /\ before' = before
      BY DEF Others
    <2>4. Q!Outgoing' = Q!Echo
      BY <2>1, <2>2 DEF Q!Echo
    <2>5. chunk = <<2 * (addr - UPGRADE_DATA_ADDRESS), SubSeq(request, 8, 7 + 2 * qty)>>
      <3>1. (addr - UPGRADE_DATA_ADDRESS) * 2 = 2 * (addr - UPGRADE_DATA_ADDRESS)
        BY <1>3, TableSizes
      <3>2. ASSUME NEW n \in 1 .. 2 * qty PROVE rtu_buf[6 + n] = request[8 + n - 1]
        <4>1. 7 + n \in 1 .. Len(request) /\ (7 + n) - 1 = 6 + n /\ 8 + n - 1 = 7 + n
          BY <1>2, <1>3
        <4>2. rtu_buf[(7 + n) - 1] = request[7 + n]
          BY <4>1, RequestBytes
        <4> QED BY <4>1, <4>2
      <3>3. SubSeq(request, 8, 7 + 2 * qty) = [n \in 1 .. 2 * qty |-> request[8 + n - 1]]
        <4>1. request \in Seq(Q!Byte) /\ 7 + 2 * qty \in Int /\ (7 + 2 * qty) - 8 + 1 = 2 * qty
          BY <1>3, RequestBytes
        <4> DEFINE top == 7 + 2 * qty
        <4> HIDE DEF top, qty
        <4>2. SubSeq(request, 8, top) = [n \in 1 .. top - 8 + 1 |-> request[8 + n - 1]]
          BY <4>1 DEF top
        <4> QED BY <4>1, <4>2 DEF top
      <3> QED BY <3>1, <3>2, <3>3 DEF chunk
    <2>6. Q!ConfirmsFirmware(Q!Outgoing)'
      BY <1>8, <2>3, <2>4, <2>5 DEF Q!ConfirmsFirmware, Q!Echo
    <2>7. Q!Answers(Q!Outgoing)'
      BY <1>5, <2>3, <2>6 DEF Q!Answers
    <2>8. Q!RegistersAsRequested'
      BY <1>5, <1>8, <2>3 DEF Q!RegistersAsRequested, Parsed
    <2> QED BY <1>1, <1>8, <2>2, <2>7, <2>8 DEF Served, Q!TypeOK
  <1> QED BY <1>4, <1>6, <1>7, <1>8

(* An unknown function.                                                     *)
LEMMA OtherServes ==
  ASSUME Parsed, Q!OtherFunction, UNCHANGED <<Others, written>>
  PROVE  Served' /\ item' = item
  <1>1. request[2] \notin Q!Functions /\ Q!Exception(1) /\ item' = item
    BY RequestBytes DEF Q!OtherFunction
  <1>2. ~Q!OfFirmware(request) /\ Q!Deserves(request) = 1
    BY <1>1, CodesDiffer DEF Q!OfFirmware, Q!Deserves, Parsed
  <1> QED BY <1>1, <1>2, RefusalServes

(* RW_MULTIPLE_REGS: written first, then read, from the bytes that are overwritten. *)
LEMMA RwServes ==
  ASSUME Parsed, Q!RwMultipleRegs, UNCHANGED <<Others, written>>
  PROVE  (Served' \/ Overruns') /\ item' = item
  <1> Q!RequestsAssumption /\ Q!TypeOK
    BY DEF Parsed
  <1> DEFINE raddr == Q!Asked(request, 3)
             rqty == Q!Asked(request, 5)
             waddr == Q!Asked(request, 7)
             wqty == Q!Asked(request, 9)
             valid == /\ Q!InRange(raddr, rqty, Holdings) /\ Q!InRange(waddr, wqty, Holdings)
                      /\ request[11] = 2 * wqty
             vals == Q!Data(11, wqty)
  <1>1. request[2] = RW_MULTIPLE_REGS /\ item' = item
    BY RequestBytes DEF Q!RwMultipleRegs
  <1>2. Len(request) >= 11 /\ Len(request) = 11 + 2 * wqty
    BY <1>1 DEF Parsed, Q!WellFormed
  <1>3. Len(request) >= 6 /\ 6 + 2 <= Len(request) /\ 8 + 2 <= Len(request) /\ 11 \in 1 .. Len(request)
    BY <1>2, RequestBytes
  <1>4. raddr \in Nat /\ rqty \in Nat /\ Q!WordAt(2) = raddr /\ Q!WordAt(4) = rqty
    BY <1>3, FirstWords
  <1>5. waddr \in Nat /\ wqty \in Nat /\ Q!WordAt(6) = waddr /\ Q!WordAt(8) = wqty
    <2>1. Q!WordAt(6) = Q!Asked(request, 6 + 1) /\ Q!WordAt(6) \in Nat
      BY <1>3, WordIsAsked
    <2>2. Q!WordAt(8) = Q!Asked(request, 8 + 1) /\ Q!WordAt(8) \in Nat
      BY <1>3, WordIsAsked
    <2> QED BY <2>1, <2>2
  <1>6. rtu_buf[10] = request[11]
    <2>1. rtu_buf[11 - 1] = request[11]
      BY <1>3, RequestBytes
    <2> QED BY <2>1
  <1>7. \/ (raddr >= Holdings \/ waddr >= Holdings) /\ Q!Exception(2)
        \/ raddr < Holdings /\ waddr < Holdings /\ ~valid /\ Q!Exception(3)
        \/ raddr < Holdings /\ waddr < Holdings /\ valid /\ Q!WriteThenRead(raddr, rqty, waddr, wqty)
    BY <1>4, <1>5, <1>6 DEF Q!RwMultipleRegs
  <1>8. /\ Q!Reads(request) /\ ~Q!OfFirmware(request) /\ Q!WriteSpan(request) = Q!Span(waddr, wqty)
        /\ Q!Deserves(request) = IF raddr >= Holdings \/ waddr >= Holdings THEN 2
                               ELSE IF valid THEN 0 ELSE 3
    BY <1>1, <1>4, <1>5, DeservesRw
  <1>9. CASE (raddr >= Holdings \/ waddr >= Holdings) /\ Q!Exception(2)
    <2>1. Q!Deserves(request) = 2
      BY <1>8, <1>9
    <2> QED BY <1>1, <1>8, <1>9, <2>1, RefusalServes
  <1> HIDE DEF raddr, rqty, waddr, wqty, valid, vals
  <1>10. CASE raddr < Holdings /\ waddr < Holdings /\ ~valid /\ Q!Exception(3)
    <2>1. Q!Deserves(request) = 3
      BY <1>4, <1>5, <1>8, <1>10, TableSizes
    <2> QED BY <1>1, <1>8, <1>10, <2>1, RefusalServes
  <1>11. CASE raddr < Holdings /\ waddr < Holdings /\ valid /\ Q!WriteThenRead(raddr, rqty, waddr, wqty)
    <2>1. Q!SetHolding(waddr, vals) /\ Q!AnswerBytes(Q!RegisterBytes(holding_regs', raddr, rqty))
      BY <1>11 DEF Q!WriteThenRead, vals
    <2>2. /\ DOMAIN vals = 1 .. wqty
          /\ \A n \in 1 .. wqty : vals[n] = Q!Asked(request, 11 + 1 + 2 * (n - 1)) /\ vals[n] \in Q!Word
      <3>1. 11 + 2 * wqty <= Len(request)
        BY <1>2, <1>5 DEF wqty
      <3> QED BY <1>5, <3>1, DataWords DEF vals
    <2>3. holding_regs \in [0 .. Holdings - 1 -> Q!Word] /\ before = holding_regs
      BY DEF Q!TypeOK, Parsed
    <2>4. /\ holding_regs' \in [0 .. Holdings - 1 -> Q!Word]
          /\ \A n \in 0 .. Holdings - 1 :
               holding_regs'[n] = IF n \in Q!Span(waddr, wqty) THEN vals[n - waddr + 1] ELSE holding_regs[n]
      BY <1>5, <2>1, <2>2, <2>3, RegistersSet
    <2>5. request' = request /\ before' = before
      BY DEF Others
    <2>6. Q!Deserves(request) = 0
      BY <1>4, <1>5, <1>8, <1>11, TableSizes
    <2>7. ASSUME NEW n \in 0 .. Holdings - 1, n \in Q!Span(waddr, wqty)
          PROVE  Q!IsWritten(request, n, before[n], vals[n - waddr + 1])
      <3>1. n - waddr + 1 \in 1 .. wqty /\ 11 + 1 + 2 * ((n - waddr + 1) - 1) = 12 + 2 * (n - waddr)
        BY <1>5, <2>7, TableSizes DEF Q!Span
      <3>2. vals[n - waddr + 1] = Q!Asked(request, 12 + 2 * (n - waddr))
        BY <2>2, <3>1
      <3> QED BY <1>1, <3>2, CodesDiffer DEF Q!IsWritten, waddr
    <2>8. Q!RegistersAsRequested'
      BY <1>8, <2>3, <2>4, <2>5, <2>6, <2>7 DEF Q!RegistersAsRequested
    <2>9. UNCHANGED Others /\ request[2] \in {READ_HOLDING_REGS, RW_MULTIPLE_REGS} /\ Len(request) >= 6
      BY <1>1, <1>3
    <2>10. Q!InRange(raddr, rqty, Holdings)
      BY <1>11 DEF valid
    <2>11. \/ /\ rtu_buf' \in [Q!Buffer -> Q!Byte] /\ resp_len' \in Q!Byte /\ Fits'
              /\ stray' = FALSE /\ phase' = "send" /\ Q!AnswersRead(Q!Outgoing)'
           \/ Overruns'
      BY <1>8, <2>1, <2>4, <2>6, <2>9, <2>10, HoldingsAnswered, Zenon DEF raddr, rqty
    <2>12. Q!AnswersRead(Q!Outgoing)' => Q!Answers(Q!Outgoing)'
      BY <1>8, <2>5, <2>6 DEF Q!Answers
    <2> QED BY <1>1, <2>4, <2>8, <2>11, <2>12 DEF Served
  <1> QED BY <1>7, <1>9, <1>10, <1>11

(* The registers read one by one: the beginning.                            *)
LEMMA ReadInputStarts ==
  ASSUME Parsed, Q!ReadInputRegs, UNCHANGED <<Others, written>>
  PROVE  \/ Served' /\ item' = item
         \/ /\ phase' = "read" /\ item' = 0 /\ rtu_buf' \in [Q!Buffer -> Q!Byte]
            /\ UNCHANGED <<resp_len, holding_regs, stray>>
            /\ ReadSoFar' /\ Q!RegistersAsRequested'
  <1> Q!RequestsAssumption /\ Q!TypeOK
    BY DEF Parsed
  <1> DEFINE addr == Q!Asked(request, 3)
             qty == Q!Asked(request, 5)
             l == <<(2 * qty) % Q!Base>>
  <1>1. request[2] = READ_INPUT_REGS
    BY RequestBytes DEF Q!ReadInputRegs
  <1>2. Len(request) = 6
    BY <1>1 DEF Parsed, Q!WellFormed
  <1>3. addr \in Nat /\ qty \in Nat /\ Q!WordAt(2) = addr /\ Q!WordAt(4) = qty
    BY <1>2, FirstWords
  <1>4. /\ Q!Reads(request) /\ ~Q!OfFirmware(request) /\ Q!WriteSpan(request) = {}
        /\ Q!Deserves(request) = IF addr >= Inputs THEN 2
                               ELSE IF Q!InRange(addr, qty, Inputs) THEN 0 ELSE 3
    BY <1>1, <1>3, TableSizes, DeservesRead
  <1>5. \/ addr >= Inputs /\ Q!Exception(2) /\ item' = item
        \/ addr < Inputs /\ ~Q!InRange(addr, qty, Inputs) /\ Q!Exception(3) /\ item' = item
        \/ /\ addr < Inputs /\ Q!InRange(addr, qty, Inputs)
           /\ rtu_buf' = Q!Put(rtu_buf, 2, l) /\ phase' = "read" /\ item' = 0
           /\ UNCHANGED <<resp_len, holding_regs, stray>>
    BY <1>3 DEF Q!ReadInputRegs
  <1>6. CASE addr >= Inputs /\ Q!Exception(2) /\ item' = item
    <2>1. Q!Deserves(request) = 2
      BY <1>4, <1>6
    <2> QED BY <1>4, <1>6, <2>1, RefusalServes
  <1> HIDE DEF addr, qty, l
  <1>7. CASE addr < Inputs /\ ~Q!InRange(addr, qty, Inputs) /\ Q!Exception(3) /\ item' = item
    <2>1. Q!Deserves(request) = 3
      BY <1>3, <1>4, <1>7, TableSizes
    <2> QED BY <1>4, <1>7, <2>1, RefusalServes
  <1>8. CASE /\ addr < Inputs /\ Q!InRange(addr, qty, Inputs)
             /\ rtu_buf' = Q!Put(rtu_buf, 2, l) /\ phase' = "read" /\ item' = 0
             /\ UNCHANGED <<resp_len, holding_regs, stray>>
    <2> DEFINE count == (2 * qty) % Q!Base
    <2>1. count \in Q!Byte
      BY <1>3, ByteFacts
    <2>2. l = <<count>>
      BY DEF l
    <2> HIDE DEF count
    <2>3. l \in Seq(Q!Byte) /\ Len(l) = 1 /\ l[1] = count
      BY <2>1, <2>2
    <2>4. rtu_buf \in [Q!Buffer -> Q!Byte] /\ rtu_buf[0] = request[1] /\ rtu_buf[1] = request[2]
      BY RequestBytes
    <2>5. /\ Q!Put(rtu_buf, 2, l) \in [Q!Buffer -> Q!Byte]
          /\ \A n \in Q!Buffer : Q!Put(rtu_buf, 2, l)[n] = IF n - 2 + 1 \in 1 .. Len(l) THEN l[n - 2 + 1] ELSE rtu_buf[n]
      <3>1. ASSUME NEW t \in Seq(Q!Byte)
            PROVE  /\ Q!Put(rtu_buf, 2, t) \in [Q!Buffer -> Q!Byte]
                   /\ \A n \in Q!Buffer :
                        Q!Put(rtu_buf, 2, t)[n] = IF n - 2 + 1 \in 1 .. Len(t) THEN t[n - 2 + 1] ELSE rtu_buf[n]
        BY <2>4, PutAt
      <3> QED BY <2>3, <3>1, Zenon
    <2>6. rtu_buf' \in [Q!Buffer -> Q!Byte] /\ rtu_buf'[0] = request[1] /\ rtu_buf'[1] = request[2]
          /\ rtu_buf'[2] = count
      <3>1. 0 \in Q!Buffer /\ 1 \in Q!Buffer /\ 2 \in Q!Buffer
        BY ByteFacts
      <3>2. 1 .. Len(l) = {1}
        BY <2>3
      <3> QED BY <1>8, <2>3, <2>4, <2>5, <3>1, <3>2
    <2>7. request' = request
      BY DEF Others
    <2>8. 0 .. item' - 1 = {} /\ item' <= qty /\ 3 + 2 * item' <= Q!Base
      BY <1>3, <1>8, ByteFacts
    <2>9. ReadSoFar'
      BY <1>1, <1>8, <2>6, <2>7, <2>8 DEF ReadSoFar, count, addr, qty
    <2>10. Q!RegistersAsRequested'
      BY <1>4, <1>8, NothingWritten
    <2> QED BY <1>8, <2>6, <2>9, <2>10
  <1> QED BY <1>5, <1>6, <1>7, <1>8

(* Serving holds initially, and every action keeps it, or overruns.                  *)
LEMMA InitRequestsInv == ASSUME Q!RequestsAssumption, Q!Init PROVE Serving
  <1>1. rtu_buf \in [Q!Buffer -> Q!Byte] /\ frame_len \in Q!Byte /\ resp_len \in Q!Byte
    BY ByteFacts DEF Q!Init
  <1>2. input_regs \in [0 .. Inputs - 1 -> Q!Word]
    <2>1. ASSUME NEW n \in 0 .. Inputs - 1 PROVE n \in Q!Word
      <3>1. Inputs \in Nat /\ Inputs <= Q!Base * Q!Base /\ Q!Base * Q!Base \in Nat
        BY TableSizes, BaseFacts DEF Q!RequestsAssumption
      <3> HIDE DEF Q!Base
      <3> QED BY <3>1 DEF Q!Word
    <2> QED BY <2>1 DEF Q!Init
  <1>3. holding_regs \in [0 .. Holdings - 1 -> Q!Word]
    BY DEF Q!Init, Q!RequestsAssumption
  <1>4. MaxRequests \in Nat /\ MaxEvents \in Nat /\ Inputs \in Nat
    BY TableSizes DEF Q!RequestsAssumption
  <1>6. stray \in BOOLEAN
    BY Zenon DEF Q!Init
  <1>5. Q!TypeOK
    BY <1>1, <1>2, <1>3, <1>4, <1>6 DEF Q!Init, Q!TypeOK
  <1> QED BY <1>5 DEF Q!Init, Serving, Arrived, Remembered, Parsing, Reading, Sending,
                      Q!RegistersAsRequested, Q!ReplyAnswersRequest

(* A request as it arrives.                                                 *)
LEMMA ReceiveInv ==
  ASSUME Q!RequestsAssumption, Serving, NEW r \in Requests, Q!Receive(r)
  PROVE  Serving'
  <1> Q!TypeOK
    BY DEF Serving
  <1>1. r \in Seq(Q!Byte) /\ Len(r) \in 2 .. Q!Base - 3
    BY DEF Q!RequestsAssumption, Q!WellFormed
  <1>2. frame_len' = Len(r) + 2 /\ frame_len' \in Q!Byte
    BY <1>1, ByteFacts DEF Q!Receive
  <1>3. rtu_buf' = [k \in Q!Buffer |-> IF k < Len(r) THEN r[k + 1] ELSE rtu_buf[k]]
    BY DEF Q!Receive
  <1>4. rtu_buf' \in [Q!Buffer -> Q!Byte]
    <2>1. ASSUME NEW k \in Q!Buffer PROVE (IF k < Len(r) THEN r[k + 1] ELSE rtu_buf[k]) \in Q!Byte
      <3>1. k \in Nat
        BY ByteFacts
      <3>2. k < Len(r) => k + 1 \in 1 .. Len(r)
        BY <1>1, <3>1
      <3> QED BY <1>1, <3>2 DEF Q!TypeOK
    <2> QED BY <1>3, <2>1
  <1>5. Holds(r)'
    <2>1. ASSUME NEW k \in 1 .. Len(r) PROVE rtu_buf'[k - 1] = r[k]
      <3>1. k - 1 \in Q!Buffer /\ k - 1 < Len(r) /\ (k - 1) + 1 = k
        BY <1>1, ByteFacts
      <3> QED BY <1>3, <3>1
    <2> QED BY <2>1 DEF Holds
  <1>6. received' \in 0 .. MaxRequests
    <2>1. MaxRequests \in Nat
      BY DEF Q!RequestsAssumption
    <2>2. received \in 0 .. MaxRequests
      BY DEF Q!TypeOK
    <2> QED BY <2>1, <2>2 DEF Q!Receive
  <1>7. Q!TypeOK'
    BY <1>2, <1>4, <1>6 DEF Q!Receive, Q!registers, Q!history, Q!TypeOK
  <1>8. Arrived'
    BY <1>2, <1>5 DEF Arrived
  <1>9. phase' = "idle"
    BY DEF Q!Receive
  <1>10. stray' = FALSE
    BY DEF Q!Receive, Serving
  <1> QED BY <1>7, <1>8, <1>9, <1>10 DEF Serving, Remembered, Parsing, Reading, Sending,
                                  Q!RegistersAsRequested, Q!ReplyAnswersRequest

(* A frame is dropped or taken for a request.                               *)
LEMMA CheckFrameInv ==
  ASSUME Q!RequestsAssumption, Serving, Q!CheckFrame
  PROVE  Serving'
  <1> Q!TypeOK
    BY DEF Serving
  <1>3. stray' = FALSE
    BY DEF Q!CheckFrame, Serving
  <1>1. CASE phase' = "idle" /\ frame_len' = 0 /\ UNCHANGED Q!history
    <2>1. Q!TypeOK'
      <3>1. 0 \in Q!Byte
        BY ByteFacts
      <3> QED BY <1>1, <3>1 DEF Q!CheckFrame, Q!history, Q!registers, Q!TypeOK
    <2> QED BY <1>1, <1>3, <2>1 DEF Serving, Arrived, Remembered, Parsing, Reading, Sending,
                              Q!RegistersAsRequested, Q!ReplyAnswersRequest
  <1>2. CASE /\ phase' = "parse" /\ request' = Q!Frame
             /\ before' = holding_regs /\ deviations' = {input_regs[RPM_DEVIATION]} /\ written' = <<>>
             /\ UNCHANGED frame_len
    <2>1. PICK r \in Requests : frame_len = Len(r) + 2 /\ Holds(r)
      BY ByteFacts DEF Q!CheckFrame, Serving, Arrived, Q!TypeOK
    <2>2. r \in Seq(Q!Byte)
      BY <2>1 DEF Q!RequestsAssumption, Q!WellFormed
    <2>3. Q!Frame = r
      <3>1. Q!Frame = [k \in 1 .. Len(r) |-> rtu_buf[k - 1]]
        BY <2>1, <2>2 DEF Q!Frame
      <3>2. \A k \in 1 .. Len(r) : rtu_buf[k - 1] = r[k]
        BY <2>1 DEF Holds
      <3>3. Q!Frame = [k \in 1 .. Len(r) |-> r[k]]
        BY <3>1, <3>2
      <3> QED BY <2>2, <3>3
    <2>4. UNCHANGED <<rtu_buf, Q!registers, item, resp_len, stray, reply, received, events>>
      BY DEF Q!CheckFrame
    <2>5. input_regs[RPM_DEVIATION] \in Q!Word
      BY TableSizes DEF Q!TypeOK
    <2>6. Q!TypeOK'
      BY <1>2, <2>4, <2>5 DEF Q!registers, Q!TypeOK
    <2>7. Holds(request)' /\ request' \in Requests /\ input_regs'[RPM_DEVIATION] \in deviations'
      BY <1>2, <2>1, <2>3, <2>4 DEF Holds, Q!registers
    <2>8. holding_regs' = holding_regs
      BY <2>4 DEF Q!registers
    <2> QED BY <1>2, <1>3, <2>6, <2>7, <2>8 DEF Serving, Arrived, Remembered, Parsing, Reading, Sending,
                                  Q!RegistersAsRequested, Q!ReplyAnswersRequest
  <1> QED BY <1>1, <1>2 DEF Q!CheckFrame

(* The buffer is released.                                                  *)
LEMMA ReleaseInv ==
  ASSUME Q!RequestsAssumption, Serving, Q!Release
  PROVE  Serving'
  <1> Q!TypeOK
    BY DEF Serving
  <1>1. Q!TypeOK'
    <2>1. 0 \in Q!Byte
      BY ByteFacts
    <2> QED BY <2>1 DEF Q!Release, Q!history, Q!registers, Q!TypeOK
  <1> QED BY <1>1 DEF Q!Release, Serving, Arrived, Remembered, Parsing, Reading, Sending,
                      Q!RegistersAsRequested, Q!ReplyAnswersRequest

(* The handler of the request.                                              *)
LEMMA ParseServes ==
  ASSUME Parsed, Q!modbus_parse_frame
  PROVE  \/ Served' /\ item' = item
         \/ Overruns' /\ item' = item
         \/ /\ phase' = "read" /\ item' = 0 /\ rtu_buf' \in [Q!Buffer -> Q!Byte]
            /\ UNCHANGED <<resp_len, holding_regs, stray>>
            /\ ReadSoFar' /\ Q!RegistersAsRequested'
  <1>1. UNCHANGED Others
    BY DEF Q!modbus_parse_frame, Others
  <1>2. \/ Q!WriteMultipleRegs \/ Q!WriteUpgradeData
        \/ /\ \/ Q!ReadDiscreteInputs \/ Q!ReadInputRegs \/ Q!ReadHoldingRegs
              \/ Q!WriteSingleReg \/ Q!RwMultipleRegs \/ Q!MaskWriteReg \/ Q!OtherFunction
           /\ UNCHANGED written
    BY DEF Q!modbus_parse_frame
  <1> QED BY <1>1, <1>2, WriteMultipleServes, UpgradeServes, ReadDiscreteServes, ReadInputStarts,
             ReadHoldingServes, WriteSingleServes, RwServes, MaskWriteServes, OtherServes

(* A request that is served keeps the invariant.                            *)
LEMMA ServedInv ==
  ASSUME Q!RequestsAssumption, Serving, Served', item' \in 0 .. Inputs, phase # "idle",
         UNCHANGED <<frame_len, discrete_inputs, input_regs, upgrading, request, deviations,
                     reply, received, events>>
  PROVE  Serving'
  <1>1. Q!TypeOK'
    BY DEF Serving, Served, Q!TypeOK
  <1>2. phase' = "send" /\ Fits' /\ Q!Answers(Q!Outgoing)' /\ Q!RegistersAsRequested'
    BY DEF Served
  <1>3. Sending'
    BY <1>2 DEF Sending
  <1>4. stray' = FALSE
    BY DEF Served
  <1> QED BY <1>1, <1>2, <1>3, <1>4 DEF Serving, Arrived, Remembered, Parsing, Reading, Q!ReplyAnswersRequest

(* modbus_parse_frame.                                                      *)
LEMMA ParseInv ==
  ASSUME Q!RequestsAssumption, Serving, Q!modbus_parse_frame
  PROVE  RequestsInv'
  <1>1. phase = "parse" /\ Parsed
    BY ParsedRequest DEF Q!modbus_parse_frame
  <1>2. UNCHANGED <<frame_len, discrete_inputs, input_regs, upgrading, request, deviations,
                    reply, received, events>>
    BY DEF Q!modbus_parse_frame
  <1>3. CASE Served' /\ item' = item
    <2>1. item' \in 0 .. Inputs
      BY <1>3 DEF Serving, Q!TypeOK
    <2> QED BY <1>1, <1>2, <1>3, <2>1, ServedInv DEF RequestsInv
  <1>5. CASE Overruns' /\ item' = item
    <2>1. Q!TypeOK'
      BY <1>2, <1>5 DEF Serving, Overruns, Q!TypeOK
    <2> QED BY <1>5, <2>1 DEF RequestsInv, Overrun, Overruns
  <1>4. CASE /\ phase' = "read" /\ item' = 0 /\ rtu_buf' \in [Q!Buffer -> Q!Byte]
             /\ UNCHANGED <<resp_len, holding_regs, stray>>
             /\ ReadSoFar' /\ Q!RegistersAsRequested'
    <2>1. Q!TypeOK'
      BY <1>2, <1>4, TableSizes DEF Serving, Q!TypeOK
    <2>2. Serving'
      BY <1>1, <1>2, <1>4, <2>1 DEF Serving, Arrived, Remembered, Parsing, Reading, Sending,
                                    Q!ReplyAnswersRequest
    <2> QED BY <2>2 DEF RequestsInv
  <1> QED BY <1>1, <1>3, <1>4, <1>5, ParseServes

(* The registers read one by one: one more, and the end.                    *)
LEMMA ReadOneMore ==
  ASSUME Q!RequestsAssumption, Serving, Q!ReadInput, item < Q!Asked(request, 5)
  PROVE  /\ phase' = "read" /\ item' \in 0 .. Inputs /\ rtu_buf' \in [Q!Buffer -> Q!Byte]
         /\ UNCHANGED resp_len
         /\ (stray' = FALSE /\ ReadSoFar') \/ (stray' = TRUE /\ Q!TooLong(request))
  <1> Q!TypeOK /\ ReadSoFar /\ phase = "read" /\ Q!WellFormed(request)
    BY DEF Serving, Q!ReadInput, Reading, Remembered, Q!RequestsAssumption
  <1> DEFINE addr == Q!Asked(request, 3)
             qty == Q!Asked(request, 5)
             v == input_regs[addr + item]
             k == 3 + 2 * item
  <1>1. request[2] = READ_INPUT_REGS /\ Q!InRange(addr, qty, Inputs)
    BY DEF ReadSoFar
  <1>2. request \in Seq(Q!Byte) /\ Len(request) = 6
    BY <1>1 DEF Q!WellFormed
  <1>3. addr \in Nat /\ qty \in Nat
    <2>1. 3 \in 1 .. Len(request) - 1 /\ 5 \in 1 .. Len(request) - 1
      BY <1>2
    <2> QED BY <1>2, <2>1, AskedType
  <1>4. /\ rtu_buf' = Q!Put(rtu_buf, k, Q!BytesOf(v)) /\ item' = item + 1
        /\ stray' = (stray \/ Q!Misses(k, <<0, 0>>)) /\ UNCHANGED <<resp_len, phase>>
    BY DEF Q!ReadInput, Q!Asked
  <1>5. UNCHANGED <<Q!registers, Q!history>>
    BY DEF Q!ReadInput
  <1>6. item \in Nat /\ item < qty
    BY DEF Q!TypeOK
  <1> HIDE DEF addr, qty, v, k
  <1>7. addr + item \in 0 .. Inputs - 1
    <2>1. addr + qty <= Inputs
      BY <1>1 DEF Q!InRange
    <2> QED BY <1>3, <1>6, <2>1, TableSizes
  <1>8. v \in Q!Word
    BY <1>7 DEF v, Q!TypeOK
  <1>9. k \in Nat /\ k >= 3 /\ k <= Q!Base /\ Q!Base \in Nat
    BY <1>6, ByteFacts DEF k, ReadSoFar
  <1>10. stray' = ~(k + 2 <= Q!Base)
    <2>1. Q!Misses(k, <<0, 0>>) = ~(k + 2 <= Q!Base)
      BY <1>9 DEF Q!Misses
    <2>2. stray = FALSE
      BY DEF Serving
    <2> QED BY <1>4, <2>1, <2>2
  <1> DEFINE s == Q!BytesOf(v)
  <1>11. s \in Seq(Q!Byte) /\ Len(s) = 2 /\ s[1] * Q!Base + s[2] = v
    BY <1>8, BytesOfWord
  <1> HIDE DEF s
  <1>12. /\ rtu_buf' \in [Q!Buffer -> Q!Byte]
         /\ \A n \in Q!Buffer : rtu_buf'[n] = IF n - k + 1 \in 1 .. 2 THEN s[n - k + 1] ELSE rtu_buf[n]
    <2>1. rtu_buf \in [Q!Buffer -> Q!Byte]
      BY DEF Q!TypeOK
    <2>2. ASSUME NEW t \in Seq(Q!Byte)
          PROVE  /\ Q!Put(rtu_buf, k, t) \in [Q!Buffer -> Q!Byte]
                 /\ \A n \in Q!Buffer :
                      Q!Put(rtu_buf, k, t)[n] = IF n - k + 1 \in 1 .. Len(t) THEN t[n - k + 1] ELSE rtu_buf[n]
      BY <1>9, <2>1, PutAt
    <2>3. rtu_buf' = Q!Put(rtu_buf, k, s)
      BY <1>4 DEF s
    <2>4. /\ Q!Put(rtu_buf, k, s) \in [Q!Buffer -> Q!Byte]
          /\ \A n \in Q!Buffer :
               Q!Put(rtu_buf, k, s)[n] = IF n - k + 1 \in 1 .. Len(s) THEN s[n - k + 1] ELSE rtu_buf[n]
      BY <1>11, <2>2, Zenon
    <2> QED BY <1>11, <2>3, <2>4
  <1>18. item' \in 0 .. Inputs /\ item' <= qty /\ 0 .. item' - 1 = 0 .. item
    <2>1. addr + qty <= Inputs
      BY <1>1 DEF Q!InRange, addr, qty
    <2> QED BY <1>3, <1>4, <1>6, <2>1, TableSizes
  <1>21. CASE ~(k + 2 <= Q!Base)
    <2>1. /\ Q!Reads(request)
          /\ Q!Deserves(request) = IF addr >= Inputs THEN 2 ELSE IF Q!InRange(addr, qty, Inputs) THEN 0 ELSE 3
      BY <1>1, <1>3, TableSizes, DeservesRead DEF addr, qty
    <2>2. Q!ReplyBytes(request) = 2 * qty
      BY <1>1, CodesDiffer DEF Q!ReplyBytes, qty
    <2>3. Q!InRange(addr, qty, Inputs) /\ ~(addr >= Inputs)
      BY <1>1, <1>3, <1>6, <1>7, TableSizes DEF addr, qty
    <2>4. 2 * qty > Q!Base - 5
      BY <1>3, <1>6, <1>9, <1>21 DEF k
    <2>5. Q!TooLong(request)
      BY <2>1, <2>2, <2>3, <2>4 DEF Q!TooLong
    <2> QED BY <1>4, <1>10, <1>12, <1>18, <1>21, <2>5
  <1> SUFFICES ASSUME k + 2 <= Q!Base PROVE ReadSoFar'
    BY <1>4, <1>10, <1>12, <1>18, <1>21
  <1>13. \A n \in 0 .. k - 1 : rtu_buf'[n] = rtu_buf[n]
    <2>1. ASSUME NEW n \in 0 .. k - 1 PROVE rtu_buf'[n] = rtu_buf[n]
      <3>1. n \in Q!Buffer /\ ~(n - k + 1 \in 1 .. 2)
        BY <1>9, ByteFacts
      <3> QED BY <1>12, <3>1
    <2> QED BY <2>1
  <1>14. rtu_buf'[k] = s[1] /\ rtu_buf'[k + 1] = s[2]
    <2>1. k \in Q!Buffer /\ k + 1 \in Q!Buffer /\ k - k + 1 = 1 /\ (k + 1) - k + 1 = 2
      BY <1>9, ByteFacts
    <2> QED BY <1>12, <2>1
  <1>15. request' = request /\ input_regs' = input_regs /\ holding_regs' = holding_regs
         /\ deviations' = deviations
    BY <1>5 DEF Q!registers, Q!history
  <1>16. ASSUME NEW n \in 0 .. item
         PROVE  Q!WordAt(3 + 2 * n)' \in Q!ValuesOf(addr + n)
    <2>1. CASE n = item
      <3>1. rtu_buf'[3 + 2 * n] * Q!Base + rtu_buf'[(3 + 2 * n) + 1] = v
        BY <1>11, <1>14, <2>1 DEF k
      <3>2. v \in Q!ValuesOf(addr + n)
        BY <1>1, <2>1 DEF Q!ValuesOf, v, Serving, Remembered
      <3> QED BY <3>1, <3>2 DEF Q!WordAt
    <2>2. CASE n # item
      <3>1. n \in 0 .. item - 1 /\ 3 + 2 * n \in 0 .. k - 1 /\ (3 + 2 * n) + 1 \in 0 .. k - 1
        BY <1>6, <2>2 DEF k
      <3>2. Q!WordAt(3 + 2 * n) \in Q!ValuesOf(addr + n)
        BY <3>1 DEF ReadSoFar, addr
      <3>3. Q!WordAt(3 + 2 * n)' = Q!WordAt(3 + 2 * n)
        BY <1>13, <3>1 DEF Q!WordAt
      <3> QED BY <3>2, <3>3
    <2> QED BY <2>1, <2>2
  <1>17. rtu_buf'[0] = request[1] /\ rtu_buf'[1] = request[2] /\ rtu_buf'[2] = (2 * qty) % Q!Base
    <2>1. 0 \in 0 .. k - 1 /\ 1 \in 0 .. k - 1 /\ 2 \in 0 .. k - 1
      BY <1>9
    <2>2. rtu_buf[0] = request[1] /\ rtu_buf[1] = request[2] /\ rtu_buf[2] = (2 * qty) % Q!Base
      BY DEF ReadSoFar, qty
    <2> QED BY <1>13, <2>1, <2>2
  <1>19. \A n \in 0 .. item' - 1 : Q!WordAt(3 + 2 * n)' \in Q!ValuesOf(addr + n)
    BY <1>16, <1>18
  <1>20. 3 + 2 * item' <= Q!Base
    BY <1>4, <1>6 DEF k
  <1> QED BY <1>1, <1>15, <1>17, <1>18, <1>19, <1>20 DEF ReadSoFar, Q!ValuesOf, Q!WordAt, addr, qty

(* All registers have been read: the reply is complete.                     *)
LEMMA ReadingEnds ==
  ASSUME Q!RequestsAssumption, Serving, Q!ReadInput, ~(item < Q!Asked(request, 5))
  PROVE  Served' /\ item' = 0
  <1> Q!TypeOK /\ ReadSoFar /\ phase = "read" /\ Q!WellFormed(request) /\ Q!RegistersAsRequested
    BY DEF Serving, Q!ReadInput, Reading, Remembered, Q!RequestsAssumption
  <1> DEFINE addr == Q!Asked(request, 3)
             qty == Q!Asked(request, 5)
             r == Q!Outgoing'
  <1>1. request[2] = READ_INPUT_REGS /\ Q!InRange(addr, qty, Inputs) /\ item <= qty
    BY DEF ReadSoFar
  <1>2. request \in Seq(Q!Byte) /\ Len(request) = 6
    BY <1>1 DEF Q!WellFormed
  <1>3. addr \in Nat /\ qty \in Nat
    <2>1. 3 \in 1 .. Len(request) - 1 /\ 5 \in 1 .. Len(request) - 1
      BY <1>2
    <2> QED BY <1>2, <2>1, AskedType
  <1>4. Q!Answer(2 * qty + 1) /\ item' = 0 /\ UNCHANGED <<rtu_buf, stray>>
    BY DEF Q!ReadInput, Q!Asked
  <1>5. UNCHANGED <<Q!registers, Q!history>>
    BY DEF Q!ReadInput
  <1>6. item = qty /\ ~(item < qty)
    BY <1>1, <1>3 DEF Q!TypeOK
  <1>7. /\ Q!Reads(request) /\ ~Q!OfFirmware(request)
        /\ Q!Deserves(request) = IF addr >= Inputs THEN 2 ELSE IF Q!InRange(addr, qty, Inputs) THEN 0 ELSE 3
    BY <1>1, <1>3, TableSizes, DeservesRead
  <1> HIDE DEF addr, qty, r
  <1>8. 2 * qty <= Q!Base - 3 /\ addr + qty <= Inputs /\ qty > 0
    <2>1. 3 + 2 * qty <= Q!Base
      BY <1>6 DEF ReadSoFar
    <2> QED BY <1>1, <1>3, <2>1, TableSizes, ByteFacts DEF Q!InRange, addr, qty
  <1>15. Q!Deserves(request) = 0
    BY <1>1, <1>3, <1>7, <1>8, TableSizes
  <1>9. resp_len' = 2 * qty + 1 /\ resp_len' \in Q!Byte /\ Fits' /\ phase' = "send"
    <2>1. 2 * qty + 1 \in Q!Byte
      BY <1>3, <1>8, ByteFacts
    <2>2. resp_len' = 2 * qty + 1 /\ phase' = "send"
      BY <1>4, <2>1, ByteFacts DEF Q!Answer
    <2>3. 2 * qty + 5 <= Q!Base \/ Q!TooLong(request)'
      <3>1. request' = request /\ Q!ReplyBytes(request) = 2 * qty
        BY <1>1, <1>5, CodesDiffer DEF Q!ReplyBytes, Q!history, qty
      <3> QED BY <1>3, <1>7, <1>15, <3>1, ByteFacts DEF Q!TooLong
    <2> QED BY <1>3, <1>8, <2>1, <2>2, <2>3, ByteFacts DEF Fits
  <1>10. r = [n \in 1 .. 2 * qty + 3 |-> rtu_buf[n - 1]]
    <2>1. r = [n \in 1 .. 2 * qty + 3 |-> rtu_buf[(n - 1) % Q!Base]]
      <3>1. resp_len' + 2 = 2 * qty + 3
        BY <1>3, <1>9
      <3>2. rtu_buf' = rtu_buf
        BY <1>4
      <3> DEFINE Of(len, b) == [n \in 1 .. len |-> b[(n - 1) % Q!Base]]
      <3>3. r = Of(resp_len' + 2, rtu_buf')
        BY DEF Q!Outgoing, r
      <3> HIDE DEF r, Of
      <3>4. r = Of(2 * qty + 3, rtu_buf)
        BY <3>1, <3>2, <3>3
      <3> QED BY <3>4 DEF Of
    <2>2. ASSUME NEW n \in 1 .. 2 * qty + 3 PROVE (n - 1) % Q!Base = n - 1
      <3>1. Q!Base \in Nat /\ Q!Byte = 0 .. Q!Base - 1
        BY ByteFacts
      <3>2. n - 1 \in 0 .. Q!Base - 1
        BY <1>3, <1>8, <3>1
      <3> QED BY <3>1, <3>2, ByteFacts
    <2> QED BY <2>1, <2>2
  <1>11. Q!IsHeader(r, 2 * qty) /\ Len(r) = 3 + 2 * qty
    <2>1. rtu_buf[0] = request[1] /\ rtu_buf[1] = request[2] /\ rtu_buf[2] = 2 * qty
      <3>1. 2 * qty \in Q!Byte
        BY <1>3, <1>8, ByteFacts
      <3> QED BY <3>1, ByteFacts DEF ReadSoFar, qty
    <2> QED BY <1>3, <1>10, <2>1 DEF Q!IsHeader
  <1>12. ASSUME NEW n \in 0 .. qty - 1 PROVE Q!Asked(r, 4 + 2 * n) \in Q!ValuesOf(addr + n)
    <2>1. Q!WordAt(3 + 2 * n) \in Q!ValuesOf(addr + n)
      BY <1>6 DEF ReadSoFar, addr
    <2>2. /\ 4 + 2 * n \in 1 .. 2 * qty + 3 /\ (4 + 2 * n) - 1 = 3 + 2 * n
          /\ (4 + 2 * n) + 1 \in 1 .. 2 * qty + 3 /\ ((4 + 2 * n) + 1) - 1 = (3 + 2 * n) + 1
      BY <1>3
    <2>3. r[4 + 2 * n] = rtu_buf[3 + 2 * n] /\ r[(4 + 2 * n) + 1] = rtu_buf[(3 + 2 * n) + 1]
      BY <1>10, <2>2
    <2> QED BY <2>1, <2>3 DEF Q!Asked, Q!WordAt
  <1>13. UNCHANGED <<discrete_inputs, input_regs, holding_regs, upgrading, request, before, deviations>>
    BY <1>5 DEF Q!registers, Q!history
  <1>14. Q!AnswersRead(Q!Outgoing)'
    <2>1. request[2] # READ_DISCRETE_INPUTS
      BY <1>1, CodesDiffer
    <2> QED BY <1>11, <1>12, <1>13, <2>1 DEF Q!AnswersRead, Q!ValuesOf, Q!IsHeader, addr, qty, r
  <1>16. Q!Answers(Q!Outgoing)'
    BY <1>7, <1>13, <1>14, <1>15 DEF Q!Answers
  <1>17. Q!RegistersAsRequested'
    BY <1>13 DEF Serving, Q!RegistersAsRequested
  <1> QED BY <1>4, <1>9, <1>13, <1>16, <1>17 DEF Served, Serving, Q!TypeOK

(* ReadInput.                                                               *)
LEMMA ReadInputInv ==
  ASSUME Q!RequestsAssumption, Serving, Q!ReadInput
  PROVE  RequestsInv'
  <1>1. phase = "read" /\ UNCHANGED <<frame_len, Q!registers, Q!history, reply, received, events>>
    BY DEF Q!ReadInput
  <1>2. UNCHANGED <<frame_len, discrete_inputs, input_regs, upgrading, request, deviations,
                    reply, received, events, holding_regs, before>>
    BY <1>1 DEF Q!registers, Q!history
  <1>3. CASE item < Q!Asked(request, 5)
    <2>1. /\ phase' = "read" /\ item' \in 0 .. Inputs /\ rtu_buf' \in [Q!Buffer -> Q!Byte]
          /\ UNCHANGED resp_len
          /\ (stray' = FALSE /\ ReadSoFar') \/ (stray' = TRUE /\ Q!TooLong(request))
      BY <1>3, ReadOneMore
    <2>2. Q!TypeOK'
      BY <1>2, <2>1 DEF Serving, Q!TypeOK
    <2>3. CASE stray' = TRUE /\ Q!TooLong(request)
      <3>1. Q!TooLong(request)'
        BY <1>2, <2>3
      <3> QED BY <2>2, <2>3, <3>1 DEF RequestsInv, Overrun
    <2>4. CASE stray' = FALSE /\ ReadSoFar'
      <3>1. Q!RegistersAsRequested'
        BY <1>1, <1>2, <2>4 DEF Serving, Q!RegistersAsRequested
      <3>2. Serving'
        BY <1>1, <1>2, <2>1, <2>2, <2>4, <3>1 DEF Serving, Arrived, Remembered, Parsing, Reading, Sending,
                                                  Q!ReplyAnswersRequest
      <3> QED BY <3>2 DEF RequestsInv
    <2> QED BY <2>1, <2>3, <2>4
  <1>4. CASE ~(item < Q!Asked(request, 5))
    <2>1. Served' /\ item' = 0
      BY <1>4, ReadingEnds
    <2>2. item' \in 0 .. Inputs
      BY <2>1, TableSizes
    <2> QED BY <1>1, <1>2, <2>1, <2>2, ServedInv DEF RequestsInv
  <1> QED BY <1>3, <1>4

(* modbus_send_response.                                                    *)
LEMMA SendInv ==
  ASSUME Q!RequestsAssumption, Serving, Q!modbus_send_response
  PROVE  RequestsInv'
  <1> Q!TypeOK /\ phase = "send" /\ phase' = "sent"
    BY DEF Serving, Q!modbus_send_response
  <1>1. UNCHANGED <<frame_len, Q!registers, item, resp_len, Q!history, received, events>> /\ reply' = Q!Outgoing
        /\ rtu_buf' = Q!Put(rtu_buf, resp_len + 2, <<0, 0>>)
        /\ stray' = (stray \/ Q!Misses(resp_len + 2, <<0, 0>>))
    BY DEF Q!modbus_send_response
  <1>2. UNCHANGED <<discrete_inputs, input_regs, holding_regs, upgrading, request, before, deviations, written>>
    BY <1>1 DEF Q!registers, Q!history
  <1>3. Q!Answers(Q!Outgoing) /\ resp_len \in Nat /\ (resp_len + 4 <= Q!Base \/ Q!TooLong(request))
    BY DEF Serving, Sending, Fits
  <1>4. rtu_buf' \in [Q!Buffer -> Q!Byte]
    <2>1. <<0, 0>> \in Seq(Q!Byte)
      <3>1. 0 \in Q!Byte
        BY ByteFacts
      <3> QED BY <3>1
    <2>2. rtu_buf \in [Q!Buffer -> Q!Byte] /\ resp_len + 2 \in Nat
      BY <1>3 DEF Q!TypeOK
    <2> QED BY <1>1, <2>1, <2>2, PutAt, Zenon
  <1>5. stray' = ~(resp_len + 4 <= Q!Base)
    <2>1. Q!Misses(resp_len + 2, <<0, 0>>) = ~(resp_len + 4 <= Q!Base)
      BY <1>3, ByteFacts DEF Q!Misses
    <2>2. stray = FALSE
      BY DEF Serving
    <2> QED BY <1>1, <2>1, <2>2
  <1>6. Q!TypeOK'
    BY <1>1, <1>2, <1>4, <1>5 DEF Q!TypeOK
  <1>7. \A r : Q!Answers(r) => Q!Answers(r)'
    BY <1>2 DEF Q!Answers, Q!AnswersRead, Q!ValuesOf, Q!ConfirmsFirmware, Q!Refusal, Q!Echo, Q!IsHeader
  <1>8. Q!ReplyAnswersRequest'
    BY <1>1, <1>3, <1>7 DEF Q!ReplyAnswersRequest
  <1>9. stray' = FALSE => Q!RegistersAsRequested'
    BY <1>2 DEF Serving, Q!RegistersAsRequested
  <1>10. CASE resp_len + 4 <= Q!Base
    <2>1. Serving'
      BY <1>2, <1>5, <1>6, <1>8, <1>9, <1>10 DEF Serving, Arrived, Remembered, Parsing, Reading, Sending
    <2> QED BY <2>1 DEF RequestsInv
  <1>11. CASE ~(resp_len + 4 <= Q!Base)
    <2>1. Q!TooLong(request)'
      BY <1>2, <1>3, <1>11
    <2> QED BY <1>5, <1>6, <1>11, <2>1 DEF RequestsInv, Overrun
  <1> QED BY <1>10, <1>11

(* A change by the rest of the program is counted.                          *)
LEMMA CountedType == ASSUME Q!RequestsAssumption, Q!TypeOK, Q!Counted PROVE events' \in 0 .. MaxEvents
  <1>1. MaxEvents \in Nat
    BY DEF Q!RequestsAssumption
  <1>2. events \in 0 .. MaxEvents
    BY DEF Q!TypeOK
  <1> QED BY <1>1, <1>2 DEF Q!Counted

(* The interrupt of the tachometer, at any time.                            *)
LEMMA DeviationInv ==
  ASSUME Q!RequestsAssumption, Serving, NEW v \in Words, Q!SetDeviation(v)
  PROVE  Serving'
  <1> Q!TypeOK
    BY DEF Serving
  <1>1. UNCHANGED <<rtu_buf, frame_len, discrete_inputs, holding_regs, upgrading, phase, item, resp_len,
                    stray, request, before, written, reply, received>>
    BY DEF Q!SetDeviation
  <1>2. /\ input_regs' = [input_regs EXCEPT ![RPM_DEVIATION] = v] /\ deviations' = deviations \cup {v}
        /\ v \in Q!Word /\ RPM_DEVIATION \in 0 .. Inputs - 1
    <2>1. v \in Q!Word
      BY DEF Q!RequestsAssumption
    <2>2. RPM_DEVIATION \in 0 .. Inputs - 1
      BY DEF Q!RequestsAssumption
    <2>3. input_regs' = [input_regs EXCEPT ![RPM_DEVIATION] = v] /\ deviations' = deviations \cup {v}
      BY DEF Q!SetDeviation
    <2> QED BY <2>1, <2>2, <2>3, Zenon
  <1>3. events' \in 0 .. MaxEvents
    BY CountedType DEF Q!SetDeviation
  <1>4. input_regs' \in [0 .. Inputs - 1 -> Q!Word] /\ deviations' \subseteq Q!Word
    BY <1>2 DEF Q!TypeOK
  <1>5. Q!TypeOK'
    BY <1>1, <1>3, <1>4 DEF Q!TypeOK
  <1>6. ASSUME NEW n, request[2] # READ_INPUT_REGS \/ n \in 0 .. Inputs - 1
        PROVE  Q!ValuesOf(n) \subseteq
                 IF request[2] # READ_INPUT_REGS THEN {holding_regs[n]}
                 ELSE IF n = RPM_DEVIATION THEN deviations' ELSE {input_regs'[n]}
    <2>1. n \in 0 .. Inputs - 1 /\ n # RPM_DEVIATION => input_regs'[n] = input_regs[n]
      BY <1>2 DEF Q!TypeOK
    <2> QED BY <1>1, <1>2, <1>6, <2>1 DEF Q!ValuesOf
  <1>7. ASSUME NEW r, request \in Requests, Q!Answers(r) PROVE Q!Answers(r)'
    <2>1. CASE Q!OfFirmware(request)
      BY <1>1, <1>7, <2>1 DEF Q!Answers, Q!ConfirmsFirmware, Q!Refusal, Q!Echo
    <2>2. CASE ~Q!OfFirmware(request) /\ Q!Deserves(request) # 0
      BY <1>1, <1>7, <2>2 DEF Q!Answers, Q!Refusal
    <2>3. CASE ~Q!OfFirmware(request) /\ Q!Deserves(request) = 0 /\ ~Q!Reads(request)
      BY <1>1, <1>7, <2>3 DEF Q!Answers, Q!Echo
    <2>4. CASE ~Q!OfFirmware(request) /\ Q!Deserves(request) = 0 /\ Q!Reads(request)
      <3>1. Q!AnswersRead(r)
        BY <1>7, <2>4 DEF Q!Answers
      <3>2. CASE request[2] = READ_DISCRETE_INPUTS
        BY <1>1, <2>4, <3>1, <3>2 DEF Q!Answers, Q!AnswersRead, Q!IsHeader
      <3>3. CASE request[2] # READ_DISCRETE_INPUTS
        <4> DEFINE addr == Q!Asked(request, 3)
                   qty == Q!Asked(request, 5)
        <4>1. /\ Q!IsHeader(r, 2 * qty) /\ Len(r) = 3 + 2 * qty
              /\ \A n \in 0 .. qty - 1 : Q!Asked(r, 4 + 2 * n) \in Q!ValuesOf(addr + n)
          BY <3>1, <3>3 DEF Q!AnswersRead
        <4>2. ASSUME NEW n \in 0 .. qty - 1
              PROVE  request[2] # READ_INPUT_REGS \/ addr + n \in 0 .. Inputs - 1
          <5>1. CASE request[2] = READ_INPUT_REGS
            <6>1. Q!WellFormed(request)
              BY <1>7 DEF Q!RequestsAssumption
            <6>2. request \in Seq(Q!Byte) /\ Len(request) = 6
              BY <5>1, <6>1 DEF Q!WellFormed
            <6>3. 3 \in 1 .. Len(request) - 1 /\ 5 \in 1 .. Len(request) - 1
              BY <6>2
            <6>4. addr \in Nat /\ qty \in Nat
              BY <6>2, <6>3, AskedType
            <6>5. Q!Deserves(request) = IF addr >= Inputs THEN 2 ELSE IF Q!InRange(addr, qty, Inputs) THEN 0 ELSE 3
              BY <5>1, <6>4, TableSizes, DeservesRead
            <6> HIDE DEF addr, qty
            <6>6. addr + qty <= Inputs
              BY <2>4, <6>4, <6>5 DEF Q!InRange
            <6> QED BY <6>4, <6>6, TableSizes
          <5> QED BY <5>1
        <4>3. ASSUME NEW n \in 0 .. qty - 1
              PROVE  Q!Asked(r, 4 + 2 * n) \in
                       IF request[2] # READ_INPUT_REGS THEN {holding_regs[addr + n]}
                       ELSE IF addr + n = RPM_DEVIATION THEN deviations' ELSE {input_regs'[addr + n]}
          <5> HIDE DEF addr, qty
          <5> QED BY <1>6, <4>1, <4>2
        <4>4. Q!AnswersRead(r)'
          BY <1>1, <3>3, <4>1, <4>3 DEF Q!AnswersRead, Q!IsHeader, Q!ValuesOf
        <4> QED BY <1>1, <2>4, <4>4 DEF Q!Answers
      <3> QED BY <3>2, <3>3
    <2> QED BY <2>1, <2>2, <2>3, <2>4
  <1>8. Q!Outgoing' = Q!Outgoing
    BY <1>1 DEF Q!Outgoing
  <1>9. Arrived' /\ Parsing' /\ Q!RegistersAsRequested'
    BY <1>1 DEF Serving, Arrived, Parsing, Holds, Q!RegistersAsRequested
  <1>10. Remembered'
    BY <1>1, <1>2 DEF Serving, Remembered, Q!TypeOK
  <1>11. Sending' /\ Q!ReplyAnswersRequest'
    BY <1>1, <1>7, <1>8 DEF Serving, Sending, Fits, Q!ReplyAnswersRequest, Remembered
  <1>12. Reading'
    <2>1. SUFFICES ASSUME phase = "read" PROVE ReadSoFar'
      BY <1>1 DEF Reading
    <2> DEFINE addr == Q!Asked(request, 3)
               qty == Q!Asked(request, 5)
    <2>2. ReadSoFar /\ request \in Requests
      BY <2>1 DEF Serving, Reading, Remembered
    <2>3. request[2] = READ_INPUT_REGS /\ Q!InRange(addr, qty, Inputs) /\ item <= qty
      BY <2>2 DEF ReadSoFar
    <2>4. addr \in Nat /\ qty \in Nat
      <3>1. request \in Seq(Q!Byte) /\ Len(request) = 6
        BY <2>2, <2>3 DEF Q!RequestsAssumption, Q!WellFormed
      <3>2. 3 \in 1 .. Len(request) - 1 /\ 5 \in 1 .. Len(request) - 1
        BY <3>1
      <3> QED BY <3>1, <3>2, AskedType
    <2>5. ASSUME NEW n \in 0 .. item - 1 PROVE Q!WordAt(3 + 2 * n) \in Q!ValuesOf(addr + n)'
      <3>1. Q!WordAt(3 + 2 * n) \in Q!ValuesOf(addr + n)
        BY <2>2 DEF ReadSoFar
      <3> HIDE DEF addr, qty
      <3>2. addr + n \in 0 .. Inputs - 1
        BY <2>3, <2>4, TableSizes DEF Q!InRange, Q!TypeOK
      <3>3. Q!WordAt(3 + 2 * n) \in
              IF request[2] # READ_INPUT_REGS THEN {holding_regs[addr + n]}
              ELSE IF addr + n = RPM_DEVIATION THEN deviations' ELSE {input_regs'[addr + n]}
        BY <1>6, <3>1, <3>2
      <3> USE DEF addr, qty
      <3> QED BY <1>1, <3>3 DEF Q!ValuesOf
    <2> QED BY <1>1, <2>2, <2>5 DEF ReadSoFar, Q!ValuesOf, Q!WordAt
  <1>13. stray' = FALSE
    BY <1>1 DEF Serving
  <1> QED BY <1>5, <1>9, <1>10, <1>11, <1>12, <1>13 DEF Serving

(* What the main loop publishes between two requests.                       *)
LEMMA PublishInv ==
  ASSUME Q!RequestsAssumption, Serving,
         \/ \E v \in Words, n \in 0 .. Inputs - 2 : Q!PublishPair(n, v)
         \/ \E n \in 0 .. Discretes - 1, b \in Bits : Q!PublishDiscrete(n, b)
  PROVE  Serving'
  <1> Q!TypeOK
    BY DEF Serving
  <1>1. /\ phase = "idle" /\ phase' = "idle" /\ events' \in 0 .. MaxEvents
        /\ UNCHANGED <<rtu_buf, frame_len, holding_regs, upgrading, item, resp_len, stray,
                       Q!history, reply, received>>
        /\ input_regs' \in [0 .. Inputs - 1 -> Q!Word] /\ discrete_inputs' \in [0 .. Discretes - 1 -> {0, 1}]
    <2>1. ASSUME NEW v \in Words, NEW n \in 0 .. Inputs - 2, Q!PublishPair(n, v)
          PROVE  <1>1!:
      <3>1. v \in Q!Word
        BY DEF Q!RequestsAssumption
      <3>2. events' \in 0 .. MaxEvents
        BY <2>1, CountedType DEF Q!PublishPair
      <3>3. n \in 0 .. Inputs - 1 /\ n + 1 \in 0 .. Inputs - 1
        BY TableSizes
      <3> QED BY <2>1, <3>1, <3>2, <3>3 DEF Q!PublishPair, Q!BetweenRequests, Q!TypeOK
    <2>2. ASSUME NEW n \in 0 .. Discretes - 1, NEW b \in Bits, Q!PublishDiscrete(n, b)
          PROVE  <1>1!:
      <3>1. b \in {0, 1}
        BY DEF Q!RequestsAssumption
      <3>2. events' \in 0 .. MaxEvents
        BY <2>2, CountedType DEF Q!PublishDiscrete
      <3> QED BY <2>2, <3>1, <3>2 DEF Q!PublishDiscrete, Q!BetweenRequests, Q!TypeOK
    <2> QED BY <2>1, <2>2
  <1>2. Q!TypeOK'
    BY <1>1 DEF Q!history, Q!TypeOK
  <1>3. Arrived'
    BY <1>1 DEF Serving, Arrived, Holds
  <1> QED BY <1>1, <1>2, <1>3 DEF Serving, Remembered, Parsing, Reading, Sending,
                                  Q!RegistersAsRequested, Q!ReplyAnswersRequest

(* While another part runs.                                                 *)
LEMMA StandInv == ASSUME Serving, UNCHANGED requests PROVE Serving'
  <1>1. Q!TypeOK'
    BY DEF Serving, Q!TypeOK, requests
  <1>2. \A r : Q!Answers(r) => Q!Answers(r)'
    BY DEF Q!Answers, Q!AnswersRead, Q!ValuesOf, Q!ConfirmsFirmware, Q!Refusal, Q!Echo, Q!IsHeader, requests
  <1>3. Q!Outgoing' = Q!Outgoing
    BY DEF Q!Outgoing, requests
  <1>4. Arrived' /\ Remembered' /\ Parsing'
    BY DEF Serving, Arrived, Holds, Remembered, Parsing, requests
  <1>5. Reading'
    BY DEF Serving, Reading, ReadSoFar, Q!ValuesOf, Q!WordAt, requests
  <1>6. Sending' /\ Q!ReplyAnswersRequest'
    BY <1>2, <1>3 DEF Serving, Sending, Fits, Q!ReplyAnswersRequest, requests
  <1>7. Q!RegistersAsRequested'
    BY DEF Serving, Q!RegistersAsRequested, requests
  <1>8. stray' = FALSE
    BY DEF Serving, requests
  <1> QED BY <1>1, <1>4, <1>5, <1>6, <1>7, <1>8 DEF Serving

(* All actions together: after an overrun there is none.                    *)
LEMMA StepRequestsInv == ASSUME Q!RequestsAssumption, RequestsInv, [Q!Next]_requests PROVE RequestsInv'
  <1>1. CASE Serving /\ Q!Next
    BY <1>1, ReceiveInv, CheckFrameInv, ParseInv, ReadInputInv, SendInv, ReleaseInv, DeviationInv, PublishInv,
       Zenon DEF Q!Next, RequestsInv
  <1>2. CASE Serving /\ UNCHANGED requests
    BY <1>2, StandInv DEF RequestsInv
  <1>3. CASE Overrun /\ UNCHANGED requests
    <2>1. Q!TypeOK'
      BY <1>3 DEF Overrun, Q!TypeOK, requests
    <2>2. stray' = TRUE /\ Q!TooLong(request)'
      BY <1>3 DEF Overrun, requests
    <2> QED BY <2>1, <2>2 DEF RequestsInv, Overrun
  <1>4. Overrun => ~Q!Next
    BY DEF Overrun, Q!Next
  <1> QED BY <1>1, <1>2, <1>3, <1>4 DEF RequestsInv

(* The inductive invariant of the requests.                                 *)
LEMMA RequestsHold == ASSUME Q!RequestsAssumption PROVE LinesSpec => []RequestsInv
  <1>1. LinesInit => RequestsInv
    BY InitRequestsInv, Zenon DEF LinesInit, RequestsInv
  <1>2. [LinesNext]_lines => [Q!Next]_requests
    BY Zenon DEF LinesNext, lines
  <1>3. RequestsInv /\ [LinesNext]_lines => RequestsInv'
    BY <1>2, StepRequestsInv, Zenon
  <1> QED BY <1>1, <1>3, PTL DEF LinesSpec

(* The tables, the buffer and the lengths keep their types, whatever is     *)
(* read, for any requests whose length is the one their function and the    *)
(* quantity they write ask for (modbus.c:328-513).                          *)
THEOREM RequestsTypeCorrect == ASSUME Q!RequestsAssumption PROVE LinesSpec => []Q!TypeOK
  <1>1. RequestsInv => Q!TypeOK
    BY Zenon DEF RequestsInv, Serving, Overrun
  <1> QED BY <1>1, RequestsHold, PTL

(* Of such requests only the reads whose reply does not fit rtu_buf make an *)
(* access miss its array (modbus.c:341-355, 380-513).                       *)
THEOREM OnlyLongReadsOverrun ==
  ASSUME Q!RequestsAssumption PROVE LinesSpec => []OverrunOnlyByLongReads
  <1>1. RequestsInv => OverrunOnlyByLongReads
    BY DEF RequestsInv, Serving, Overrun, OverrunOnlyByLongReads, Q!OverrunOnlyByLongReads
  <1> QED BY <1>1, RequestsHold, PTL

(* A request writes the registers it names with the values it carries, and  *)
(* a refused one writes nothing, for any width of a byte, any tables and    *)
(* any such requests, unless the reply overran (modbus.c:433-503).          *)
THEOREM RequestsWriteWhatTheyName ==
  ASSUME Q!RequestsAssumption PROVE LinesSpec => []RegistersAsRequested
  <1>1. RequestsInv => RegistersAsRequested
    BY DEF RequestsInv, Serving, Overrun, RegistersAsRequested, Q!RegistersAsRequested
  <1> QED BY <1>1, RequestsHold, PTL

(* The reply is the one the request deserves, although it is put together   *)
(* in the bytes of the request and an interrupt writes one of the registers *)
(* that are read, and firmware data is confirmed only when it was written,  *)
(* unless the reply overran (modbus.c:380-513).                             *)
THEOREM RequestsAreAnswered ==
  ASSUME Q!RequestsAssumption PROVE LinesSpec => []ReplyAnswersRequest
  <1>1. RequestsInv => ReplyAnswersRequest
    BY DEF RequestsInv, Serving, Overrun, ReplyAnswersRequest, Q!ReplyAnswersRequest
  <1> QED BY <1>1, RequestsHold, PTL
=============================================================================
