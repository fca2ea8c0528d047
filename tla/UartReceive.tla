---------------------------- MODULE UartReceive ----------------------------
(***************************************************************************)
(* The receive path of a UART channel other than MODBUS: the two-level     *)
(* receive buffer of the SERCOM, the interrupt handler of the driver       *)
(* (usart_interrupt.c), the callback that stores the character and asks    *)
(* for the next one (uart.c), the ring buffer (ring_buffer.h), and         *)
(* uart_gets, which empties the ring buffer in a critical section.         *)
(*                                                                         *)
(* Interrupts come between any two steps of uart_gets unless they are      *)
(* masked.  The callback starts the next read job before it returns, so a  *)
(* job is in progress, and its interrupt enabled, whenever the handler is  *)
(* entered.                                                                *)
(***************************************************************************)
EXTENDS Integers, Sequences

CONSTANTS
  Chars, Nul,  \* the characters, and the one of value 0
  RingSize,    \* CFG_UART_RING_SIZE
  MaxLen,      \* the lengths that uart_gets is called with
  MaxSent,     \* bound: characters on the line
  MaxErrors    \* bound: characters received with an error

ASSUME UartAssumption ==
  /\ Nul \in Chars /\ RingSize \in Nat \ {0, 1} /\ MaxLen \subseteq Nat \ {0}
  /\ MaxSent \in Nat /\ MaxErrors \in Nat

Slots == 0 .. RingSize - 1
Errors == {"none", "FERR", "PERR"}
Received == [char : Chars, status : Errors, bad : BOOLEAN]

VARIABLES
  fifo,        \* the receive buffer of the SERCOM
  bufovf,      \* STATUS.BUFOVF
  head, tail, data,    \* the ring buffer
  masked,      \* interrupts are masked
  pc,          \* of uart_gets: "idle", "size", "get", "wrap"
  left,        \* characters that uart_gets has still to take
  lost,        \* history: characters dropped by ring_put
  sent, errors
ring == <<head, tail, data>>
line == <<sent, errors>>
vars == <<fifo, bufovf, ring, masked, pc, left, lost, line>>

TypeOK ==
  /\ fifo \in Seq(Received) /\ Len(fifo) <= 2 /\ bufovf \in BOOLEAN
  /\ head \in Slots /\ tail \in 0 .. RingSize
  /\ data \in [Slots -> Chars]
  /\ masked \in BOOLEAN /\ pc \in {"idle", "size", "get", "wrap"}
  /\ left \in Nat /\ lost \in Nat /\ sent \in Nat /\ errors \in Nat

Init ==
  /\ fifo = <<>> /\ bufovf = FALSE
  /\ head = 0 /\ tail = 0 /\ data = [s \in Slots |-> Nul]
  /\ masked = FALSE /\ pc = "idle" /\ left = 0
  /\ lost = 0 /\ sent = 0 /\ errors = 0
-----------------------------------------------------------------------------
(* The line and the SERCOM.                                                 *)

Arrive(c, e) ==
  /\ sent < MaxSent /\ sent' = sent + 1
  /\ (e = "none" \/ errors < MaxErrors)
  /\ errors' = errors + (IF e = "none" THEN 0 ELSE 1)
  /\ IF Len(fifo) < 2
     THEN /\ fifo' = Append(fifo, [char |-> c, status |-> e, bad |-> e # "none"])
          /\ UNCHANGED bufovf
     ELSE bufovf' = TRUE /\ UNCHANGED fifo
  /\ UNCHANGED <<ring, masked, pc, left, lost>>
-----------------------------------------------------------------------------
(* The interrupt handler: an error is noted and its flag cleared, one at a  *)
(* time, and the character is left in the receive buffer; without error it  *)
(* is read and handed to uart_callback.  A parity error needs a channel     *)
(* with parity in uart_config.                                              *)

Interrupt == ~masked /\ fifo # <<>>

ClearStatus ==
  /\ fifo' = <<[char |-> Head(fifo).char, status |-> "none", bad |-> Head(fifo).bad]>> \o Tail(fifo)
  /\ UNCHANGED bufovf
(* Mutant: the overrun flag is not written back.                            *)
ClearNothing == UNCHANGED <<fifo, bufovf>>
ClearOverflow == bufovf' = FALSE /\ UNCHANGED fifo

OnError ==
  /\ Interrupt /\ (bufovf \/ Head(fifo).status # "none")
  /\ \/ Head(fifo).status = "FERR" /\ ClearStatus
     \/ Head(fifo).status # "FERR" /\ bufovf /\ ClearOverflow
     \/ Head(fifo).status = "PERR" /\ ~bufovf /\ ClearStatus
  /\ UNCHANGED <<ring, masked, pc, left, lost, line>>

ring_put(c) ==
  IF (head + 1) % RingSize # tail
  THEN /\ data' = [data EXCEPT ![head] = c]
       /\ head' = (head + 1) % RingSize
       /\ UNCHANGED lost
  ELSE lost' = lost + 1 /\ UNCHANGED <<head, data>>

uart_callback ==
  /\ Interrupt /\ ~bufovf /\ Head(fifo).status = "none"
  /\ ring_put(Head(fifo).char)
  /\ fifo' = Tail(fifo)
  /\ UNCHANGED <<bufovf, tail, masked, pc, left, line>>
-----------------------------------------------------------------------------
(* uart_gets and ring_get_buf, one step per access to the shared indexes.   *)

(* Mutant: interrupts are not masked.                                       *)
EnterUnmasked(n) ==
  /\ pc = "idle" /\ pc' = "size" /\ masked' = FALSE /\ left' = n
  /\ UNCHANGED <<fifo, bufovf, ring, lost, line>>
EnterCriticalSection(n) ==
  /\ pc = "idle" /\ pc' = "size" /\ masked' = TRUE /\ left' = n
  /\ UNCHANGED <<fifo, bufovf, ring, lost, line>>

ring_size == IF head < tail THEN RingSize - tail + head ELSE head - tail

TakeSize ==
  /\ pc = "size" /\ pc' = "get"
  /\ left' = IF ring_size < left THEN ring_size ELSE left
  /\ UNCHANGED <<fifo, bufovf, ring, masked, lost, line>>

ring_get ==
  /\ pc = "get" /\ left > 0
  /\ tail' = IF head # tail THEN tail + 1 ELSE tail
  /\ pc' = "wrap"
  /\ UNCHANGED <<fifo, bufovf, head, data, masked, left, lost, line>>

Wrap ==
  /\ pc = "wrap" /\ pc' = "get"
  /\ tail' = tail % RingSize /\ left' = left - 1
  /\ UNCHANGED <<fifo, bufovf, head, data, masked, lost, line>>

LeaveCriticalSection ==
  /\ pc = "get" /\ left = 0 /\ pc' = "idle" /\ masked' = FALSE
  /\ UNCHANGED <<fifo, bufovf, ring, left, lost, line>>

uart_gets ==
  \/ \E n \in MaxLen : EnterCriticalSection(n)
  \/ TakeSize \/ ring_get \/ Wrap \/ LeaveCriticalSection
-----------------------------------------------------------------------------
Next ==
  \/ \E c \in Chars, e \in Errors : Arrive(c, e)
  \/ OnError \/ uart_callback \/ uart_gets
Spec == Init /\ [][Next]_vars

(* The main loop polls the console again and again, and a pending interrupt *)
(* is taken before the main loop comes to it once more: the critical        *)
(* sections do not follow each other without a gap.                         *)
FairSpec == Spec /\ WF_vars(uart_gets) /\ SF_vars(OnError) /\ SF_vars(uart_callback)
-----------------------------------------------------------------------------
(* Properties *)

(* The characters in the ring buffer, oldest first.  Between tail++ and     *)
(* tail %= size the tail may be one past the last slot.                     *)
Slot(i) == IF tail + i - 1 < RingSize THEN tail + i - 1 ELSE tail + i - 1 - RingSize
Length == IF head < tail THEN RingSize - tail + head ELSE head - tail
Contents == [i \in 1 .. Length |-> data[Slot(i)]]

(* The ring buffer is a queue of RingSize - 1 characters, whatever          *)
(* interrupts come while uart_gets empties it: nothing is lost but what     *)
(* comes when it is full, nothing is taken twice or out of order            *)
(* (ring_buffer.h, uart.c:101-111).                                         *)
Queue == INSTANCE BoundedQueue WITH queue <- Contents, Capacity <- RingSize - 1
ImplementsQueue == Queue!Spec

(* A character received in error, or an overrun, does not stop the channel: *)
(* whatever is in the SERCOM is handed on (usart_interrupt.c:540-576 clears *)
(* one flag and leaves the character for the next interrupt).               *)
ReceiverNeverStops == fifo # <<>> ~> fifo = <<>>
=============================================================================
