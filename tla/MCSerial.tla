------------------------------ MODULE MCSerial ------------------------------
(***************************************************************************)
(* What comes in over the serial lines, for TLC: the console's receiver,   *)
(* the baud rate and the requests of MODBUS (SerialLines), and the         *)
(* checksums (Checksums).  None reads the state of another, so a behaviour *)
(* is one of a single part, chosen in the beginning, while the others      *)
(* stand: the sum of the four state spaces and not their product.          *)
(***************************************************************************)
EXTENDS SerialLines

VARIABLES kind, message, field, wrong, pos, crc, verdict
checksums == <<kind, message, field, wrong, pos, crc, verdict>>
allVars == <<lines, checksums>>

(* The usual rates and one that the UART refuses.                           *)
MCRates == {4800, 9600, 19200, 38400, 115200, 1000000}

(* Short messages with the bytes at the edges, any one or two wrong bits,   *)
(* and bursts up to the length of a checksum.                               *)
K == INSTANCE Checksums WITH Messages <- {<< {} >>, << {0}, {7} >>, << 0 .. 7, {}, {1, 4, 6} >>},
       Bursts <- {3, 8, 13, 16}, data <- message

(* Bytes of four bits, so a buffer of 16, and the requests around every     *)
(* boundary of the tables.                                                  *)
Bytes(v) == <<v \div 16, v % 16>>
Reading(f, count, quantities) ==
  {<<1, f>> \o Bytes(a) \o Bytes(q) :
     a \in {0, 1, 3, count - 1, count, 255}, q \in quantities \cup {count + 1, 255}}
Boundaries ==
  (* Five registers are the longest reply that fits, as 125 in the code; of *)
  (* six the CRC does not fit, as of 126, of seven not even the registers.  *)
  Reading(1, 9, 0 .. 9) \cup Reading(2, 7, 0 .. 7) \cup Reading(3, 5, 0 .. 5)
  \cup {<<1, 4>> \o Bytes(a) \o Bytes(v) : a \in {0, 6, 7, 255}, v \in {0, 19}}
  \cup {<<1, 5>> \o Bytes(a) \o Bytes(q) \o <<c>> \o [n \in 1 .. 2 * q |-> 16 - n] :
          a \in {0, 4, 5, 6, 7, 31, 32, 34}, q \in 0 .. 3, c \in {2, 4, 6}}
  \cup {<<1, 6>> \o Bytes(a) \o Bytes(q) \o Bytes(b) \o Bytes(n) \o <<c>> \o [k \in 1 .. 2 * n |-> 7 + k] :
          a \in {0, 2, 3, 7}, q \in {0, 1, 5, 6, 7, 9}, b \in {0, 6, 7}, n \in {0, 1}, c \in {0, 2, 3}}
  \cup {<<1, 7>> \o Bytes(a) \o Bytes(90) \o Bytes(o) : a \in {0, 6, 7}, o \in {0, 165, 255}}
  \cup {<<1, 0>> \o Bytes(0) \o Bytes(1)}
MCRequests == Boundaries                       \* which TLC evaluates once
MCPower == [n \in 0 .. 8 |-> 2^n]
MCStored == {[n \in 0 .. 6 |-> 255 - n - d] : d \in {0, 16}}

ASSUME B!BaudRateAssumption /\ B!SilenceFits
ASSUME K!ChecksumsAssumption /\ Q!RequestsAssumption

AnyInit ==
  /\ part \in {"receiver", "rate", "requests", "checksums"}
  /\ LinesInit /\ (part # "requests" => ~upgrading /\ holding_regs[0] = 255)
  /\ K!Init /\ (part # "checksums" => kind = "frame" /\ message = << {} >> /\ wrong = {})

(* A unit that has answered its requests may stop.                          *)
AnyNext ==
  \/ LinesNext /\ UNCHANGED checksums
  \/ part = "checksums" /\ K!Next /\ UNCHANGED lines

AnySpec == AnyInit /\ [][AnyNext]_allVars /\ LinesFairness
-----------------------------------------------------------------------------
(* The property of the checksums, as they state it.                         *)

(* A checksum accepts what is intact and nothing else (crc.c, modbus.c).    *)
OnlyIntactIsAccepted == K!OnlyIntactIsAccepted
=============================================================================
