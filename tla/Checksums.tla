----------------------------- MODULE Checksums -----------------------------
(***************************************************************************)
(* The checksums and the three checks made with them: of a MODBUS frame    *)
(* (modbus.c), of an uploaded image (upgrade.c) and of the saved           *)
(* environment (env.c).  The other modules take these checks as ideal;     *)
(* here data and checksum are bits, some of which may be wrong.            *)
(*                                                                         *)
(* A byte or a word is the set of the positions of its bits that are 1, so *)
(* that XOR is the symmetric difference.                                   *)
(***************************************************************************)
EXTENDS Integers, Sequences, FiniteSetsExt, SequencesExt

CONSTANTS
  Messages,    \* sequences of bytes
  Bursts       \* lengths of the bursts of wrong bits

Byte == 0 .. 7
Ones == 0 .. 15                  \* 0xFFFF

ChecksumsAssumption == Messages \subseteq Seq(SUBSET Byte) /\ Bursts \subseteq Nat

Xor(a, b) == (a \ b) \cup (b \ a)
-----------------------------------------------------------------------------
(* Reference: division of polynomials over the field of two elements, a     *)
(* polynomial being the set of its exponents, and what a sender computes.   *)

Times(p, n) == {e + n : e \in p}
Modulo(p, divisor) ==
  LET top == Max(p \cup {15})
      rem[d \in 15 .. top] ==        \* p after its exponents above d are taken away
        IF d = top THEN p
        ELSE LET r == rem[d + 1] IN IF d + 1 \in r THEN Xor(r, Times(divisor, d - 15)) ELSE r
  IN  rem[15]

(* The bits of a message in the order of their arrival: a byte begins with  *)
(* its lowest bit on the MODBUS line, with its highest in memory.           *)
Stream(k, bytes) ==
  LET n == 8 * Len(bytes)
  IN  UNION {{n - 8 * i + (IF k = "frame" THEN 7 - b ELSE b) : b \in bytes[i]}
             : i \in DOMAIN bytes}
Divisor(k) == IF k = "frame" THEN {16, 15, 2, 0} ELSE {16, 12, 5, 0}
Start(k) == IF k = "env" THEN {} ELSE Ones
Mirrored(word) == {15 - b : b \in word}

(* The checksum of so many bytes; a frame's comes with 16 zeros appended,   *)
(* its register is mirrored.                                                *)
Reference(k, bytes) ==
  LET n == 8 * Len(bytes)
      p == IF k = "frame" THEN Xor(Times(Stream(k, bytes), 16), Times(Ones, n))
           ELSE Xor(Stream(k, bytes), Times(Start(k), n))
      r == Modulo(p, Divisor(k))
  IN  IF k = "frame" THEN Mirrored(r) ELSE r
SentChecksum(k, bytes) ==
  Reference(k, IF k = "image" THEN bytes \o << {}, {} >> ELSE bytes)
-----------------------------------------------------------------------------
VARIABLES
  kind,        \* "frame", "image", "env"
  data, field, \* the bytes and the checksum that arrived
  wrong,       \* the bits of both that are wrong
  pos, crc,    \* bytes done, their checksum
  verdict      \* "none", "accepted", "refused"
vars == <<kind, data, field, wrong, pos, crc, verdict>>

(* The bits of an environment's checksum arrive right: it is not augmented, *)
(* so that a wrong bit of it can cancel one of the last two bytes.          *)
Init ==
  /\ kind \in {"frame", "image", "env"}
  /\ \E message \in Messages :
       LET bits == 8 * Len(message)
           last == IF kind = "env" THEN bits ELSE bits + 16
           sent == SentChecksum(kind, message)
       IN  /\ wrong \in
                {{}} \cup {{a, b} : a, b \in 1 .. last}
                     \cup {a .. a + n - 1 : a \in 1 .. last, n \in Bursts}
           /\ wrong \subseteq 1 .. last
           /\ data = [i \in DOMAIN message |->
                        Xor(message[i], {b \in Byte : 8 * (i - 1) + b + 1 \in wrong})]
           /\ field = Xor(sent, {b \in Ones : bits + b + 1 \in wrong})
  /\ pos = 0 /\ crc = Start(kind) /\ verdict = "none"

TypeOK ==
  /\ pos \in 0 .. Len(data) + 2
  /\ crc \subseteq Ones
  /\ verdict \in {"none", "accepted", "refused"}
-----------------------------------------------------------------------------
ShiftRight(word) == {b - 1 : b \in word \ {0}}

ShiftLeft(word) == {b + 1 : b \in word \ {15}}

(* One byte of modbus_crc16.                                                *)
ModbusByte(word, c) ==
  LET r[i \in 0 .. 8] ==
        IF i = 0 THEN Xor(word, c)
        ELSE LET old == r[i - 1]
             IN  IF 0 \in old THEN Xor(ShiftRight(old), {15, 13, 0}) ELSE ShiftRight(old)
  IN  r[8]

(* One byte of crc16 with the polynomial 0x1021.                            *)
GenericByte(word, c) ==
  LET r[i \in 0 .. 8] ==
        IF i = 0 THEN word
        ELSE LET old == r[i - 1]
                 next == ShiftLeft(old) \cup (IF 8 - i \in c THEN {0} ELSE {})
             IN  IF 15 \in old THEN Xor(next, {12, 5, 0}) ELSE next
  IN  r[8]

(* Mutant: the checksum of an image is not augmented.                       *)
BytesNotAugmented == data
Bytes == IF kind = "image" THEN data \o << {}, {} >> ELSE data

NextByte ==
  /\ verdict = "none" /\ pos < Len(Bytes) /\ pos' = pos + 1
  /\ crc' = IF kind = "frame" THEN ModbusByte(crc, Bytes[pos + 1])
            ELSE GenericByte(crc, Bytes[pos + 1])
  /\ UNCHANGED <<kind, data, field, wrong, verdict>>

Compare ==
  /\ verdict = "none" /\ pos = Len(Bytes)
  /\ verdict' = IF crc = field THEN "accepted" ELSE "refused"
  /\ UNCHANGED <<kind, data, field, wrong, pos, crc>>

Next == NextByte \/ Compare
Spec == Init /\ [][Next]_vars
-----------------------------------------------------------------------------
(* Properties *)

(* A frame, an image or an environment is accepted exactly if no bit of it  *)
(* is wrong, for any two bits and for bursts (modbus.c:368-375,             *)
(* upgrade.c:125-153, env.c:62-66).                                         *)
OnlyIntactIsAccepted == verdict # "none" => ((verdict = "accepted") = (wrong = {}))
=============================================================================
