------------------------------- MODULE MCFan -------------------------------
(* Fan for TLC: a duty of 0 to 3, bytes of 0 to 7, jiffies modulo 13.       *)
EXTENDS Fan

(* A fast one; one beyond every range, whose request is 1 as a byte, with   *)
(* another frequency and slow periods; one that is switched off.            *)
MCSettings ==
  {[unit |-> 1, request |-> 2, preconfig |-> 3, min |-> 1, max |-> 3,
    delay |-> 0, dead |-> 0, frequency |-> 1],
   [unit |-> 1, request |-> 9, preconfig |-> 6, min |-> 0, max |-> 7,
    delay |-> 1, dead |-> 1, frequency |-> 2],
   [unit |-> 0, request |-> 2, preconfig |-> 3, min |-> 1, max |-> 3,
    delay |-> 0, dead |-> 1, frequency |-> 1]}
=============================================================================
