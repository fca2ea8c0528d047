---------------------------- MODULE BoundedQueue ----------------------------
(***************************************************************************)
(* What the input buffer of a UART channel promises: a queue of Capacity   *)
(* characters; a character that comes when it is full is lost.             *)
(***************************************************************************)
EXTENDS Naturals, Sequences

CONSTANTS Capacity, Chars

VARIABLES
  queue,    \* the characters received and not yet taken
  lost      \* how many were dropped

Init == queue = <<>> /\ lost = 0

Put(c) == /\ Len(queue) < Capacity
          /\ queue' = Append(queue, c)
          /\ UNCHANGED lost

Drop == /\ Len(queue) = Capacity
        /\ lost' = lost + 1
        /\ UNCHANGED queue

Get == /\ queue # <<>>
       /\ queue' = Tail(queue)
       /\ UNCHANGED lost

Next == Get \/ Drop \/ \E c \in Chars : Put(c)
Spec == Init /\ [][Next]_<<queue, lost>>
=============================================================================
