------------------------------ MODULE ByteFifo ------------------------------
(***************************************************************************)
(* What a ring buffer between an interrupt handler and the main loop       *)
(* promises: a FIFO of at most Capacity bytes that loses a byte only when  *)
(* it is full.                                                             *)
(***************************************************************************)
EXTENDS Naturals, Sequences

CONSTANTS Byte, Capacity

VARIABLES q,        \* the bytes in the buffer, oldest first
          taken,    \* the byte taken out last
          refused   \* whether the byte that arrived last was dropped

fifo == <<q, taken, refused>>

Init == q = <<>> /\ taken \in Byte /\ refused = FALSE

Put(d) == /\ Len(q) < Capacity
          /\ q' = Append(q, d)
          /\ refused' = FALSE
          /\ taken' = taken

Refuse == /\ Len(q) = Capacity
          /\ refused' = TRUE
          /\ UNCHANGED <<q, taken>>

Take == /\ q # <<>>
        /\ taken' = Head(q)
        /\ q' = Tail(q)
        /\ refused' = refused

Next == (\E d \in Byte : Put(d)) \/ Refuse \/ Take

Spec == Init /\ [][Next]_fifo
=============================================================================
