------------------------------- MODULE Usart --------------------------------
(***************************************************************************)
(* What the two halves of mcc_generated_files/src/usart2.c share.          *)
(***************************************************************************)
EXTENDS Naturals, Sequences

CONSTANT Byte  \* the values of a byte

ASSUME ByteAssumption == 0 \in Byte

VARIABLE irq  \* the global interrupt flag of SREG
=============================================================================
