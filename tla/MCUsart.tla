------------------------------ MODULE MCUsart -------------------------------
(***************************************************************************)
(* Both halves of usart2.c as they run together: one main loop, which is   *)
(* in USART2_Read() or in USART2_Write() but never in both, one interrupt  *)
(* flag, and the two ISRs.  A critical section of one half therefore also  *)
(* holds up the ISR of the other.                                          *)
(***************************************************************************)
EXTENDS UsartRx, UsartTx

rxOwn == <<rxbuf, rx_head, rx_tail, rx_elements, pc, count, returned, refused>>
txOwn == <<txbuf, tx_head, tx_tail, tx_elements, dreie, tx_pc, tx_data,
           tx_count, txdata>>
allVars == <<vars, txOwn>>

Receive == (\E data \in Byte : RxIsr(data)) /\ UNCHANGED txOwn
Transmit == TxIsr /\ UNCHANGED rxOwn

\* The main loop reads when it is not writing, and the other way round.
Read == tx_pc = "idle" /\ USART2_Read /\ UNCHANGED txOwn
Write == pc = "wait" /\ USART2_Write /\ UNCHANGED rxOwn
WriteGoesOn == pc = "wait" /\ WriteStep /\ UNCHANGED rxOwn

MCInit == Init /\ TxInit
MCNext == Receive \/ Transmit \/ Read \/ Write

MCSpec == MCInit /\ [][MCNext]_allVars

\* The main loop always comes back to USART2_Read() and does nothing else
\* while it is in USART2_Write(); an interrupt that is pending is taken when
\* interrupts are enabled again.
MCFairSpec == /\ MCSpec
              /\ SF_allVars(Read)
              /\ WF_allVars(WriteGoesOn)
              /\ SF_allVars(Transmit)
=============================================================================
