------------------------------ MODULE UsartTx -------------------------------
(***************************************************************************)
(* The sending half of mcc_generated_files/src/usart2.c: USART2_Write() in *)
(* the main loop fills a ring buffer and enables the data-register-empty   *)
(* interrupt, whose ISR sends the bytes and disables it again when the     *)
(* buffer is empty.  Unlike the receiving half this one uses every slot:   *)
(* only the element count tells full from empty.                           *)
(***************************************************************************)
EXTENDS Usart

CONSTANT TxSize  \* USART2_TX_BUFFER_SIZE, a power of 2

ASSUME TxRingAssumption == TxSize \in Nat /\ TxSize > 1 /\ TxSize < 256

VARIABLES
  txbuf, tx_head, tx_tail, tx_elements,  \* USART2_txbuf, ...
  dreie,     \* the DREIE bit of USART2.CTRLA
  tx_pc,     \* the next step of USART2_Write()
  tx_data,   \* its argument
  tx_count,  \* tx_elements as loaded by the main loop
  txdata     \* USART2.TXDATAL: the byte sent last

txVars == <<txbuf, tx_head, tx_tail, tx_elements, dreie, irq, tx_pc, tx_data,
            tx_count, txdata>>

TxSlots == 0..TxSize-1

\* (i + 1) & USART2_TX_BUFFER_MASK
TxSucc(i) == (i + 1) % TxSize

TxInit == /\ txbuf = [i \in TxSlots |-> 0]
          /\ tx_head = 0 /\ tx_tail = 0 /\ tx_elements = 0
          /\ dreie = FALSE
          /\ irq = TRUE
          /\ tx_pc = "idle"
          /\ tx_data = 0
          /\ tx_count = 0
          /\ txdata = 0

\* Mutant: the interrupt is disabled after every byte.
TxIsrDisarms ==
  /\ irq /\ dreie
  /\ IF tx_elements # 0
       THEN /\ tx_tail' = TxSucc(tx_tail)
            /\ txdata' = txbuf[TxSucc(tx_tail)]
            /\ tx_elements' = tx_elements - 1
       ELSE UNCHANGED <<tx_tail, txdata, tx_elements>>
  /\ dreie' = FALSE
  /\ UNCHANGED <<txbuf, tx_head, irq, tx_pc, tx_data, tx_count>>

\* USART2_DefaultTxIsrCb(), when the transmitter can take a byte.
TxIsr ==
  /\ irq /\ dreie
  /\ IF tx_elements # 0
       THEN /\ tx_tail' = TxSucc(tx_tail)
            /\ txdata' = txbuf[TxSucc(tx_tail)]
            /\ tx_elements' = tx_elements - 1
       ELSE UNCHANGED <<tx_tail, txdata, tx_elements>>
  /\ dreie' = (tx_elements' # 0)
  /\ UNCHANGED <<txbuf, tx_head, irq, tx_pc, tx_data, tx_count>>

WriteCall(d) ==
  /\ tx_pc = "idle"
  /\ tx_data' = d
  /\ tx_pc' = "wait"
  /\ UNCHANGED <<txbuf, tx_head, tx_tail, tx_elements, dreie, irq, tx_count,
                 txdata>>

\* Mutant: no wait for a free slot.
WriteWaitNot ==
  /\ tx_pc = "wait"
  /\ tx_pc' = "put"
  /\ UNCHANGED <<txbuf, tx_head, tx_tail, tx_elements, dreie, irq, tx_data,
                 tx_count, txdata>>

\* The end of the busy wait for a free slot.
WriteWait ==
  /\ tx_pc = "wait" /\ tx_elements # TxSize
  /\ tx_pc' = "put"
  /\ UNCHANGED <<txbuf, tx_head, tx_tail, tx_elements, dreie, irq, tx_data,
                 tx_count, txdata>>

\* Mutant: the slot before the new head is filled.
WritePutOldHead ==
  /\ tx_pc = "put"
  /\ txbuf' = [txbuf EXCEPT ![tx_head] = tx_data]
  /\ tx_data' = 0
  /\ tx_pc' = "head"
  /\ UNCHANGED <<tx_head, tx_tail, tx_elements, dreie, irq, tx_count, txdata>>

WritePut ==
  /\ tx_pc = "put"
  /\ txbuf' = [txbuf EXCEPT ![TxSucc(tx_head)] = tx_data]
  /\ tx_data' = 0
  /\ tx_pc' = "head"
  /\ UNCHANGED <<tx_head, tx_tail, tx_elements, dreie, irq, tx_count, txdata>>

WriteHead ==
  /\ tx_pc = "head"
  /\ tx_head' = TxSucc(tx_head)
  /\ tx_pc' = "enter"
  /\ UNCHANGED <<txbuf, tx_tail, tx_elements, dreie, irq, tx_data, tx_count,
                 txdata>>

\* Mutant: interrupts stay enabled while the count is updated.
WriteEnterCriticalOpen ==
  /\ tx_pc = "enter"
  /\ tx_pc' = "load"
  /\ UNCHANGED <<txbuf, tx_head, tx_tail, tx_elements, dreie, irq, tx_data,
                 tx_count, txdata>>

WriteEnterCritical ==
  /\ tx_pc = "enter"
  /\ irq' = FALSE
  /\ tx_pc' = "load"
  /\ UNCHANGED <<txbuf, tx_head, tx_tail, tx_elements, dreie, tx_data,
                 tx_count, txdata>>

\* tx_elements++ is a load ...
WriteLoad ==
  /\ tx_pc = "load"
  /\ tx_count' = tx_elements
  /\ tx_pc' = "store"
  /\ UNCHANGED <<txbuf, tx_head, tx_tail, tx_elements, dreie, irq, tx_data,
                 txdata>>

\* Mutant: interrupts are not enabled again.
WriteStoreStaysCritical ==
  /\ tx_pc = "store"
  /\ tx_elements' = (tx_count + 1) % 256
  /\ tx_count' = 0
  /\ tx_pc' = "arm"
  /\ UNCHANGED <<txbuf, tx_head, tx_tail, dreie, irq, tx_data, txdata>>

\* ... and a store, after which the register is free for something else (0
\* here); EXIT_CRITICAL restores the interrupt flag.
WriteStore ==
  /\ tx_pc = "store"
  /\ tx_elements' = (tx_count + 1) % 256
  /\ tx_count' = 0
  /\ irq' = TRUE
  /\ tx_pc' = "arm"
  /\ UNCHANGED <<txbuf, tx_head, tx_tail, dreie, tx_data, txdata>>

\* Mutant: the interrupt is not enabled.
WriteArmNot ==
  /\ tx_pc = "arm"
  /\ tx_pc' = "idle"
  /\ UNCHANGED <<txbuf, tx_head, tx_tail, tx_elements, dreie, irq, tx_data,
                 tx_count, txdata>>

\* CTRLA |= DREIE, outside the critical section.  The ISR may clear the bit
\* between its load and its store; the store sets it whatever was loaded.
WriteArm ==
  /\ tx_pc = "arm"
  /\ dreie' = TRUE
  /\ tx_pc' = "idle"
  /\ UNCHANGED <<txbuf, tx_head, tx_tail, tx_elements, irq, tx_data, tx_count,
                 txdata>>

\* What is left of USART2_Write() once it has been called.
WriteStep == WriteWait \/ WritePut \/ WriteHead \/ WriteEnterCritical
               \/ WriteLoad \/ WriteStore \/ WriteArm

USART2_Write == (\E d \in Byte : WriteCall(d)) \/ WriteStep

TxNext == TxIsr \/ USART2_Write

TxSpec == TxInit /\ [][TxNext]_txVars

\* The transmitter goes on sending, and the main loop does nothing else while
\* it is in USART2_Write(); nothing obliges it to call it.
TxFairSpec == TxSpec /\ WF_txVars(TxIsr) /\ WF_txVars(WriteStep)
-----------------------------------------------------------------------------
TxTypeOK ==
  /\ txbuf \in [TxSlots -> Byte]
  /\ tx_head \in TxSlots /\ tx_tail \in TxSlots
  /\ tx_elements \in 0..TxSize
  /\ dreie \in BOOLEAN /\ irq \in BOOLEAN
  /\ tx_pc \in {"idle", "wait", "put", "head", "enter", "load", "store", "arm"}
  /\ tx_data \in Byte
  /\ tx_count \in 0..TxSize
  /\ txdata \in Byte

\* The slot i places after the tail.
TxSlot(i) == IF tx_tail + i < TxSize THEN tx_tail + i ELSE tx_tail + i - TxSize

\* The head has moved but the byte is not counted yet.
PutNotCounted == tx_pc \in {"enter", "load", "store"}

\* The element count, which two contexts update, agrees with the indices,
\* which one context each owns; the slot about to be filled is not one that
\* still has to be sent.
TxCountMatchesIndices ==
  /\ tx_head = TxSlot(tx_elements + (IF PutNotCounted THEN 1 ELSE 0))
  /\ tx_pc \in {"put", "head", "enter", "load", "store"} => tx_elements < TxSize

\* No update of the count is lost: the ISR has not changed it between the
\* main loop's load and the store of the value computed from it.
TxLosesNoUpdate == tx_pc = "store" => tx_count = tx_elements

\* No byte is stranded: whenever there is one to send the interrupt that sends
\* it is enabled, or USART2_Write() is about to enable it.
Armed == tx_elements # 0 => dreie \/ tx_pc = "arm"

TxFifo == INSTANCE ByteFifo WITH
  Capacity <- TxSize,
  q <- [i \in 1..tx_elements |-> txbuf[TxSlot(i)]],
  taken <- txdata,
  refused <- FALSE

\* The ring buffer is a FIFO of TxSize bytes that never loses one: each byte
\* written is sent once, in order, none is overwritten before it is sent.
TxIsFifo == TxFifo!Spec

\* USART2_Write() never blocks for ever on a full buffer ...
WriteReturns == tx_pc = "wait" ~> tx_pc = "idle"

\* ... and once nothing more is written everything is sent.
Drained == <>[](tx_pc = "idle") => <>[](tx_elements = 0)
=============================================================================
