------------------------------ MODULE UsartRx -------------------------------
(***************************************************************************)
(* The receiving half of mcc_generated_files/src/usart2.c: the RX ISR      *)
(* stores arriving bytes in a ring buffer, USART2_Read() in the main loop  *)
(* takes them out.  The ISR runs to completion but may run between any two *)
(* steps of the main loop, except while interrupts are disabled.           *)
(***************************************************************************)
EXTENDS Usart

CONSTANT Size  \* USART2_RX_BUFFER_SIZE, a power of 2

ASSUME RingAssumption == Size \in Nat /\ Size > 1 /\ Size < 256

VARIABLES
  rxbuf, rx_head, rx_tail, rx_elements,  \* USART2_rxbuf, ...
  pc,        \* the next step of USART2_Read()
  count,     \* rx_elements as loaded by the main loop
  returned,  \* the value last returned by USART2_Read()
  refused    \* history: the byte that arrived last was dropped

vars == <<rxbuf, rx_head, rx_tail, rx_elements, irq, pc, count, returned,
          refused>>

Slots == 0..Size-1

\* (i + 1) & USART2_RX_BUFFER_MASK
Succ(i) == (i + 1) % Size

Init == /\ rxbuf = [i \in Slots |-> 0]
        /\ rx_head = 0 /\ rx_tail = 0 /\ rx_elements = 0
        /\ irq = TRUE
        /\ pc = "wait"
        /\ count = 0
        /\ returned = 0
        /\ refused = FALSE

\* Mutant: no check for a full buffer.
RxIsrNoFullCheck(data) ==
  /\ irq
  /\ rx_head' = Succ(rx_head)
  /\ rxbuf' = [rxbuf EXCEPT ![Succ(rx_head)] = data]
  /\ rx_elements' = (rx_elements + 1) % 256
  /\ refused' = FALSE
  /\ UNCHANGED <<rx_tail, irq, pc, count, returned>>

\* Mutant: the slot before the new head is filled.
RxIsrOldHead(data) ==
  /\ irq
  /\ IF Succ(rx_head) = rx_tail
       THEN /\ refused' = TRUE
            /\ UNCHANGED <<rxbuf, rx_head, rx_elements>>
       ELSE /\ rx_head' = Succ(rx_head)
            /\ rxbuf' = [rxbuf EXCEPT ![rx_head] = data]
            /\ rx_elements' = (rx_elements + 1) % 256
            /\ refused' = FALSE
  /\ UNCHANGED <<rx_tail, irq, pc, count, returned>>

\* USART2_DefaultRxIsrCb(): one slot stays free to tell full from empty.
RxIsr(data) ==
  /\ irq
  /\ IF Succ(rx_head) = rx_tail
       THEN /\ refused' = TRUE
            /\ UNCHANGED <<rxbuf, rx_head, rx_elements>>
       ELSE /\ rx_head' = Succ(rx_head)
            /\ rxbuf' = [rxbuf EXCEPT ![Succ(rx_head)] = data]
            /\ rx_elements' = (rx_elements + 1) % 256
            /\ refused' = FALSE
  /\ UNCHANGED <<rx_tail, irq, pc, count, returned>>

\* Mutant: the last byte is not waited for.
ReadAdvanceOffByOne ==
  /\ pc = "wait" /\ rx_elements > 1
  /\ rx_tail' = Succ(rx_tail)
  /\ pc' = "enter"
  /\ UNCHANGED <<rxbuf, rx_head, rx_elements, irq, count, returned, refused>>

\* The end of the busy wait, and the new tail stored.
ReadAdvance ==
  /\ pc = "wait" /\ rx_elements # 0
  /\ rx_tail' = Succ(rx_tail)
  /\ pc' = "enter"
  /\ UNCHANGED <<rxbuf, rx_head, rx_elements, irq, count, returned, refused>>

\* Mutant: interrupts stay enabled while the count is updated.
ReadEnterCriticalOpen ==
  /\ pc = "enter"
  /\ pc' = "load"
  /\ UNCHANGED <<rxbuf, rx_head, rx_tail, rx_elements, irq, count, returned,
                 refused>>

ReadEnterCritical ==
  /\ pc = "enter"
  /\ irq' = FALSE
  /\ pc' = "load"
  /\ UNCHANGED <<rxbuf, rx_head, rx_tail, rx_elements, count, returned,
                 refused>>

\* rx_elements-- is a load ...
ReadLoad ==
  /\ pc = "load"
  /\ count' = rx_elements
  /\ pc' = "store"
  /\ UNCHANGED <<rxbuf, rx_head, rx_tail, rx_elements, irq, returned, refused>>

\* Mutant: interrupts are not enabled again.
ReadStoreStaysCritical ==
  /\ pc = "store"
  /\ rx_elements' = (count + 255) % 256
  /\ count' = 0
  /\ pc' = "fetch"
  /\ UNCHANGED <<rxbuf, rx_head, rx_tail, irq, returned, refused>>

\* ... and a store, after which the register is free for something else (0
\* here); EXIT_CRITICAL restores the interrupt flag.
ReadStore ==
  /\ pc = "store"
  /\ rx_elements' = (count + 255) % 256
  /\ count' = 0
  /\ irq' = TRUE
  /\ pc' = "fetch"
  /\ UNCHANGED <<rxbuf, rx_head, rx_tail, returned, refused>>

\* The byte is read from the buffer after interrupts are enabled again.
ReadFetch ==
  /\ pc = "fetch"
  /\ returned' = rxbuf[rx_tail]
  /\ pc' = "wait"
  /\ UNCHANGED <<rxbuf, rx_head, rx_tail, rx_elements, irq, count, refused>>

USART2_Read == ReadAdvance \/ ReadEnterCritical \/ ReadLoad \/ ReadStore
                 \/ ReadFetch

Next == (\E data \in Byte : RxIsr(data)) \/ USART2_Read

Spec == Init /\ [][Next]_vars

\* The main loop keeps running: it always comes back to USART2_Read().
FairSpec == Spec /\ WF_vars(USART2_Read)
-----------------------------------------------------------------------------
TypeOK ==
  /\ rxbuf \in [Slots -> Byte]
  /\ rx_head \in Slots /\ rx_tail \in Slots
  /\ rx_elements \in 0..Size
  /\ irq \in BOOLEAN
  /\ pc \in {"wait", "enter", "load", "store", "fetch"}
  /\ count \in 0..Size
  /\ returned \in Byte
  /\ refused \in BOOLEAN

\* The bytes between tail and head.
Stored == IF rx_tail <= rx_head THEN rx_head - rx_tail
                                ELSE rx_head + Size - rx_tail

\* The tail has moved but the byte is still counted.
TakenNotCounted == pc \in {"enter", "load", "store"}

\* The element count, which two contexts update, agrees with the indices,
\* which one context each owns: the main loop neither starves with bytes in
\* the buffer nor reads from an empty one.
CountMatchesIndices ==
  rx_elements = Stored + (IF TakenNotCounted THEN 1 ELSE 0)

\* No update of the count is lost: the ISR has not changed it between the
\* main loop's load and the store of the value computed from it.
NoLostUpdate == pc = "store" => count = rx_elements

\* The slot of the i-th byte in the buffer.
Slot(i) == IF rx_tail + i < Size THEN rx_tail + i ELSE rx_tail + i - Size

Fifo == INSTANCE ByteFifo WITH
  Capacity <- Size - 1,
  q <- [i \in 1..Stored |-> rxbuf[Slot(i)]],
  taken <- IF pc = "wait" THEN returned ELSE rxbuf[rx_tail]

\* The ring buffer is a FIFO of Size - 1 bytes.  In particular the ISR never
\* overwrites the byte that USART2_Read() has taken and is about to return.
ImplementsFifo == Fifo!Spec

\* No byte stays in the buffer for ever.
EveryByteIsRead == rx_elements # 0 ~> pc = "fetch"
=============================================================================
