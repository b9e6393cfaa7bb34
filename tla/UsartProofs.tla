---------------------------- MODULE UsartProofs -----------------------------
(***************************************************************************)
(* Proofs about usart2.c for every size of its two ring buffers: in each   *)
(* half the element count agrees with the indices, whatever the            *)
(* interleaving of the ISR and the main loop; no byte to send is stranded  *)
(* with its interrupt disabled; and each ring implements ByteFifo.  First  *)
(* for each half by itself, and then for both as they run together, under  *)
(* one interrupt flag that either critical section clears and sets.        *)
(***************************************************************************)
EXTENDS MCUsart, SequenceTheorems, TLAPS

\* The mask wraps the last slot to the first.
LEMMA SuccWraps ==
  ASSUME NEW i \in Slots
  PROVE  Succ(i) = IF i + 1 = Size THEN 0 ELSE i + 1
BY RingAssumption DEF Succ, Slots

\* Interrupts are off from ENTER_CRITICAL to EXIT_CRITICAL, so that the ISR
\* cannot come between the load and the store of the count.
RxCritical == (irq => pc \notin {"load", "store"}) /\ NoLostUpdate

\* TypeOK, the agreement of count and indices, and the exclusion of the ISR
\* from the critical section are inductive together: the count fits because
\* it equals a distance of indices, and the store of the decremented count
\* keeps the agreement because the ISR has not run since the load.
RxInv == TypeOK /\ CountMatchesIndices /\ RxCritical

\* The invariant holds initially: the buffer is empty, interrupts are on.
LEMMA InitRxInv == Init => RxInv
<1> SUFFICES ASSUME Init PROVE RxInv
  OBVIOUS
<1>1. 0 \in Slots /\ [i \in Slots |-> 0] \in [Slots -> Byte]
  BY ByteAssumption, RingAssumption DEF Slots
<1>2. 0 \in 0..Size
  BY RingAssumption
<1>3. TypeOK
  BY <1>1, <1>2, ByteAssumption, Zenon DEF Init, TypeOK
<1>4. CountMatchesIndices
  BY DEF Init, CountMatchesIndices, Stored, TakenNotCounted
<1>5. RxCritical
  BY Zenon DEF Init, RxCritical, NoLostUpdate
<1> QED BY <1>3, <1>4, <1>5 DEF RxInv

\* The distance of the indices leaves one slot free.
LEMMA StoredBound ==
  ASSUME TypeOK
  PROVE  Stored \in 0..Size-1
BY RingAssumption DEF TypeOK, Stored, Slots

\* The ISR preserves the invariant.
LEMMA RxIsrInv ==
  ASSUME RxInv, NEW data \in Byte, RxIsr(data)
  PROVE  RxInv'
<1> USE RingAssumption
<1>1. /\ rx_head \in Slots /\ rx_tail \in Slots /\ rx_elements \in 0..Size
      /\ Succ(rx_head) = IF rx_head + 1 = Size THEN 0 ELSE rx_head + 1
  BY SuccWraps DEF RxInv, TypeOK
<1>2. CASE Succ(rx_head) = rx_tail
  BY <1>2
  DEF RxIsr, RxInv, TypeOK, CountMatchesIndices, RxCritical, NoLostUpdate,
      Stored, TakenNotCounted
<1>3. CASE Succ(rx_head) # rx_tail
  <2>1. Succ(rx_head) \in Slots
    BY <1>1 DEF Slots
  <2>2. Stored' = Stored + 1 /\ Stored' \in 0..Size-1
    BY <1>1, <1>3 DEF RxIsr, Stored, Slots
  <2>3. rx_elements = Stored + (IF TakenNotCounted THEN 1 ELSE 0)
    BY DEF RxInv, CountMatchesIndices
  <2>4. rx_elements + 1 \in 0..Size
    BY <1>1, <2>2, <2>3, StoredBound DEF RxInv
  <2>5. rx_elements' = rx_elements + 1
    BY <1>3, <2>4 DEF RxIsr
  <2>6. TakenNotCounted' = TakenNotCounted
    BY DEF RxIsr, TakenNotCounted
  <2>7. CountMatchesIndices'
    BY <2>2, <2>3, <2>5, <2>6, StoredBound DEF CountMatchesIndices, RxInv
  <2>8. TypeOK'
    BY <1>3, <2>1, <2>4, <2>5 DEF RxIsr, RxInv, TypeOK
  <2>9. RxCritical'
    BY DEF RxIsr, RxInv, TypeOK, RxCritical, NoLostUpdate
  <2> QED BY <2>7, <2>8, <2>9 DEF RxInv
<1> QED BY <1>2, <1>3

\* Each step of USART2_Read() preserves the invariant.
LEMMA ReadInv ==
  ASSUME RxInv, USART2_Read
  PROVE  RxInv'
<1> USE RingAssumption
<1>1. CASE ReadAdvance
  <2>1. Stored > 0
    BY <1>1
    DEF ReadAdvance, RxInv, CountMatchesIndices, TakenNotCounted, TypeOK,
        Stored, Slots
  <2>2. Succ(rx_tail) = IF rx_tail + 1 = Size THEN 0 ELSE rx_tail + 1
    BY SuccWraps DEF RxInv, TypeOK
  <2>3. Stored' = Stored - 1 /\ rx_tail' \in Slots
    BY <1>1, <2>1, <2>2 DEF ReadAdvance, RxInv, TypeOK, Stored, Slots
  <2>4. CountMatchesIndices'
    BY <1>1, <2>3, StoredBound
    DEF ReadAdvance, RxInv, CountMatchesIndices, TakenNotCounted
  <2>5. TypeOK' /\ RxCritical'
    BY <1>1, <2>3 DEF ReadAdvance, RxInv, TypeOK, RxCritical, NoLostUpdate
  <2> QED BY <2>4, <2>5 DEF RxInv
<1>2. CASE ReadEnterCritical
  BY <1>2
  DEF ReadEnterCritical, RxInv, TypeOK, CountMatchesIndices, RxCritical,
      NoLostUpdate, Stored, TakenNotCounted
<1>3. CASE ReadLoad
  BY <1>3
  DEF ReadLoad, RxInv, TypeOK, CountMatchesIndices, RxCritical,
      NoLostUpdate, Stored, TakenNotCounted
<1>4. CASE ReadStore
  <2>1. count = rx_elements /\ rx_elements = Stored + 1
    BY <1>4
    DEF ReadStore, RxInv, RxCritical, NoLostUpdate, CountMatchesIndices,
        TakenNotCounted
  <2>2. count \in 1..Size
    BY <2>1, StoredBound DEF RxInv
  <2>3. rx_elements' = count - 1
    BY <1>4, <2>2 DEF ReadStore
  <2>4. Stored' = Stored
    BY <1>4 DEF ReadStore, Stored
  <2>5. CountMatchesIndices'
    BY <1>4, <2>1, <2>3, <2>4, StoredBound
    DEF ReadStore, CountMatchesIndices, TakenNotCounted, RxInv
  <2>6. TypeOK'
    BY <1>4, <2>2, <2>3 DEF ReadStore, RxInv, TypeOK
  <2>7. RxCritical'
    BY <1>4 DEF ReadStore, RxCritical, NoLostUpdate
  <2> QED BY <2>5, <2>6, <2>7 DEF RxInv
<1>5. CASE ReadFetch
  BY <1>5
  DEF ReadFetch, RxInv, TypeOK, CountMatchesIndices, RxCritical,
      NoLostUpdate, Stored, TakenNotCounted
<1> QED BY <1>1, <1>2, <1>3, <1>4, <1>5 DEF USART2_Read

\* The invariant holds in every reachable state.
LEMMA RxInvariance == Spec => []RxInv
<1>1. RxInv /\ [Next]_vars => RxInv'
  <2> SUFFICES ASSUME RxInv, [Next]_vars PROVE RxInv'
    OBVIOUS
  <2>1. CASE \E data \in Byte : RxIsr(data)
    BY <2>1, RxIsrInv
  <2>2. CASE USART2_Read
    BY <2>2, ReadInv
  <2>3. CASE UNCHANGED vars
    BY <2>3
    DEF vars, RxInv, TypeOK, CountMatchesIndices, RxCritical, NoLostUpdate,
        Stored, TakenNotCounted
  <2> QED BY <2>1, <2>2, <2>3 DEF Next
<1> QED BY InitRxInv, <1>1, PTL DEF Spec

\* No index leaves the ring and the element count never passes its size.
THEOREM RxTypeCorrect == Spec => []TypeOK
<1>1. RxInv => TypeOK
  BY DEF RxInv
<1> QED BY <1>1, RxInvariance, PTL

\* The element count never drifts from the indices.
THEOREM RxCountMatches == Spec => []CountMatchesIndices
<1>1. RxInv => CountMatchesIndices
  BY DEF RxInv
<1> QED BY <1>1, RxInvariance, PTL

\* The ISR does not change the count between its load and its store.
THEOREM RxNoLostUpdate == Spec => []NoLostUpdate
<1>1. RxInv => NoLostUpdate
  BY DEF RxInv, RxCritical
<1> QED BY <1>1, RxInvariance, PTL
-----------------------------------------------------------------------------
(* The ring buffer implements ByteFifo.                                    *)

RxContents == [i \in 1..Stored |-> rxbuf[Slot(i)]]

\* The contents of the ring buffer are a sequence of Stored bytes.
LEMMA RxContentsType ==
  ASSUME TypeOK
  PROVE  RxContents \in Seq(Byte) /\ Len(RxContents) = Stored
<1>1. Stored \in Nat
  BY StoredBound, RingAssumption
<1>2. \A i \in 1..Stored : rxbuf[Slot(i)] \in Byte
  BY StoredBound, RingAssumption DEF TypeOK, Slot, Slots
<1> QED BY <1>1, <1>2 DEF RxContents

\* A byte that arrives is appended, or refused when the FIFO is full.
LEMMA RxIsrRefines ==
  ASSUME RxInv, NEW data \in Byte, RxIsr(data)
  PROVE  Fifo!Put(data) \/ Fifo!Refuse
<1> USE RingAssumption
<1>1. /\ rx_head \in Slots /\ rx_tail \in Slots
      /\ Succ(rx_head) = IF rx_head + 1 = Size THEN 0 ELSE rx_head + 1
      /\ rxbuf \in [Slots -> Byte]
      /\ Stored \in 0..Size-1
      /\ RxContents \in Seq(Byte) /\ Len(RxContents) = Stored
  BY SuccWraps, StoredBound, RxContentsType DEF RxInv, TypeOK
<1>2. CASE Succ(rx_head) = rx_tail
  <2>1. Stored = Size - 1
    BY <1>1, <1>2 DEF Stored, Slots
  <2>2. Fifo!Refuse
    BY <1>1, <1>2, <2>1 DEF RxIsr, Fifo!Refuse, RxContents, Stored, Slot
  <2> QED BY <2>2
<1>3. CASE Succ(rx_head) # rx_tail
  <2>1. Stored < Size - 1 /\ Stored' = Stored + 1
    BY <1>1, <1>3 DEF RxIsr, Stored, Slots
  <2>2. Slot(Stored + 1) = Succ(rx_head)
    BY <1>1, <2>1 DEF Slot, Stored, Slots
  <2>3. \A i \in 1..Stored :
          Slot(i) \in Slots /\ Slot(i) # Succ(rx_head)
    BY <1>1, <1>3 DEF Slot, Stored, Slots
  <2>4. rxbuf' = [rxbuf EXCEPT ![Succ(rx_head)] = data] /\ rx_tail' = rx_tail
    BY <1>3 DEF RxIsr
  <2>5. \A i : Slot(i)' = Slot(i)
    BY <2>4 DEF Slot
  <2>6. RxContents' = Append(RxContents, data)
    <3>1. RxContents' = [i \in 1..Stored + 1 |-> rxbuf'[Slot(i)]]
      BY <2>1, <2>5 DEF RxContents
    <3>2. \A i \in 1..Stored : rxbuf'[Slot(i)] = rxbuf[Slot(i)]
      BY <1>1, <2>3, <2>4
    <3>3. rxbuf'[Slot(Stored + 1)] = data
      BY <1>1, <2>2, <2>4 DEF Slots
    <3>4. \A i \in 1..Stored + 1 :
            RxContents'[i] = IF i = Stored + 1 THEN data ELSE rxbuf[Slot(i)]
      BY <1>1, <3>1, <3>2, <3>3
    <3>5. RxContents' \in Seq(Byte) /\ Len(RxContents') = Stored + 1
      <4>1. \A i \in 1..Stored + 1 : rxbuf'[Slot(i)] \in Byte
        BY <1>1, <2>3, <3>2, <3>3
      <4> QED BY <1>1, <3>1, <4>1
    <3>6. \A i \in 1..Stored : RxContents[i] = rxbuf[Slot(i)]
      BY DEF RxContents
    <3> HIDE DEF RxContents
    <3>7. /\ Append(RxContents, data) \in Seq(Byte)
          /\ Len(Append(RxContents, data)) = Stored + 1
          /\ \A i \in 1..Stored : Append(RxContents, data)[i] = RxContents[i]
          /\ Append(RxContents, data)[Stored + 1] = data
      BY <1>1, AppendProperties
    <3>8. \A i \in 1..Stored + 1 : RxContents'[i] = Append(RxContents, data)[i]
      BY <1>1, <3>4, <3>6, <3>7
    <3> QED BY <3>5, <3>7, <3>8, SeqEqual
  <2>7. rxbuf'[rx_tail] = rxbuf[rx_tail]
    BY <1>1, <1>3, <2>4
  <2>8. /\ refused' = FALSE /\ pc' = pc /\ returned' = returned
        /\ rx_tail' = rx_tail
    BY <1>3 DEF RxIsr
  <2>9. Fifo!Put(data)
    BY <1>1, <2>1, <2>6, <2>7, <2>8 DEF Fifo!Put, RxContents
  <2> QED BY <2>9
<1> QED BY <1>2, <1>3

\* The byte leaves the FIFO when the tail moves; the other steps of
\* USART2_Read() change nothing, although the byte is fetched last.
LEMMA ReadRefines ==
  ASSUME RxInv, USART2_Read
  PROVE  Fifo!Take \/ UNCHANGED Fifo!fifo
<1> USE RingAssumption
<1>1. CASE ReadAdvance
  <2>1. /\ rx_head \in Slots /\ rx_tail \in Slots
        /\ Succ(rx_tail) = IF rx_tail + 1 = Size THEN 0 ELSE rx_tail + 1
        /\ RxContents \in Seq(Byte) /\ Len(RxContents) = Stored
        /\ Stored \in 0..Size-1
    BY SuccWraps, StoredBound, RxContentsType DEF RxInv, TypeOK
  <2>2. Stored > 0
    BY <1>1, <2>1
    DEF ReadAdvance, RxInv, CountMatchesIndices, TakenNotCounted
  <2>3. /\ rx_tail' = Succ(rx_tail) /\ rxbuf' = rxbuf /\ rx_head' = rx_head
        /\ pc = "wait" /\ pc' = "enter" /\ refused' = refused
    BY <1>1 DEF ReadAdvance
  <2>4. Stored' = Stored - 1
    BY <2>1, <2>2, <2>3 DEF Stored, Slots
  <2>5. \A i \in 1..Stored - 1 : Slot(i)' = Slot(i + 1)
    BY <2>1, <2>3 DEF Slot, Slots
  <2>6. Slot(1) = rx_tail'
    BY <2>1, <2>3 DEF Slot, Slots
  <2>7. RxContents' = Tail(RxContents)
    <3>1. RxContents' = [i \in 1..Stored - 1 |-> rxbuf[Slot(i + 1)]]
      BY <2>3, <2>4, <2>5 DEF RxContents
    <3>2. /\ Tail(RxContents) \in Seq(Byte)
          /\ Len(Tail(RxContents)) = Stored - 1
          /\ \A i \in 1..Stored - 1 : Tail(RxContents)[i] = RxContents[i + 1]
      <4>1. RxContents # <<>>
        BY <2>1, <2>2
      <4> QED BY <2>1, <4>1, HeadTailProperties
    <3>3. \A i \in 1..Stored - 1 : RxContents[i + 1] = rxbuf[Slot(i + 1)]
      BY <2>1 DEF RxContents
    <3>4. \A i \in 1..Stored - 1 : RxContents'[i] = Tail(RxContents)[i]
      BY <3>1, <3>2, <3>3
    <3>5. \A i \in 1..Stored - 1 : rxbuf[Slot(i + 1)] \in Byte
      BY <2>1, RingAssumption DEF Slot, Slots, RxInv, TypeOK
    <3>6. RxContents' \in Seq(Byte) /\ Len(RxContents') = Stored - 1
      BY <2>1, <2>2, <3>1, <3>5
    <3> QED BY <3>2, <3>4, <3>6, SeqEqual
  <2>8. Head(RxContents) = rxbuf[rx_tail']
    BY <2>1, <2>2, <2>6 DEF RxContents
  <2>9. RxContents # <<>>
    BY <2>1, <2>2
  <2>10. Fifo!Take
    BY <2>3, <2>7, <2>8, <2>9 DEF Fifo!Take, RxContents
  <2> QED BY <2>10
<1>2. CASE ReadEnterCritical \/ ReadLoad \/ ReadStore \/ ReadFetch
  BY <1>2
  DEF ReadEnterCritical, ReadLoad, ReadStore, ReadFetch, Fifo!fifo, Stored,
      Slot
<1> QED BY <1>1, <1>2 DEF USART2_Read

\* The receive ring buffer is a FIFO of Size - 1 bytes.
THEOREM RxImplementsFifo == Spec => ImplementsFifo
<1>1. Init => Fifo!Init
  BY ByteAssumption, RingAssumption DEF Init, Fifo!Init, Stored, Slots
<1>2. RxInv /\ [Next]_vars => [Fifo!Next]_(Fifo!fifo)
  <2> SUFFICES ASSUME RxInv, [Next]_vars
               PROVE  [Fifo!Next]_(Fifo!fifo)
    OBVIOUS
  <2>1. CASE \E data \in Byte : RxIsr(data)
    BY <2>1, RxIsrRefines DEF Fifo!Next
  <2>2. CASE USART2_Read
    BY <2>2, ReadRefines DEF Fifo!Next
  <2>3. CASE UNCHANGED vars
    BY <2>3 DEF vars, Fifo!fifo, Stored, Slot
  <2> QED BY <2>1, <2>2, <2>3 DEF Next
<1> QED BY <1>1, <1>2, RxInvariance, PTL DEF Spec, Fifo!Spec, ImplementsFifo
-----------------------------------------------------------------------------
(* The sending half.                                                       *)

\* The mask wraps the last slot to the first.
LEMMA TxSuccWraps ==
  ASSUME NEW i \in TxSlots
  PROVE  TxSucc(i) = IF i + 1 = TxSize THEN 0 ELSE i + 1
BY TxRingAssumption DEF TxSucc, TxSlots

\* The slots at distance 1 .. Size from the tail are all the slots, once each,
\* and the successor of one is the next.
LEMMA TxSlotArithmetic ==
  ASSUME tx_tail \in TxSlots
  PROVE  /\ \A i \in 0..TxSize : TxSlot(i) \in TxSlots
         /\ \A i \in 0..TxSize-1 : TxSlot(i + 1) = TxSucc(TxSlot(i))
         /\ \A i, j \in 1..TxSize : TxSlot(i) = TxSlot(j) => i = j
         /\ TxSlot(0) = tx_tail
<1> USE TxRingAssumption
<1>1. \A i \in 0..TxSize : TxSlot(i) \in TxSlots
  BY DEF TxSlot, TxSlots
<1>2. \A i \in 0..TxSize-1 : TxSlot(i + 1) = TxSucc(TxSlot(i))
  <2> TAKE i \in 0..TxSize-1
  <2>1. TxSlot(i) \in TxSlots /\ TxSucc(TxSlot(i)) =
          IF TxSlot(i) + 1 = TxSize THEN 0 ELSE TxSlot(i) + 1
    BY <1>1, TxSuccWraps
  <2> QED BY <2>1 DEF TxSlot, TxSlots
<1>3. \A i, j \in 1..TxSize : TxSlot(i) = TxSlot(j) => i = j
  BY DEF TxSlot, TxSlots
<1>4. TxSlot(0) = tx_tail
  BY DEF TxSlot, TxSlots
<1> QED BY <1>1, <1>2, <1>3, <1>4

\* The same for the other ISR and its count.
TxCritical == (irq => tx_pc \notin {"load", "store"}) /\ TxLosesNoUpdate

\* The inductive invariant.  TxCountMatchesIndices needs TxCritical, which
\* says that the stored count is the current one plus one; Armed needs nothing
\* but the types: the ISR disables itself only with a count of 0.
TxInv == TxTypeOK /\ TxCountMatchesIndices /\ TxCritical /\ Armed

\* The invariant holds initially: nothing to send, interrupts are on.
LEMMA InitTxInv == TxInit => TxInv
<1> SUFFICES ASSUME TxInit PROVE TxInv
  OBVIOUS
<1>1. 0 \in TxSlots /\ [i \in TxSlots |-> 0] \in [TxSlots -> Byte]
  BY ByteAssumption, TxRingAssumption DEF TxSlots
<1>2. 0 \in 0..TxSize
  BY TxRingAssumption
<1>3. TxTypeOK
  BY <1>1, <1>2, ByteAssumption, Zenon DEF TxInit, TxTypeOK
<1>4. TxCountMatchesIndices
  BY TxRingAssumption DEF TxInit, TxCountMatchesIndices, PutNotCounted, TxSlot
<1>5. TxCritical /\ Armed
  BY Zenon DEF TxInit, TxCritical, TxLosesNoUpdate, Armed
<1> QED BY <1>3, <1>4, <1>5 DEF TxInv

\* The ISR preserves the invariant.
LEMMA TxIsrInv ==
  ASSUME TxInv, TxIsr
  PROVE  TxInv'
<1> USE TxRingAssumption
<1>1. /\ tx_tail \in TxSlots /\ tx_head \in TxSlots /\ tx_elements \in 0..TxSize
      /\ txbuf \in [TxSlots -> Byte]
  BY DEF TxInv, TxTypeOK
<1>2. CASE tx_elements = 0
  <2>1. TxCountMatchesIndices'
    BY <1>2
    DEF TxIsr, TxInv, TxCountMatchesIndices, PutNotCounted, TxSlot
  <2>2. TxTypeOK'
    BY <1>2 DEF TxIsr, TxInv, TxTypeOK
  <2>3. TxCritical' /\ Armed'
    BY <1>2 DEF TxIsr, TxInv, TxCritical, TxLosesNoUpdate, Armed
  <2> QED BY <2>1, <2>2, <2>3 DEF TxInv
<1>3. CASE tx_elements # 0
  <2>1. tx_tail' = TxSucc(tx_tail) /\ tx_elements' = tx_elements - 1
        /\ txdata' = txbuf[TxSucc(tx_tail)]
        /\ tx_head' = tx_head /\ tx_pc' = tx_pc
    BY <1>3 DEF TxIsr
  <2>2. TxSucc(tx_tail) = IF tx_tail + 1 = TxSize THEN 0 ELSE tx_tail + 1
    BY <1>1, TxSuccWraps
  <2>3. TxSucc(tx_tail) \in TxSlots /\ tx_elements' \in 0..TxSize
    BY <1>1, <1>3, <2>1, <2>2 DEF TxSlots
  <2>4. PutNotCounted' = PutNotCounted
    BY <2>1 DEF PutNotCounted
  <2>5. TxCountMatchesIndices'
    <3>1. CASE PutNotCounted
      BY <1>1, <1>3, <2>1, <2>2, <2>4, <3>1
      DEF TxInv, TxCountMatchesIndices, TxSlot, TxSlots
    <3>2. CASE ~PutNotCounted
      BY <1>1, <1>3, <2>1, <2>2, <2>4, <3>2
      DEF TxInv, TxCountMatchesIndices, TxSlot, TxSlots
    <3> QED BY <3>1, <3>2
  <2>6. TxTypeOK'
    <3>1. dreie' \in BOOLEAN
      BY DEF TxIsr
    <3> QED BY <1>1, <2>1, <2>3, <3>1 DEF TxIsr, TxInv, TxTypeOK
  <2>7. TxCritical'
    BY DEF TxIsr, TxInv, TxCritical, TxLosesNoUpdate
  <2>8. Armed'
    BY DEF TxIsr, Armed
  <2> QED BY <2>5, <2>6, <2>7, <2>8 DEF TxInv
<1> QED BY <1>2, <1>3

\* Each step of USART2_Write() preserves the invariant.
LEMMA WriteInv ==
  ASSUME TxInv, USART2_Write
  PROVE  TxInv'
<1> USE TxRingAssumption
<1>1. ASSUME NEW d \in Byte, WriteCall(d)
      PROVE  TxInv'
  BY <1>1
  DEF WriteCall, TxInv, TxTypeOK, TxCountMatchesIndices, TxCritical,
      TxLosesNoUpdate, Armed, PutNotCounted, TxSlot
<1>2. CASE WriteWait
  BY <1>2
  DEF WriteWait, TxInv, TxTypeOK, TxCountMatchesIndices, TxCritical,
      TxLosesNoUpdate, Armed, PutNotCounted, TxSlot
<1>3. CASE WritePut
  <2>1. TxSucc(tx_head) \in TxSlots
    BY TxSuccWraps DEF TxInv, TxTypeOK, TxSlots
  <2>2. TxTypeOK'
    BY <1>3, <2>1, ByteAssumption DEF WritePut, TxInv, TxTypeOK
  <2>3. TxCountMatchesIndices' /\ TxCritical' /\ Armed'
    BY <1>3
    DEF WritePut, TxInv, TxCountMatchesIndices, TxCritical, TxLosesNoUpdate,
        Armed, PutNotCounted, TxSlot
  <2> QED BY <2>2, <2>3 DEF TxInv
<1>4. CASE WriteHead
  <2>1. /\ tx_elements \in 0..TxSize-1
        /\ tx_head = TxSlot(tx_elements + 0)
    BY <1>4 DEF WriteHead, TxInv, TxTypeOK, TxCountMatchesIndices, PutNotCounted
  <2>2. tx_head' = TxSlot(tx_elements + 1) /\ tx_head' \in TxSlots
    BY <1>4, <2>1, TxSlotArithmetic DEF WriteHead, TxInv, TxTypeOK
  <2>3. TxCountMatchesIndices'
    BY <1>4, <2>1, <2>2
    DEF WriteHead, TxCountMatchesIndices, PutNotCounted, TxSlot
  <2>4. TxTypeOK'
    BY <1>4, <2>2 DEF WriteHead, TxInv, TxTypeOK
  <2>5. TxCritical' /\ Armed'
    BY <1>4 DEF WriteHead, TxInv, TxCritical, TxLosesNoUpdate, Armed
  <2> QED BY <2>3, <2>4, <2>5 DEF TxInv
<1>5. CASE WriteEnterCritical
  BY <1>5
  DEF WriteEnterCritical, TxInv, TxTypeOK, TxCountMatchesIndices,
      TxCritical,
      TxLosesNoUpdate, Armed, PutNotCounted, TxSlot
<1>6. CASE WriteLoad
  BY <1>6
  DEF WriteLoad, TxInv, TxTypeOK, TxCountMatchesIndices, TxCritical,
      TxLosesNoUpdate, Armed, PutNotCounted, TxSlot
<1>7. CASE WriteStore
  <2>1. tx_count = tx_elements /\ tx_elements \in 0..TxSize-1
    BY <1>7
    DEF WriteStore, TxInv, TxTypeOK, TxCritical, TxLosesNoUpdate,
        TxCountMatchesIndices
  <2>2. tx_elements' = tx_elements + 1
    BY <1>7, <2>1 DEF WriteStore
  <2>3. TxCountMatchesIndices'
    BY <1>7, <2>1, <2>2
    DEF WriteStore, TxInv, TxCountMatchesIndices, PutNotCounted, TxSlot
  <2>4. TxTypeOK'
    BY <1>7, <2>1, <2>2 DEF WriteStore, TxInv, TxTypeOK
  <2>5. TxCritical' /\ Armed'
    BY <1>7 DEF WriteStore, TxInv, TxCritical, TxLosesNoUpdate, Armed
  <2> QED BY <2>3, <2>4, <2>5 DEF TxInv
<1>8. CASE WriteArm
  BY <1>8
  DEF WriteArm, TxInv, TxTypeOK, TxCountMatchesIndices, TxCritical,
      TxLosesNoUpdate, Armed, PutNotCounted, TxSlot
<1> QED
  BY <1>1, <1>2, <1>3, <1>4, <1>5, <1>6, <1>7, <1>8
  DEF USART2_Write, WriteStep

\* The invariant holds in every reachable state.
LEMMA TxInvariance == TxSpec => []TxInv
<1>1. TxInv /\ [TxNext]_txVars => TxInv'
  <2> SUFFICES ASSUME TxInv, [TxNext]_txVars PROVE TxInv'
    OBVIOUS
  <2>1. CASE TxIsr
    BY <2>1, TxIsrInv
  <2>2. CASE USART2_Write
    BY <2>2, WriteInv
  <2>3. CASE UNCHANGED txVars
    BY <2>3
    DEF txVars, TxInv, TxTypeOK, TxCountMatchesIndices, TxCritical,
        TxLosesNoUpdate,
        Armed, PutNotCounted, TxSlot
  <2> QED BY <2>1, <2>2, <2>3 DEF TxNext
<1> QED BY InitTxInv, <1>1, PTL DEF TxSpec

\* No index leaves the ring and the element count never passes its size.
THEOREM TxTypeCorrect == TxSpec => []TxTypeOK
<1>1. TxInv => TxTypeOK
  BY DEF TxInv
<1> QED BY <1>1, TxInvariance, PTL

\* The ISR does not change the count between its load and its store.
THEOREM TxNoLostUpdate == TxSpec => []TxLosesNoUpdate
<1>1. TxInv => TxLosesNoUpdate
  BY DEF TxInv, TxCritical
<1> QED BY <1>1, TxInvariance, PTL

\* The element count never drifts from the indices.
THEOREM TxCountMatches == TxSpec => []TxCountMatchesIndices
<1>1. TxInv => TxCountMatchesIndices
  BY DEF TxInv
<1> QED BY <1>1, TxInvariance, PTL

\* No byte is stranded in the buffer with its interrupt disabled.
THEOREM TxArmed == TxSpec => []Armed
<1>1. TxInv => Armed
  BY DEF TxInv
<1> QED BY <1>1, TxInvariance, PTL
-----------------------------------------------------------------------------
(* The ring buffer implements ByteFifo.                                    *)

TxContents == [i \in 1..tx_elements |-> txbuf[TxSlot(i)]]

\* The contents of the ring buffer are a sequence of tx_elements bytes.
LEMMA TxContentsType ==
  ASSUME TxTypeOK
  PROVE  TxContents \in Seq(Byte) /\ Len(TxContents) = tx_elements
<1>1. tx_elements \in Nat
  BY TxRingAssumption DEF TxTypeOK
<1>2. \A i \in 1..tx_elements : txbuf[TxSlot(i)] \in Byte
  BY TxSlotArithmetic, TxRingAssumption DEF TxTypeOK
<1> QED BY <1>1, <1>2 DEF TxContents

\* The ISR takes the oldest byte, or finds nothing to send.
LEMMA TxIsrRefines ==
  ASSUME TxInv, TxIsr
  PROVE  TxFifo!Take \/ UNCHANGED TxFifo!fifo
<1> USE TxRingAssumption
<1>1. /\ tx_tail \in TxSlots /\ tx_elements \in 0..TxSize
      /\ txbuf \in [TxSlots -> Byte] /\ txbuf' = txbuf
      /\ TxContents \in Seq(Byte) /\ Len(TxContents) = tx_elements
  BY TxContentsType DEF TxInv, TxTypeOK, TxIsr
<1>2. CASE tx_elements = 0
  <2>1. /\ tx_tail' = tx_tail /\ tx_elements' = tx_elements
        /\ txdata' = txdata
    BY <1>2 DEF TxIsr
  <2> QED BY <1>1, <2>1 DEF TxFifo!fifo, TxSlot
<1>3. CASE tx_elements # 0
  <2> DEFINE n == tx_elements - 1
  <2>1. /\ tx_tail' = TxSucc(tx_tail) /\ tx_elements' = n
        /\ txdata' = txbuf[TxSucc(tx_tail)]
    BY <1>3 DEF TxIsr
  <2>2. TxSucc(tx_tail) = IF tx_tail + 1 = TxSize THEN 0 ELSE tx_tail + 1
    BY <1>1, TxSuccWraps
  <2>3. n \in 0..TxSize-1 /\ tx_elements = n + 1
    BY <1>1, <1>3
  <2>4. \A i \in 1..n : TxSlot(i)' = TxSlot(i + 1)
    BY <1>1, <2>1, <2>2, <2>3 DEF TxSlot, TxSlots
  <2>5. TxSlot(1) = TxSucc(tx_tail)
    BY <1>1, <2>2 DEF TxSlot, TxSlots
  <2>6. TxContents # <<>>
    BY <1>1, <2>3
  <2>7. TxContents' = Tail(TxContents)
    <3>1. TxContents' = [i \in 1..n |-> txbuf[TxSlot(i + 1)]]
      BY <1>1, <2>1, <2>4 DEF TxContents
    <3>2. /\ Tail(TxContents) \in Seq(Byte)
          /\ Len(Tail(TxContents)) = n
          /\ \A i \in 1..n : Tail(TxContents)[i] = TxContents[i + 1]
      BY <1>1, <2>3, <2>6, HeadTailProperties
    <3>3. \A i \in 1..n : TxContents[i + 1] = txbuf[TxSlot(i + 1)]
      BY <2>3 DEF TxContents
    <3>4. \A i \in 1..n : txbuf[TxSlot(i + 1)] \in Byte
      BY <1>1, <2>3, TxSlotArithmetic
    <3>5. TxContents' \in Seq(Byte) /\ Len(TxContents') = n
      BY <2>3, <3>1, <3>4
    <3>6. \A i \in 1..n : TxContents'[i] = Tail(TxContents)[i]
      BY <3>1, <3>2, <3>3
    <3> QED BY <3>2, <3>5, <3>6, SeqEqual
  <2>8. Head(TxContents) = txdata'
    BY <1>1, <2>1, <2>3, <2>5 DEF TxContents
  <2>9. TxFifo!Take
    BY <2>6, <2>7, <2>8 DEF TxFifo!Take, TxContents
  <2> QED BY <2>9
<1> QED BY <1>2, <1>3

\* The byte enters the FIFO when it is counted; the steps before only prepare
\* a slot outside the FIFO.
LEMMA WriteRefines ==
  ASSUME TxInv, USART2_Write
  PROVE  (\E d \in Byte : TxFifo!Put(d)) \/ UNCHANGED TxFifo!fifo
<1> USE TxRingAssumption
<1>1. /\ tx_tail \in TxSlots /\ tx_head \in TxSlots /\ tx_elements \in 0..TxSize
      /\ txbuf \in [TxSlots -> Byte]
      /\ TxContents \in Seq(Byte) /\ Len(TxContents) = tx_elements
  BY TxContentsType DEF TxInv, TxTypeOK
<1>2. CASE WritePut
  <2>1. /\ txbuf' = [txbuf EXCEPT ![TxSucc(tx_head)] = tx_data]
        /\ tx_tail' = tx_tail /\ tx_elements' = tx_elements
        /\ txdata' = txdata
    BY <1>2 DEF WritePut
  <2>2. tx_head = TxSlot(tx_elements) /\ tx_elements \in 0..TxSize-1
    BY <1>1, <1>2 DEF WritePut, TxInv, TxCountMatchesIndices, PutNotCounted
  <2>3. TxSucc(tx_head) = TxSlot(tx_elements + 1)
    BY <1>1, <2>2, TxSlotArithmetic
  <2>4. \A i \in 1..tx_elements :
          TxSlot(i) \in TxSlots /\ TxSlot(i) # TxSucc(tx_head)
    <3> TAKE i \in 1..tx_elements
    <3>1. i \in 1..TxSize /\ tx_elements + 1 \in 1..TxSize
          /\ i # tx_elements + 1
      BY <2>2
    <3> QED BY <1>1, <2>3, <3>1, TxSlotArithmetic
  <2>5. \A i \in 1..tx_elements : txbuf'[TxSlot(i)] = txbuf[TxSlot(i)]
    BY <1>1, <2>1, <2>4
  <2>6. \A i : TxSlot(i)' = TxSlot(i)
    BY <2>1 DEF TxSlot
  <2>7. TxContents' = TxContents
    BY <2>1, <2>5, <2>6 DEF TxContents
  <2> QED BY <2>1, <2>7 DEF TxFifo!fifo, TxContents
<1>3. CASE WriteStore
  <2>1. /\ tx_count = tx_elements /\ tx_elements \in 0..TxSize-1
        /\ tx_head = TxSlot(tx_elements + 1)
    BY <1>1, <1>3
    DEF WriteStore, TxInv, TxCritical, TxLosesNoUpdate,
        TxCountMatchesIndices,
        PutNotCounted
  <2>2. /\ tx_elements' = tx_elements + 1 /\ txbuf' = txbuf
        /\ tx_tail' = tx_tail /\ txdata' = txdata
    BY <1>3, <2>1 DEF WriteStore
  <2> DEFINE d == txbuf[tx_head]
  <2>3. d \in Byte
    BY <1>1
  <2>4. \A i : TxSlot(i)' = TxSlot(i)
    BY <2>2 DEF TxSlot
  <2>5. TxContents' = [i \in 1..tx_elements + 1 |-> txbuf[TxSlot(i)]]
    BY <2>2, <2>4 DEF TxContents
  <2>6. \A i \in 1..tx_elements + 1 : txbuf[TxSlot(i)] \in Byte
    BY <1>1, <2>1, TxSlotArithmetic
  <2>7. TxContents' \in Seq(Byte) /\ Len(TxContents') = tx_elements + 1
    BY <1>1, <2>5, <2>6
  <2>8. /\ Append(TxContents, d) \in Seq(Byte)
        /\ Len(Append(TxContents, d)) = tx_elements + 1
        /\ \A i \in 1..tx_elements : Append(TxContents, d)[i] = TxContents[i]
        /\ Append(TxContents, d)[tx_elements + 1] = d
    BY <1>1, <2>3, AppendProperties
  <2>9. \A i \in 1..tx_elements : TxContents[i] = txbuf[TxSlot(i)]
    BY DEF TxContents
  <2>10. \A i \in 1..tx_elements + 1 :
           TxContents'[i] = Append(TxContents, d)[i]
    BY <1>1, <2>1, <2>5, <2>8, <2>9
  <2>11. TxContents' = Append(TxContents, d)
    BY <2>7, <2>8, <2>10, SeqEqual
  <2>12. Len(TxContents) < TxSize
    BY <1>1, <2>1
  <2> HIDE DEF d
  <2>13. TxFifo!Put(d)
    BY <2>2, <2>11, <2>12, Zenon DEF TxFifo!Put, TxContents
  <2> QED BY <2>3, <2>13
<1>4. CASE (\E d \in Byte : WriteCall(d)) \/ WriteWait \/ WriteHead
             \/ WriteEnterCritical \/ WriteLoad \/ WriteArm
  BY <1>4
  DEF WriteCall, WriteWait, WriteHead, WriteEnterCritical, WriteLoad, WriteArm,
      TxFifo!fifo, TxSlot
<1> QED BY <1>2, <1>3, <1>4 DEF USART2_Write, WriteStep

\* The transmit ring buffer is a FIFO of TxSize bytes that never refuses a byte.
THEOREM TxImplementsFifo == TxSpec => TxIsFifo
<1>1. TxInit => TxFifo!Init
  BY ByteAssumption, TxRingAssumption DEF TxInit, TxFifo!Init
<1>2. TxInv /\ [TxNext]_txVars => [TxFifo!Next]_(TxFifo!fifo)
  <2> SUFFICES ASSUME TxInv, [TxNext]_txVars
               PROVE  [TxFifo!Next]_(TxFifo!fifo)
    OBVIOUS
  <2>1. CASE TxIsr
    BY <2>1, TxIsrRefines DEF TxFifo!Next
  <2>2. CASE USART2_Write
    BY <2>2, WriteRefines DEF TxFifo!Next
  <2>3. CASE UNCHANGED txVars
    BY <2>3 DEF txVars, TxFifo!fifo, TxSlot
  <2> QED BY <2>1, <2>2, <2>3 DEF TxNext
<1> QED BY <1>1, <1>2, TxInvariance, PTL DEF TxSpec, TxFifo!Spec, TxIsFifo
-----------------------------------------------------------------------------
(* Both halves under one interrupt flag.                                   *)

\* The steps of one half leave the other's invariant alone: they change none of
\* its variables, and they touch the flag only while it is outside its critical
\* section, the main loop being in one of the two functions at a time.
BothInv == RxInv /\ TxInv

\* The start-up is the one of each half.
LEMMA InitBothInv == MCInit => BothInv
BY InitRxInv, InitTxInv DEF MCInit, BothInv

\* A step of the sending half does not disturb the receiving one.
LEMMA TransmitKeepsRx ==
  ASSUME BothInv, Transmit \/ Write
  PROVE  RxInv'
<1>1. UNCHANGED rxOwn
  BY DEF Transmit, Write
<1>2. irq' \in BOOLEAN /\ (irq' => pc \notin {"load", "store"})
  <2>1. CASE Transmit
    BY <2>1 DEF Transmit, TxIsr, BothInv, RxInv, TypeOK, RxCritical
  <2>2. CASE Write
    BY <2>2
    DEF Write, USART2_Write, WriteCall, WriteStep, WriteWait, WritePut, WriteHead,
        WriteEnterCritical, WriteLoad, WriteStore, WriteArm, BothInv, RxInv, TypeOK
  <2> QED BY <2>1, <2>2
<1> QED
  BY <1>1, <1>2
  DEF rxOwn, BothInv, RxInv, TypeOK, CountMatchesIndices, RxCritical, NoLostUpdate,
      Stored, TakenNotCounted

\* A step of the receiving half does not disturb the sending one.
LEMMA ReceiveKeepsTx ==
  ASSUME BothInv, Receive \/ Read
  PROVE  TxInv'
<1>1. UNCHANGED txOwn
  BY DEF Receive, Read
<1>2. irq' \in BOOLEAN /\ (irq' => tx_pc \notin {"load", "store"})
  <2>1. CASE Receive
    BY <2>1 DEF Receive, RxIsr, BothInv, TxInv, TxTypeOK, TxCritical
  <2>2. CASE Read
    BY <2>2
    DEF Read, USART2_Read, ReadAdvance, ReadEnterCritical, ReadLoad, ReadStore,
        ReadFetch, BothInv, TxInv, TxTypeOK
  <2> QED BY <2>1, <2>2
<1> QED
  BY <1>1, <1>2
  DEF txOwn, BothInv, TxInv, TxTypeOK, TxCountMatchesIndices, TxCritical,
      TxLosesNoUpdate, Armed, PutNotCounted, TxSlot

\* Every step of the two preserves the invariant.
LEMMA StepBothInv ==
  ASSUME BothInv, [MCNext]_allVars
  PROVE  BothInv'
<1>1. CASE Receive \/ Read
  <2>1. RxInv'
    BY <1>1, RxIsrInv, ReadInv DEF Receive, Read, BothInv
  <2> QED BY <1>1, <2>1, ReceiveKeepsTx DEF BothInv
<1>2. CASE Transmit \/ Write
  <2>1. TxInv'
    BY <1>2, TxIsrInv, WriteInv DEF Transmit, Write, BothInv
  <2> QED BY <1>2, <2>1, TransmitKeepsRx DEF BothInv
<1>3. CASE UNCHANGED allVars
  <2>1. RxInv'
    BY <1>3
    DEF allVars, vars, BothInv, RxInv, TypeOK, CountMatchesIndices, RxCritical,
        NoLostUpdate, Stored, TakenNotCounted
  <2>2. TxInv'
    BY <1>3
    DEF allVars, vars, txOwn, BothInv, TxInv, TxTypeOK, TxCountMatchesIndices,
        TxCritical, TxLosesNoUpdate, Armed, PutNotCounted, TxSlot
  <2> QED BY <2>1, <2>2 DEF BothInv
<1> QED BY <1>1, <1>2, <1>3 DEF MCNext

\* What holds of each half by itself holds of both together: no index leaves its
\* ring, no count drifts, no update of a count is lost and no byte is stranded.
THEOREM BothSafe ==
  MCSpec => [](/\ TypeOK /\ CountMatchesIndices /\ NoLostUpdate
               /\ TxTypeOK /\ TxCountMatchesIndices /\ TxLosesNoUpdate /\ Armed)
<1>1. BothInv => /\ TypeOK /\ CountMatchesIndices /\ NoLostUpdate
                 /\ TxTypeOK /\ TxCountMatchesIndices /\ TxLosesNoUpdate /\ Armed
  BY DEF BothInv, RxInv, RxCritical, TxInv, TxCritical
<1> QED BY <1>1, InitBothInv, StepBothInv, PTL DEF MCSpec

\* Together they are two FIFOs, one for each direction.
THEOREM BothImplementFifos == MCSpec => ImplementsFifo /\ TxIsFifo
<1>1. MCInit => Fifo!Init /\ TxFifo!Init
  BY ByteAssumption, RingAssumption, TxRingAssumption
  DEF MCInit, Init, TxInit, Fifo!Init, TxFifo!Init, Stored, Slots
<1>2. BothInv /\ [MCNext]_allVars => [Fifo!Next]_(Fifo!fifo)
  <2> SUFFICES ASSUME BothInv, [MCNext]_allVars PROVE [Fifo!Next]_(Fifo!fifo)
    OBVIOUS
  <2>1. CASE Receive
    BY <2>1, RxIsrRefines DEF Receive, BothInv, Fifo!Next
  <2>2. CASE Read
    BY <2>2, ReadRefines DEF Read, BothInv, Fifo!Next
  <2>3. CASE Transmit \/ Write \/ UNCHANGED allVars
    <3>1. UNCHANGED rxOwn
      BY <2>3 DEF Transmit, Write, allVars, vars, rxOwn
    <3> QED BY <3>1 DEF rxOwn, Fifo!fifo, Stored, Slot
  <2> QED BY <2>1, <2>2, <2>3 DEF MCNext
<1>3. BothInv /\ [MCNext]_allVars => [TxFifo!Next]_(TxFifo!fifo)
  <2> SUFFICES ASSUME BothInv, [MCNext]_allVars PROVE [TxFifo!Next]_(TxFifo!fifo)
    OBVIOUS
  <2>1. CASE Transmit
    BY <2>1, TxIsrRefines DEF Transmit, BothInv, TxFifo!Next
  <2>2. CASE Write
    BY <2>2, WriteRefines DEF Write, BothInv, TxFifo!Next
  <2>3. CASE Receive \/ Read \/ UNCHANGED allVars
    <3>1. UNCHANGED txOwn
      BY <2>3 DEF Receive, Read, allVars, vars, txOwn
    <3> QED BY <3>1 DEF txOwn, TxFifo!fifo, TxSlot
  <2> QED BY <2>1, <2>2, <2>3 DEF MCNext
<1> QED
  BY <1>1, <1>2, <1>3, InitBothInv, StepBothInv, PTL
  DEF MCSpec, Fifo!Spec, ImplementsFifo, TxFifo!Spec, TxIsFifo
=============================================================================
