-------------------------- MODULE TwiMasterProofs --------------------------
(***************************************************************************)
(* Proofs about TwiMaster for every set of bytes and addresses and every   *)
(* buffer that is shorter than a size_t counts: the state machine stays    *)
(* within the buffer whatever the bus does, what was read is where the     *)
(* caller looks for it, and the driver implements I2cTransfer.             *)
(***************************************************************************)
EXTENDS TwiMaster, SequenceTheorems, TLAPS

\* A call has the bus, and only the register read is tried twice.
Closes ==
  /\ call = NoCall => ~I2C0_status.inUse /\ ~I2C0_status.busy
  /\ call # NoCall => call.tries \in 1..2 /\ call.address \in Address
  /\ call.tries = 2 => Len(call.out) = 1 /\ call.in = 1

\* The buffer, and the one that a callback will put in its place.
Fits ==
  /\ Len(I2C0_status.data) <= MaxLength
  /\ Len(I2C0_status.complete.buffer) <= MaxLength
  /\ I2C0_status.complete.returns # "STOP" => I2C0_status.complete.buffer # <<>>

\* What the driver has put on the bus agrees with its state, and it reads only
\* when the device has taken the request.
Phase ==
  I2C0_status.busy =>
    /\ \/ I2C0_status.state = "TX" /\ bus.act \in {"address_w", "data"}
       \/ I2C0_status.state = "TX_EMPTY" /\ bus.act = "data"
       \/ /\ I2C0_status.state = "RX" /\ bus.act \in {"address_r", "receive"}
          /\ I2C0_status.complete.returns = "STOP"
          /\ wrote = call.out
          /\ Len(I2C0_status.data) = call.in
          /\ Len(read) + 1 = I2C0_status.data_ptr
    /\ I2C0_status.addressNACKCheck <=> bus.act \in {"address_w", "address_r"}
    /\ I2C0_status.onNack = "RESTART_WRITE" => call.out # <<>>
    /\ I2C0_status.state # "RX" => read = <<>> /\ call.out # <<>>
    /\ bus.act = "address_r" => read = <<>>

\* The bytes sent, acknowledged or not, and those that CONTINUE will add.
Sent == Len(wrote) + (IF bus.act = "data" THEN 1 ELSE 0)
Follows == IF I2C0_status.complete.returns = "CONTINUE"
             THEN Len(I2C0_status.complete.buffer) ELSE 0

\* What was sent, what is left of the buffer and what follows are the request.
WritesRequest ==
  /\ Sent + I2C0_status.data_length + Follows = Len(call.out)
  /\ \A i \in 1..Len(wrote) : wrote[i] = call.out[i]
  /\ bus.act = "data" => bus.byte = call.out[Sent]
  /\ \A i \in I2C0_status.data_ptr..Len(I2C0_status.data) :
       I2C0_status.data[i] = call.out[Sent + i - I2C0_status.data_ptr + 1]
  /\ \A i \in 1..Follows :
       I2C0_status.complete.buffer[i]
         = call.out[Sent + I2C0_status.data_length + i]
  /\ I2C0_status.complete.returns = "RESTART_READ" =>
       Len(I2C0_status.complete.buffer) = call.in

\* After a register read was restarted as a write: the room for the answer.
WritesRoom ==
  /\ I2C0_status.complete.returns = "STOP"
  /\ Len(wrote) >= Len(call.out)
  /\ Sent + I2C0_status.data_length = Len(call.out) + call.in

Writes ==
  I2C0_status.busy /\ I2C0_status.state # "RX" =>
    I2C0_status.data_ptr > 0 /\ (WritesRequest \/ WritesRoom)

\* The inductive invariant.  WithinBuffer needs Fits, since a length that is
\* a size_t's would wrap, and Phase; the refinement needs Phase and Writes.
IInv == /\ TypeOK /\ WithinBuffer /\ ReadIntoBuffer
        /\ Closes /\ Fits /\ Phase /\ Writes

-----------------------------------------------------------------------------
(* Arithmetic, and the types of the helpers' operators.                    *)

\* A length that is not 0 does not wrap.
LEMMA Decrements ==
  ASSUME NEW n \in 1..(SizeT - 1)
  PROVE  Decrement(n) = n - 1
<1> DEFINE a == n + SizeT - 1
           q == a \div SizeT
           r == a % SizeT
<1>1. SizeT \in Nat /\ SizeT > 0
  BY TwiAssumption
<1>2. q \in Int /\ r \in 0..(SizeT - 1) /\ a = SizeT * q + r
  BY <1>1
<1>3. a - SizeT = n - 1 /\ n - 1 \in 0..(SizeT - 1)
  BY <1>1
<1>4. q = 1
  <2> DEFINE p == SizeT * q
  <2>1. p \in Int /\ a = p + r
    BY <1>1, <1>2
  <2>2. q <= 0 => p <= 0
    <3> HIDE DEF q
    <3> QED BY <1>1, <1>2
  <2>3. q >= 2 => p >= SizeT + SizeT
    <3> HIDE DEF q
    <3> QED BY <1>1, <1>2
  <2> HIDE DEF p, q, r
  <2> QED BY <1>1, <1>2, <1>3, <2>1, <2>2, <2>3
<1>5. r = n - 1
  <2> HIDE DEF q, r
  <2> QED BY <1>1, <1>2, <1>3, <1>4
<1> QED BY <1>5 DEF Decrement

\* A non-empty buffer is shorter than a size_t counts.
LEMMA BufferTypes ==
  ASSUME NEW b \in Buffers
  PROVE  /\ b \in Seq(Byte) /\ Len(b) \in 0..MaxLength
         /\ b # <<>> => Len(b) \in 1..(SizeT - 1)
<1>1. PICK n \in 0..MaxLength : b \in [1..n -> Byte]
  BY DEF Buffers
<1>2. n \in Nat /\ n <= MaxLength /\ MaxLength \in Nat
  BY TwiAssumption
<1>3. b \in Seq(Byte) /\ Len(b) = n
  BY <1>1, <1>2
<1>4. b # <<>> => n # 0
  BY <1>3, EmptySeq
<1> QED BY <1>2, <1>3, <1>4, TwiAssumption

-----------------------------------------------------------------------------
(* The start of a call.                                                    *)

\* What I2C0_Open() and the functions after it leave in a status p.
Prepared(p, a, buffer, cb, op) ==
  /\ p \in Status /\ p.address = a
  /\ p.data = buffer /\ p.data_ptr = 1 /\ p.data_length = Len(buffer)
  /\ p.complete = cb /\ p.onNack = op
  /\ ~p.addressNACKCheck

\* A bus that is not in use is opened, and takes the buffer.
LEMMA OpenPrepares ==
  ASSUME NEW s \in Status, ~s.inUse, NEW a \in Address,
         NEW b \in Buffers, b # <<>>
  PROVE  Prepared(I2C0_SetBuffer(I2C0_Open(s, a), b), a, b, ReturnStop, "STOP")
<1> DEFINE o == I2C0_Open(s, a)
           p == I2C0_SetBuffer(o, b)
<1>1. b \in Seq(Byte) /\ Len(b) \in 0..(SizeT - 1)
  BY BufferTypes, TwiAssumption
<1>2. ReturnStop \in Completes
  BY EmptySeq DEF ReturnStop, Complete, Completes
<1>3. /\ o \in Status /\ o.address = a /\ o.bufferFree /\ ~o.addressNACKCheck
      /\ o.complete = ReturnStop /\ o.onNack = "STOP"
  BY <1>2 DEF I2C0_Open, Status, States
<1> HIDE DEF o
<1>4. /\ p \in Status /\ p.address = a /\ ~p.addressNACKCheck
      /\ p.data = b /\ p.data_ptr = 1 /\ p.data_length = Len(b)
      /\ p.complete = ReturnStop /\ p.onNack = "STOP"
  BY <1>1, <1>3 DEF I2C0_SetBuffer, Status, States
<1> QED BY <1>4 DEF Prepared, o

\* The address callback of the write helpers.
LEMMA NackPrepares ==
  ASSUME NEW p, NEW a, NEW b, NEW cb, NEW op \in {"STOP", "RESTART_WRITE"},
         Prepared(p, a, b, cb, "STOP")
  PROVE  Prepared(I2C0_SetAddressNackCallback(p, op), a, b, cb, op)
BY DEF Prepared, I2C0_SetAddressNackCallback, Status

\* The register helpers: the register's number goes first.
LEMMA RegisterPrepares ==
  ASSUME NEW s \in Status, ~s.inUse, NEW a \in Address, NEW reg \in Byte,
         NEW cb \in Completes
  PROVE  Prepared(RegisterStatus(s, a, reg, cb), a, <<reg>>, cb,
                  "RESTART_WRITE")
<1> DEFINE o == I2C0_Open(s, a)
           c == I2C0_SetDataCompleteCallback(o, cb)
           p == I2C0_SetBuffer(c, <<reg>>)
<1>1. <<reg>> \in Seq(Byte) /\ Len(<<reg>>) = 1 /\ 1 \in 0..(SizeT - 1)
  BY TwiAssumption
<1>2. ReturnStop \in Completes
  BY EmptySeq DEF ReturnStop, Complete, Completes
<1>3. /\ o \in Status /\ o.address = a /\ o.bufferFree /\ ~o.addressNACKCheck
      /\ o.onNack = "STOP"
  BY <1>2 DEF I2C0_Open, Status, States
<1> HIDE DEF o
<1>4. /\ c \in Status /\ c.address = a /\ c.bufferFree /\ ~c.addressNACKCheck
      /\ c.complete = cb /\ c.onNack = "STOP"
  BY <1>3 DEF I2C0_SetDataCompleteCallback, Status
<1> HIDE DEF c
<1>5. /\ p \in Status /\ p.address = a /\ ~p.addressNACKCheck
      /\ p.data = <<reg>> /\ p.data_ptr = 1 /\ p.data_length = 1
      /\ p.complete = cb /\ p.onNack = "STOP"
  BY <1>1, <1>4 DEF I2C0_SetBuffer, Status
<1>6. Prepared(p, a, <<reg>>, cb, "STOP")
  BY <1>1, <1>5 DEF Prepared
<1> QED BY <1>6, NackPrepares DEF RegisterStatus, o, c

BusTypeOK == bus \in [act : Acts, address : Address \cup {NoAddress, 0},
                      byte : Byte]

\* The first run of the state machine sends the address, or fails.
LEMMA FirstRun ==
  ASSUME NEW p, NEW a \in Address, NEW b, NEW cb, NEW op,
         Prepared(p, a, b, cb, op),
         NEW state \in {"SEND_ADR_READ", "SEND_ADR_WRITE"},
         NEW ev, I2C0_MasterOperation(p, state, ev)
  PROVE  /\ I2C0_status' \in Status /\ BusTypeOK'
         /\ I2C0_status'.data = b /\ I2C0_status'.data_ptr = 1
         /\ I2C0_status'.data_length = Len(b)
         /\ I2C0_status'.complete = cb /\ I2C0_status'.onNack = op
         /\ I2C0_status'.busy =>
              /\ I2C0_status'.addressNACKCheck
              /\ \/ /\ state = "SEND_ADR_READ"
                    /\ I2C0_status'.state = "RX" /\ bus'.act = "address_r"
                 \/ /\ state = "SEND_ADR_WRITE"
                    /\ I2C0_status'.state = "TX" /\ bus'.act = "address_w"
<1> DEFINE s == [p EXCEPT !.busy = TRUE, !.state = state]
<1>1. /\ s \in Status /\ s.address = a /\ s.data = b /\ s.data_ptr = 1
      /\ s.data_length = Len(b) /\ s.complete = cb /\ s.onNack = op
      /\ ~s.addressNACKCheck /\ s.busy /\ s.state = state
  BY DEF Prepared, Status, States
<1>2. I2C0_MasterIsr(s, ev)
  BY DEF I2C0_MasterOperation
<1>3. 0 \in Byte
  BY TwiAssumption
<1> HIDE DEF s
<1>4. CASE I2C0_DO_BUS_ERROR(s)
  BY <1>1, <1>3, <1>4
  DEF I2C0_DO_BUS_ERROR, Go, Act, Acts, Status, States, BusTypeOK
<1>5. CASE I2C0_DO_BUS_COLLISION(s)
  BY <1>1, <1>3, <1>5
  DEF I2C0_DO_BUS_COLLISION, I2C0_DO_RESET, Go, Act, Acts, Status, States,
      BusTypeOK
<1>6. CASE s.state = "SEND_ADR_READ" /\ I2C0_DO_SEND_ADR_READ(s)
  BY <1>1, <1>3, <1>6
  DEF I2C0_DO_SEND_ADR_READ, Go, Act, Acts, Status, States, BusTypeOK
<1>7. CASE s.state = "SEND_ADR_WRITE" /\ I2C0_DO_SEND_ADR_WRITE(s)
  BY <1>1, <1>3, <1>7
  DEF I2C0_DO_SEND_ADR_WRITE, Go, Act, Acts, Status, States, BusTypeOK
<1> QED BY <1>1, <1>2, <1>4, <1>5, <1>6, <1>7 DEF I2C0_MasterIsr

CallTypeOK == call \in [out : Seq(Byte), in : Nat, tries : 0..2,
                        address : Address \cup {NoAddress}]

\* A call c begins with the buffer b, and what the callback cb adds to it is
\* the rest of its request.
Begins(c, b, cb, op, state) ==
  /\ c \in [out : Seq(Byte), in : Nat, tries : 1..2, address : Address]
  /\ c.tries = 2 => Len(c.out) = 1 /\ c.in = 1
  /\ b \in Buffers /\ b # <<>> /\ cb \in Completes
  /\ Len(cb.buffer) <= MaxLength
  /\ cb.returns # "STOP" => cb.buffer # <<>>
  /\ state = "SEND_ADR_READ" =>
       c.out = <<>> /\ c.in = Len(b) /\ cb = ReturnStop /\ op = "STOP"
  /\ state = "SEND_ADR_WRITE" =>
       LET more == IF cb.returns = "CONTINUE" THEN Len(cb.buffer) ELSE 0
       IN  /\ Len(b) + more = Len(c.out)
           /\ \A i \in 1..Len(b) : b[i] = c.out[i]
           /\ \A i \in 1..more : cb.buffer[i] = c.out[Len(b) + i]
           /\ cb.returns = "RESTART_READ" => Len(cb.buffer) = c.in

\* The first run of a call establishes the invariant.
LEMMA BeginIInv ==
  ASSUME NEW p, NEW a \in Address, NEW b, NEW cb,
         NEW op \in {"STOP", "RESTART_WRITE"},
         Prepared(p, a, b, cb, op),
         NEW state \in {"SEND_ADR_READ", "SEND_ADR_WRITE"},
         NEW ev, I2C0_MasterOperation(p, state, ev),
         NEW c, Begins(c, b, cb, op, state),
         call' = c, wrote' = <<>>, read' = <<>>
  PROVE  IInv'
<1>1. /\ I2C0_status' \in Status /\ BusTypeOK'
      /\ I2C0_status'.data = b /\ I2C0_status'.data_ptr = 1
      /\ I2C0_status'.data_length = Len(b)
      /\ I2C0_status'.complete = cb /\ I2C0_status'.onNack = op
      /\ I2C0_status'.busy =>
           /\ I2C0_status'.addressNACKCheck
           /\ \/ /\ state = "SEND_ADR_READ"
                 /\ I2C0_status'.state = "RX" /\ bus'.act = "address_r"
              \/ /\ state = "SEND_ADR_WRITE"
                 /\ I2C0_status'.state = "TX" /\ bus'.act = "address_w"
  BY FirstRun, Zenon
<1>2. I2C0_status'.busy =>
        /\ I2C0_status'.addressNACKCheck
        /\ \/ /\ state = "SEND_ADR_READ"
              /\ I2C0_status'.state = "RX" /\ bus'.act = "address_r"
           \/ /\ state = "SEND_ADR_WRITE"
              /\ I2C0_status'.state = "TX" /\ bus'.act = "address_w"
  BY <1>1
<1>3. b \in Seq(Byte) /\ Len(b) \in 1..(SizeT - 1) /\ Len(b) <= MaxLength
  BY BufferTypes, TwiAssumption DEF Begins
<1>4. /\ call'.out \in Seq(Byte) /\ call'.in \in Nat /\ call'.tries \in 1..2
      /\ call' # NoCall
  BY DEF Begins, NoCall
<1>5. /\ <<>> \in Seq(Byte) /\ Len(<<>>) = 0
  BY EmptySeq
<1>6. CallTypeOK'
  BY DEF Begins, CallTypeOK
<1>7. TypeOK'
  BY <1>1, <1>5, <1>6 DEF TypeOK, BusTypeOK, CallTypeOK
<1>8. WithinBuffer'
  BY <1>1, <1>2, <1>3 DEF WithinBuffer
<1>9. ReadIntoBuffer'
  BY <1>1, <1>3, <1>5 DEF ReadIntoBuffer
<1>10. Closes'
  BY <1>4 DEF Closes, Begins
<1>11. Fits'
  BY <1>1, <1>3 DEF Fits, Begins
<1>12. Phase'
  <2>1. CASE ~I2C0_status'.busy
    BY <2>1 DEF Phase
  <2>2. CASE I2C0_status'.busy /\ state = "SEND_ADR_READ"
    BY <1>1, <1>2, <1>3, <1>5, <2>2
    DEF Phase, Begins, ReturnStop, Complete
  <2>3. CASE I2C0_status'.busy /\ state = "SEND_ADR_WRITE"
    <3>1. Len(call'.out) > 0
      BY <1>3, <2>3 DEF Begins, Completes
    <3>2. call'.out # <<>>
      BY <3>1, <1>5
    <3> QED BY <1>1, <1>2, <2>3, <3>2 DEF Phase
  <2> QED BY <2>1, <2>2, <2>3
<1>13. Writes'
  <2> SUFFICES ASSUME I2C0_status'.busy, I2C0_status'.state # "RX"
               PROVE  WritesRequest'
    BY <1>1 DEF Writes
  <2>1. state = "SEND_ADR_WRITE" /\ bus'.act = "address_w"
    BY <1>2
  <2>2. Sent' = 0
    BY <2>1, <1>5 DEF Sent
  <2>3. Follows' = IF cb.returns = "CONTINUE" THEN Len(cb.buffer) ELSE 0
    BY <1>1 DEF Follows
  <2>4. /\ Len(b) + Follows' = Len(c.out)
        /\ \A i \in 1..Len(b) : b[i] = c.out[i]
        /\ \A i \in 1..Follows' : cb.buffer[i] = c.out[Len(b) + i]
        /\ cb.returns = "RESTART_READ" => Len(cb.buffer) = c.in
    BY <2>1, <2>3 DEF Begins
  <2>5. Follows' \in Nat
    BY <2>3 DEF Begins, Completes
  <2> HIDE DEF Follows
  <2> QED BY <1>1, <1>3, <1>5, <2>1, <2>2, <2>4, <2>5 DEF WritesRequest
<1> QED BY <1>7, <1>8, <1>9, <1>10, <1>11, <1>12, <1>13 DEF IInv

\* Every helper establishes the invariant.
LEMMA StartIInv ==
  ASSUME IInv, Start
  PROVE  IInv'
<1>1. PICK a \in Address, ev \in FirstEvents, data \in NonEmpty :
           \/ i2c_writeNBytes(a, data, ev)
           \/ WriteOnce(a, data, ev)
           \/ i2c_readNBytes(a, data, ev)
           \/ \E reg \in Byte :
                \/ Len(data) <= 2 /\ i2c_writeRegister(a, reg, data, ev)
                \/ i2c_readDataBlock(a, reg, data, ev)
                \/ i2c_read1ByteRegister(a, reg, data[1], ev)
  BY DEF Start
<1>2. call = NoCall
  BY <1>1 DEF i2c_writeNBytes, WriteOnce, i2c_readNBytes, i2c_writeRegister,
              i2c_readDataBlock, i2c_read1ByteRegister, Begin
<1>3. I2C0_status \in Status /\ ~I2C0_status.inUse
  BY <1>2 DEF IInv, TypeOK, Closes
<1>4. /\ data \in Buffers /\ data # <<>> /\ data \in Seq(Byte)
      /\ Len(data) \in 1..MaxLength
  BY BufferTypes DEF NonEmpty
<1>5. /\ ReturnStop \in Completes /\ ReturnStop.returns = "STOP"
      /\ Len(ReturnStop.buffer) = 0
  BY EmptySeq DEF ReturnStop, Complete, Completes
<1>6. MaxLength \in Nat /\ MaxLength > 1
  BY TwiAssumption
<1>7. <<>> \in Seq(Byte) /\ Len(<<>>) = 0
  BY EmptySeq
<1>8. ASSUME NEW op \in {"STOP", "RESTART_WRITE"}
      PROVE  /\ Prepared(I2C0_SetAddressNackCallback(
                           I2C0_SetBuffer(I2C0_Open(I2C0_status, a), data), op),
                         a, data, ReturnStop, op)
             /\ Begins(Calling(a, data, 0, 1), data, ReturnStop, op,
                       "SEND_ADR_WRITE")
  <2>1. Prepared(I2C0_SetBuffer(I2C0_Open(I2C0_status, a), data),
                 a, data, ReturnStop, "STOP")
    BY <1>3, <1>4, OpenPrepares
  <2>2. Begins(Calling(a, data, 0, 1), data, ReturnStop, op, "SEND_ADR_WRITE")
    BY <1>4, <1>5, <1>6 DEF Begins, Calling
  <2> QED BY <2>1, <2>2, NackPrepares
<1>9. CASE i2c_writeNBytes(a, data, ev)
  <2>1. /\ I2C0_MasterOperation(
             I2C0_SetAddressNackCallback(
               I2C0_SetBuffer(I2C0_Open(I2C0_status, a), data),
               "RESTART_WRITE"),
             "SEND_ADR_WRITE", ev)
        /\ call' = Calling(a, data, 0, 1) /\ wrote' = <<>> /\ read' = <<>>
    BY <1>9 DEF i2c_writeNBytes, Begin
  <2> QED BY <2>1, <1>8, BeginIInv
<1>10. CASE WriteOnce(a, data, ev)
  <2>1. /\ I2C0_MasterOperation(
             I2C0_SetAddressNackCallback(
               I2C0_SetBuffer(I2C0_Open(I2C0_status, a), data), "STOP"),
             "SEND_ADR_WRITE", ev)
        /\ call' = Calling(a, data, 0, 1) /\ wrote' = <<>> /\ read' = <<>>
    BY <1>10 DEF WriteOnce, Begin
  <2> QED BY <2>1, <1>8, BeginIInv
<1>11. CASE i2c_readNBytes(a, data, ev)
  <2>1. /\ I2C0_MasterOperation(
             I2C0_SetBuffer(I2C0_Open(I2C0_status, a), data),
             "SEND_ADR_READ", ev)
        /\ call' = Calling(a, <<>>, Len(data), 1)
        /\ wrote' = <<>> /\ read' = <<>>
    BY <1>11 DEF i2c_readNBytes, Begin
  <2>2. Prepared(I2C0_SetBuffer(I2C0_Open(I2C0_status, a), data),
                 a, data, ReturnStop, "STOP")
    BY <1>3, <1>4, OpenPrepares
  <2>3. Begins(Calling(a, <<>>, Len(data), 1), data, ReturnStop, "STOP",
               "SEND_ADR_READ")
    BY <1>4, <1>5, <1>6, <1>7 DEF Begins, Calling
  <2> QED BY <2>1, <2>2, <2>3, BeginIInv
<1>12. ASSUME NEW reg \in Byte, Len(data) <= 2,
              i2c_writeRegister(a, reg, data, ev)
       PROVE  IInv'
  <2> DEFINE cb == Complete("CONTINUE", data)
             c == Calling(a, <<reg>> \o data, 0, 1)
  <2>1. /\ I2C0_MasterOperation(RegisterStatus(I2C0_status, a, reg, cb),
                                "SEND_ADR_WRITE", ev)
        /\ call' = c /\ wrote' = <<>> /\ read' = <<>>
    BY <1>12 DEF i2c_writeRegister, Begin
  <2>2. /\ cb \in Completes /\ cb.returns = "CONTINUE" /\ cb.buffer = data
    BY <1>4 DEF Complete, Completes
  <2>3. Begins(c, <<reg>>, cb, "RESTART_WRITE", "SEND_ADR_WRITE")
    <3>1. /\ <<reg>> \in Buffers /\ <<reg>> # <<>> /\ Len(<<reg>>) = 1
          /\ <<reg>>[1] = reg /\ <<reg>> \in Seq(Byte)
      BY <1>6 DEF Buffers
    <3>2. /\ c.out \in Seq(Byte) /\ Len(c.out) = 1 + Len(data)
          /\ c.out[1] = reg /\ \A i \in 1..Len(data) : c.out[1 + i] = data[i]
      BY <1>4, <3>1 DEF Calling
    <3>3. c \in [out : Seq(Byte), in : Nat, tries : 1..2, address : Address]
      BY <3>2 DEF Calling
    <3>4. c.tries = 1
      BY DEF Calling
    <3> HIDE DEF c, cb
    <3> QED BY <1>4, <2>2, <3>1, <3>2, <3>3, <3>4 DEF Begins
  <2>4. Prepared(RegisterStatus(I2C0_status, a, reg, cb), a, <<reg>>, cb,
                 "RESTART_WRITE")
    BY <1>3, <2>2, RegisterPrepares
  <2> QED BY <2>1, <2>3, <2>4, BeginIInv
<1>13. ASSUME NEW reg \in Byte, NEW d \in Buffers, d # <<>>, NEW n \in 1..2,
              n = 2 => Len(d) = 1,
              I2C0_MasterOperation(
                RegisterStatus(I2C0_status, a, reg,
                               Complete("RESTART_READ", d)),
                "SEND_ADR_WRITE", ev),
              call' = Calling(a, <<reg>>, Len(d), n),
              wrote' = <<>>, read' = <<>>
       PROVE  IInv'
  <2> DEFINE cb == Complete("RESTART_READ", d)
             c == Calling(a, <<reg>>, Len(d), n)
  <2>1. d \in Seq(Byte) /\ Len(d) \in 0..MaxLength
    BY BufferTypes, <1>13
  <2>2. /\ cb \in Completes /\ cb.returns = "RESTART_READ" /\ cb.buffer = d
    BY <2>1 DEF Complete, Completes
  <2>3. /\ <<reg>> \in Buffers /\ <<reg>> # <<>> /\ Len(<<reg>>) = 1
        /\ <<reg>> \in Seq(Byte)
    BY <1>6, <1>13 DEF Buffers
  <2>4. /\ c \in [out : Seq(Byte), in : Nat, tries : 1..2, address : Address]
        /\ c.out = <<reg>> /\ c.in = Len(d) /\ c.tries = n
    BY <2>1, <2>3, <1>13 DEF Calling
  <2>5. Begins(c, <<reg>>, cb, "RESTART_WRITE", "SEND_ADR_WRITE")
    <3> HIDE DEF c, cb
    <3> QED BY <1>13, <2>1, <2>2, <2>3, <2>4 DEF Begins
  <2>6. Prepared(RegisterStatus(I2C0_status, a, reg, cb), a, <<reg>>, cb,
                 "RESTART_WRITE")
    BY <1>3, <1>13, <2>2, RegisterPrepares
  <2> QED BY <1>13, <2>5, <2>6, BeginIInv
<1>14. ASSUME NEW reg \in Byte, i2c_readDataBlock(a, reg, data, ev)
       PROVE  IInv'
  BY <1>4, <1>13, <1>14 DEF i2c_readDataBlock, Begin
<1>15. ASSUME NEW reg \in Byte, i2c_read1ByteRegister(a, reg, data[1], ev)
       PROVE  IInv'
  <2> DEFINE d == <<data[1]>>
  <2>1. data[1] \in Byte
    BY <1>4
  <2>2. d \in Buffers /\ d # <<>> /\ Len(d) = 1 /\ 2 \in 1..2
    BY <2>1, <1>6 DEF Buffers
  <2>3. /\ I2C0_MasterOperation(
             RegisterStatus(I2C0_status, a, reg, Complete("RESTART_READ", d)),
             "SEND_ADR_WRITE", ev)
        /\ call' = Calling(a, <<reg>>, 1, 2) /\ wrote' = <<>> /\ read' = <<>>
    BY <1>15 DEF i2c_read1ByteRegister, Begin
  <2> HIDE DEF d
  <2>4. call' = Calling(a, <<reg>>, Len(d), 2)
    BY <2>2, <2>3
  <2> QED BY <1>13, <1>15, <2>2, <2>3, <2>4
<1> QED BY <1>1, <1>9, <1>10, <1>11, <1>12, <1>14, <1>15

-----------------------------------------------------------------------------
(* A run of the state machine while a transfer is in progress.             *)

\* The device has sent the byte of the event.
TakesByte(ev) ==
  \/ bus.act = "receive" /\ ~(ev.arb \/ ev.err)
  \/ bus.act = "address_r" /\ ~(ev.nack \/ ev.arb \/ ev.err)

\* The transfer ends, and nothing but the byte just sent is stored.
Stops(ev) ==
  /\ ~I2C0_status'.busy
  /\ I2C0_status'.data =
       IF TakesByte(ev)
         THEN [I2C0_status.data EXCEPT ![I2C0_status.data_ptr] = ev.byte]
         ELSE I2C0_status.data

\* The address is sent again, to write.
AsksAgain(ev) ==
  /\ I2C0_status'.busy /\ I2C0_status'.state = "TX" /\ bus'.act = "address_w"
  /\ bus.act \in {"address_w", "address_r"} /\ ev.nack
  /\ I2C0_status.onNack = "RESTART_WRITE"
  /\ I2C0_status'.addressNACKCheck
  /\ I2C0_status'.data = I2C0_status.data
  /\ I2C0_status'.data_ptr = I2C0_status.data_ptr
  /\ I2C0_status'.data_length = I2C0_status.data_length
  /\ I2C0_status'.complete = I2C0_status.complete

\* A byte of the buffer t.data is sent, from t.data_ptr.
Sends(t) ==
  /\ I2C0_status'.busy /\ bus'.act = "data"
  /\ t.data_ptr \in DOMAIN t.data => bus'.byte = t.data[t.data_ptr]
  /\ ~I2C0_status'.addressNACKCheck
  /\ I2C0_status'.data = t.data
  /\ I2C0_status'.data_ptr = t.data_ptr + 1
  /\ I2C0_status'.data_length = Decrement(t.data_length)
  /\ I2C0_status'.state =
       IF Decrement(t.data_length) # 0 THEN "TX" ELSE "TX_EMPTY"

\* The next byte of the buffer, or the first of the one that follows it.
SendsNext(ev) ==
  /\ I2C0_status.state = "TX" /\ ~ev.nack /\ ~ev.arb /\ ~ev.err
  /\ Sends(I2C0_status) /\ I2C0_status'.complete = I2C0_status.complete

Following == [data |-> I2C0_status.complete.buffer, data_ptr |-> 1,
              data_length |-> Len(I2C0_status.complete.buffer)]

SendsMore(ev) ==
  /\ I2C0_status.state = "TX_EMPTY" /\ ~ev.nack /\ ~ev.arb /\ ~ev.err
  /\ I2C0_status.complete.returns = "CONTINUE"
  /\ Sends(Following) /\ I2C0_status'.complete = ReturnStop

\* The device is asked to send.
TurnsAround(ev) ==
  /\ I2C0_status.state = "TX_EMPTY" /\ ~ev.nack /\ ~ev.arb /\ ~ev.err
  /\ I2C0_status.complete.returns = "RESTART_READ"
  /\ I2C0_status'.busy /\ I2C0_status'.state = "RX"
  /\ bus'.act = "address_r" /\ I2C0_status'.addressNACKCheck
  /\ I2C0_status'.data = I2C0_status.complete.buffer
  /\ I2C0_status'.data_ptr = 1
  /\ I2C0_status'.data_length = Len(I2C0_status.complete.buffer)
  /\ I2C0_status'.complete = ReturnStop

\* A byte is stored, and another one follows.
Receives(ev) ==
  /\ I2C0_status.state = "RX" /\ TakesByte(ev)
  /\ I2C0_status'.busy /\ I2C0_status'.state = "RX" /\ bus'.act = "receive"
  /\ ~I2C0_status'.addressNACKCheck
  /\ I2C0_status'.data =
       [I2C0_status.data EXCEPT ![I2C0_status.data_ptr] = ev.byte]
  /\ I2C0_status'.data_ptr = I2C0_status.data_ptr + 1
  /\ I2C0_status'.data_length = Decrement(I2C0_status.data_length)
  /\ Decrement(I2C0_status.data_length) # 0
  /\ I2C0_status'.complete = I2C0_status.complete

Outcome(ev) == \/ Stops(ev) \/ AsksAgain(ev) \/ SendsNext(ev) \/ SendsMore(ev)
               \/ TurnsAround(ev) \/ Receives(ev)

StatusFields ==
  /\ I2C0_status \in Status
  /\ I2C0_status.data \in Seq(Byte) /\ I2C0_status.data_ptr \in Nat
  /\ I2C0_status.data_length \in 0..(SizeT - 1)
  /\ I2C0_status.complete \in Completes
  /\ I2C0_status.complete.buffer \in Seq(Byte)
  /\ I2C0_status.address \in Address \cup {NoAddress, 0}
  /\ wrote \in Seq(Byte) /\ read \in Seq(Byte)
  /\ call.out \in Seq(Byte) /\ call.in \in Nat /\ bus.byte \in Byte

LEMMA Fields == TypeOK => StatusFields
BY DEF TypeOK, StatusFields, Status, Completes

\* While a byte is read there is room for it.
LEMMA Room ==
  ASSUME IInv, I2C0_status.busy, I2C0_status.state = "RX"
  PROVE  /\ I2C0_status.data_ptr \in 1..Len(I2C0_status.data)
         /\ I2C0_status.data_length \in 1..(SizeT - 1)
BY Fields, LenProperties DEF IInv, StatusFields, WithinBuffer, Phase

\* Every step has one of the outcomes, and keeps the types.
LEMMA Step ==
  ASSUME IInv, NEW ev \in Events, I2C0_status.busy,
         I2C0_MasterIsr(I2C0_status, ev)
  PROVE  /\ Outcome(ev) /\ I2C0_status' \in Status /\ BusTypeOK'
         /\ I2C0_status'.onNack = I2C0_status.onNack
         /\ I2C0_status'.complete \in {I2C0_status.complete, ReturnStop}
<1> DEFINE s == I2C0_status
<1>1. StatusFields /\ s \in Status
  BY Fields DEF IInv, StatusFields
<1>2. 0 \in Byte /\ SizeT \in Nat /\ SizeT > 0 /\ MaxLength < SizeT
  BY TwiAssumption
<1>3. Phase /\ Fits
  BY DEF IInv
<1>4. /\ ev.byte \in Byte /\ ev.nack \in BOOLEAN
      /\ ev.arb \in BOOLEAN /\ ev.err \in BOOLEAN
  BY DEF Events
<1>5. ReturnStop \in Completes
  BY EmptySeq DEF ReturnStop, Complete, Completes
<1>6. ASSUME NEW n \in Nat PROVE Decrement(n) \in 0..(SizeT - 1)
  BY <1>2 DEF Decrement
<1>7. CASE ev.err /\ I2C0_DO_BUS_ERROR(s)
  <2>1. ~I2C0_status'.busy /\ I2C0_status'.data = s.data
    BY <1>1, <1>7 DEF I2C0_DO_BUS_ERROR, Go, Status
  <2>2. Stops(ev)
    BY <1>7, <2>1 DEF Stops, TakesByte
  <2>3. /\ I2C0_status' \in Status /\ I2C0_status'.onNack = s.onNack
        /\ I2C0_status'.complete = s.complete
    BY <1>1, <1>7 DEF I2C0_DO_BUS_ERROR, Go, Status, States
  <2>4. BusTypeOK'
    BY <1>1, <1>2, <1>7
    DEF I2C0_DO_BUS_ERROR, Go, Act, Acts, BusTypeOK, StatusFields
  <2> QED BY <2>2, <2>3, <2>4 DEF Outcome
<1>8. CASE ~ev.err /\ ev.arb /\ I2C0_DO_BUS_COLLISION(s)
  <2>1. ~I2C0_status'.busy /\ I2C0_status'.data = s.data
    BY <1>1, <1>8 DEF I2C0_DO_BUS_COLLISION, I2C0_DO_RESET, Go, Status
  <2>2. Stops(ev)
    BY <1>8, <2>1 DEF Stops, TakesByte
  <2>3. /\ I2C0_status' \in Status /\ I2C0_status'.onNack = s.onNack
        /\ I2C0_status'.complete = s.complete
    BY <1>1, <1>8
    DEF I2C0_DO_BUS_COLLISION, I2C0_DO_RESET, Go, Status, States
  <2>4. BusTypeOK'
    BY <1>1, <1>2, <1>8
    DEF I2C0_DO_BUS_COLLISION, I2C0_DO_RESET, Go, Act, Acts, BusTypeOK,
        StatusFields, Status
  <2> QED BY <2>2, <2>3, <2>4 DEF Outcome
<1>9. ASSUME NEW t \in Status, I2C0_DO_SEND_STOP(t)
      PROVE  /\ ~I2C0_status'.busy /\ I2C0_status'.data = t.data
             /\ I2C0_status' \in Status /\ BusTypeOK'
             /\ I2C0_status'.onNack = t.onNack
             /\ I2C0_status'.complete = t.complete
  <2>1. /\ ~I2C0_status'.busy /\ I2C0_status'.data = t.data
        /\ I2C0_status' \in Status /\ I2C0_status'.onNack = t.onNack
        /\ I2C0_status'.complete = t.complete
    BY <1>9 DEF I2C0_DO_SEND_STOP, I2C0_DO_IDLE, Go, Status, States
  <2>2. BusTypeOK'
    BY <1>2, <1>9
    DEF I2C0_DO_SEND_STOP, I2C0_DO_IDLE, Go, Act, Acts, BusTypeOK, Status
  <2> QED BY <2>1, <2>2
<1>10. CASE /\ ~ev.err /\ ~ev.arb /\ s.addressNACKCheck /\ ev.nack
            /\ I2C0_DO_ADDRESS_NACK(s)
  <2> DEFINE t == [s EXCEPT !.addressNACKCheck = FALSE, !.error = "FAIL"]
  <2>1. /\ t \in Status /\ t.data = s.data /\ t.data_ptr = s.data_ptr
        /\ t.data_length = s.data_length /\ t.complete = s.complete
        /\ t.onNack = s.onNack /\ t.busy = s.busy /\ t.address = s.address
    BY <1>1 DEF Status
  <2>2. bus.act \in {"address_w", "address_r"} /\ ~TakesByte(ev)
    BY <1>3, <1>10 DEF Phase, TakesByte
  <2>3. \/ s.onNack = "RESTART_WRITE" /\ I2C0_DO_SEND_ADR_WRITE(t)
        \/ s.onNack = "STOP" /\ I2C0_DO_SEND_STOP(t)
    BY <1>10 DEF I2C0_DO_ADDRESS_NACK
  <2> HIDE DEF t
  <2>4. CASE s.onNack = "STOP" /\ I2C0_DO_SEND_STOP(t)
    <3>1. /\ ~I2C0_status'.busy /\ I2C0_status'.data = t.data
          /\ I2C0_status' \in Status /\ BusTypeOK'
          /\ I2C0_status'.onNack = t.onNack
          /\ I2C0_status'.complete = t.complete
      BY <1>9, <2>1, <2>4
    <3> QED BY <2>1, <2>2, <3>1 DEF Outcome, Stops
  <2>5. CASE s.onNack = "RESTART_WRITE" /\ I2C0_DO_SEND_ADR_WRITE(t)
    <3>1. /\ I2C0_status' = [t EXCEPT !.addressNACKCheck = TRUE, !.state = "TX"]
          /\ bus' = Act("address_w", t.address, 0)
      BY <2>5 DEF I2C0_DO_SEND_ADR_WRITE, Go
    <3>2. /\ I2C0_status' \in Status /\ I2C0_status'.data = s.data
          /\ I2C0_status'.data_ptr = s.data_ptr
          /\ I2C0_status'.data_length = s.data_length
          /\ I2C0_status'.complete = s.complete
          /\ I2C0_status'.onNack = s.onNack
          /\ I2C0_status'.addressNACKCheck /\ I2C0_status'.busy
          /\ I2C0_status'.state = "TX"
      BY <2>1, <3>1 DEF Status, States
    <3>3. BusTypeOK' /\ bus'.act = "address_w"
      BY <1>1, <1>2, <2>1, <3>1 DEF Act, Acts, BusTypeOK, StatusFields
    <3>4. AsksAgain(ev)
      BY <1>10, <2>2, <2>5, <3>2, <3>3 DEF AsksAgain
    <3> QED BY <3>2, <3>3, <3>4 DEF Outcome
  <2> QED BY <2>3, <2>4, <2>5
<1>11. ASSUME NEW t \in Status, t.data_length \in 1..(SizeT - 1), t.busy,
              SendByte(t)
       PROVE  /\ Sends(t) /\ I2C0_status' \in Status /\ BusTypeOK'
              /\ I2C0_status'.onNack = t.onNack
              /\ I2C0_status'.complete = t.complete
  <2> DEFINE left == Decrement(t.data_length)
             next == IF left # 0 THEN "TX" ELSE "TX_EMPTY"
             byte == IF t.data_ptr \in DOMAIN t.data THEN t.data[t.data_ptr]
                     ELSE 0
  <2>1. left \in 0..(SizeT - 1) /\ next \in States
    BY <1>6, <1>11 DEF States
  <2>2. t.data \in Seq(Byte) /\ t.data_ptr \in Nat /\ t.data_ptr + 1 \in Nat
    BY DEF Status
  <2>3. byte \in Byte
    BY <1>2, <2>2, LenProperties, ElementOfSeq
  <2>4. /\ I2C0_status' =
             [t EXCEPT !.addressNACKCheck = FALSE,
                       !.data_ptr = @ + 1, !.data_length = left,
                       !.state = next]
        /\ bus' = Act("data", t.address, byte)
    BY <1>11 DEF SendByte, Go
  <2>5. t.data_ptr \in DOMAIN t.data => byte = t.data[t.data_ptr]
    OBVIOUS
  <2> HIDE DEF left, byte, next
  <2>6. /\ I2C0_status' \in Status /\ I2C0_status'.onNack = t.onNack
        /\ I2C0_status'.complete = t.complete /\ I2C0_status'.data = t.data
        /\ I2C0_status'.data_ptr = t.data_ptr + 1
        /\ I2C0_status'.data_length = left /\ I2C0_status'.busy
        /\ I2C0_status'.state = next /\ ~I2C0_status'.addressNACKCheck
    BY <1>11, <2>1, <2>2, <2>4 DEF Status
  <2>7. BusTypeOK' /\ bus'.act = "data" /\ bus'.byte = byte
    BY <2>3, <2>4 DEF Act, Acts, BusTypeOK, Status
  <2> QED BY <2>5, <2>6, <2>7 DEF Sends, left, next
<1>12. CASE /\ ~ev.err /\ ~ev.arb /\ ~(s.addressNACKCheck /\ ev.nack)
            /\ s.state = "TX" /\ I2C0_DO_TX(s, ev)
  <2>1. ~TakesByte(ev)
    BY <1>3, <1>12 DEF Phase, TakesByte
  <2>2. CASE ev.nack /\ I2C0_DO_SEND_STOP(s)
    <3>1. /\ ~I2C0_status'.busy /\ I2C0_status'.data = s.data
          /\ I2C0_status' \in Status /\ BusTypeOK'
          /\ I2C0_status'.onNack = s.onNack
          /\ I2C0_status'.complete = s.complete
      BY <1>1, <1>9, <2>2
    <3> QED BY <2>1, <3>1 DEF Outcome, Stops
  <2>3. CASE ~ev.nack /\ SendByte(s)
    <3>1. s.data_length \in 1..(SizeT - 1)
      BY <1>1, <1>12 DEF IInv, WithinBuffer, StatusFields
    <3>2. /\ Sends(s) /\ I2C0_status' \in Status /\ BusTypeOK'
          /\ I2C0_status'.onNack = s.onNack
          /\ I2C0_status'.complete = s.complete
      BY <1>1, <1>11, <2>3, <3>1
    <3>3. SendsNext(ev)
      BY <1>12, <2>3, <3>2 DEF SendsNext
    <3> QED BY <3>2, <3>3 DEF Outcome
  <2> QED BY <1>12, <2>2, <2>3 DEF I2C0_DO_TX
<1>13. CASE /\ ~ev.err /\ ~ev.arb /\ ~(s.addressNACKCheck /\ ev.nack)
            /\ s.state = "TX_EMPTY" /\ I2C0_DO_TX_EMPTY(s, ev)
  <2> DEFINE f == [s EXCEPT !.bufferFree = TRUE]
             t == CallComplete(f)
             b == s.complete.buffer
  <2>1. ~TakesByte(ev)
    BY <1>3, <1>13 DEF Phase, TakesByte
  <2>2. \/ ev.nack /\ I2C0_DO_SEND_STOP(s)
        \/ ~ev.nack /\ s.complete.returns = "STOP" /\ I2C0_DO_SEND_STOP(t)
        \/ /\ ~ev.nack /\ s.complete.returns = "RESTART_READ"
           /\ I2C0_DO_SEND_ADR_READ(t)
        \/ ~ev.nack /\ s.complete.returns = "CONTINUE" /\ SendByte(t)
    BY <1>13 DEF I2C0_DO_TX_EMPTY
  <2>3. /\ f \in Status /\ f.bufferFree /\ f.complete = s.complete
        /\ f.data = s.data /\ f.onNack = s.onNack /\ f.busy = s.busy
        /\ f.address = s.address
    BY <1>1 DEF Status
  <2>4. ASSUME s.complete.returns = "STOP"
        PROVE  /\ t \in Status /\ t.data = s.data /\ t.onNack = s.onNack
               /\ t.complete = s.complete
    BY <2>3, <2>4 DEF CallComplete
  <2>5. ASSUME s.complete.returns # "STOP"
        PROVE  /\ t \in Status /\ t.data = b /\ t.data_ptr = 1
               /\ t.data_length = Len(b) /\ Len(b) \in 1..(SizeT - 1)
               /\ t.onNack = s.onNack /\ t.complete = ReturnStop
               /\ t.busy /\ t.address = s.address
    <3>1. b \in Seq(Byte) /\ b # <<>> /\ Len(b) <= MaxLength
      BY <1>1, <1>3, <2>5 DEF Fits, StatusFields
    <3>2. Len(b) \in Nat \ {0} /\ MaxLength \in Nat
      BY <3>1, EmptySeq, TwiAssumption
    <3>3. Len(b) \in 1..(SizeT - 1) /\ Len(b) \in 0..(SizeT - 1)
      BY <1>2, <3>1, <3>2
    <3> DEFINE g == [f EXCEPT !.data = b, !.data_ptr = 1,
                              !.data_length = Len(b), !.bufferFree = FALSE]
    <3>4. t = [g EXCEPT !.complete = ReturnStop]
      BY <2>3, <2>5
      DEF CallComplete, I2C0_SetDataCompleteCallback, I2C0_SetBuffer, f, t
    <3>5. /\ g \in Status /\ g.data = b /\ g.data_ptr = 1
          /\ g.data_length = Len(b) /\ g.onNack = s.onNack /\ g.busy
          /\ g.address = s.address
      BY <2>3, <3>1, <3>3 DEF Status
    <3> HIDE DEF g
    <3> QED BY <1>5, <3>3, <3>4, <3>5 DEF Status
  <2> HIDE DEF f, t
  <2>6. CASE ev.nack /\ I2C0_DO_SEND_STOP(s)
    <3>1. /\ ~I2C0_status'.busy /\ I2C0_status'.data = s.data
          /\ I2C0_status' \in Status /\ BusTypeOK'
          /\ I2C0_status'.onNack = s.onNack
          /\ I2C0_status'.complete = s.complete
      BY <1>1, <1>9, <2>6
    <3> QED BY <2>1, <3>1 DEF Outcome, Stops
  <2>7. CASE ~ev.nack /\ s.complete.returns = "STOP" /\ I2C0_DO_SEND_STOP(t)
    <3>1. /\ ~I2C0_status'.busy /\ I2C0_status'.data = t.data
          /\ I2C0_status' \in Status /\ BusTypeOK'
          /\ I2C0_status'.onNack = t.onNack
          /\ I2C0_status'.complete = t.complete
      BY <1>9, <2>4, <2>7
    <3> QED BY <2>1, <2>4, <2>7, <3>1 DEF Outcome, Stops
  <2>8. CASE /\ ~ev.nack /\ s.complete.returns = "RESTART_READ"
             /\ I2C0_DO_SEND_ADR_READ(t)
    <3>1. /\ I2C0_status' = [t EXCEPT !.addressNACKCheck = TRUE, !.state = "RX"]
          /\ bus' = Act("address_r", t.address, 0)
      BY <2>8 DEF I2C0_DO_SEND_ADR_READ, Go
    <3>2. /\ I2C0_status' \in Status /\ I2C0_status'.data = b
          /\ I2C0_status'.data_ptr = 1 /\ I2C0_status'.data_length = Len(b)
          /\ I2C0_status'.complete = ReturnStop
          /\ I2C0_status'.onNack = s.onNack
          /\ I2C0_status'.addressNACKCheck /\ I2C0_status'.busy
          /\ I2C0_status'.state = "RX"
      BY <2>5, <2>8, <3>1 DEF Status, States
    <3>3. BusTypeOK' /\ bus'.act = "address_r"
      BY <1>1, <1>2, <2>5, <2>8, <3>1 DEF Act, Acts, BusTypeOK, StatusFields
    <3>4. TurnsAround(ev)
      BY <1>13, <2>8, <3>2, <3>3 DEF TurnsAround
    <3> QED BY <3>2, <3>3, <3>4 DEF Outcome
  <2>9. CASE ~ev.nack /\ s.complete.returns = "CONTINUE" /\ SendByte(t)
    <3>1. /\ Sends(t) /\ I2C0_status' \in Status /\ BusTypeOK'
          /\ I2C0_status'.onNack = t.onNack
          /\ I2C0_status'.complete = t.complete
      BY <1>11, <2>5, <2>9
    <3>2. Sends(Following)
      BY <2>5, <2>9, <3>1 DEF Sends, Following
    <3>3. SendsMore(ev)
      BY <1>13, <2>5, <2>9, <3>1, <3>2 DEF SendsMore
    <3> QED BY <2>5, <2>9, <3>1, <3>3 DEF Outcome
  <2> QED BY <2>2, <2>6, <2>7, <2>8, <2>9
<1>14. CASE /\ ~ev.err /\ ~ev.arb /\ ~(s.addressNACKCheck /\ ev.nack)
            /\ s.state = "RX" /\ I2C0_DO_RX(s, ev)
  <2> DEFINE left == Decrement(s.data_length)
             d == [s.data EXCEPT ![s.data_ptr] = ev.byte]
             t == [s EXCEPT !.addressNACKCheck = FALSE,
                            !.data[s.data_ptr] = ev.byte,
                            !.data_ptr = @ + 1, !.data_length = left]
  <2>1. TakesByte(ev)
    BY <1>3, <1>4, <1>14 DEF Phase, TakesByte
  <2>2. left \in 0..(SizeT - 1)
    <3>1. s.data_length \in Nat
      BY <1>1, <1>2 DEF StatusFields
    <3> QED BY <1>6, <3>1
  <2>3. d \in Seq(Byte)
    BY <1>1, <1>4, <1>14, Room, ExceptSeq DEF StatusFields
  <2>4. \/ left # 0 /\ Go(t, Act("receive", s.address, 0))
        \/ left = 0 /\ I2C0_DO_SEND_STOP([t EXCEPT !.bufferFree = TRUE])
    BY <1>14 DEF I2C0_DO_RX
  <2>5. t = [s EXCEPT !.addressNACKCheck = FALSE, !.data = d,
                      !.data_ptr = @ + 1, !.data_length = left]
    BY <1>1 DEF Status
  <2> HIDE DEF left, d, t
  <2>6. /\ t \in Status /\ t.data = d /\ t.data_ptr = s.data_ptr + 1
        /\ t.data_length = left /\ t.complete = s.complete
        /\ t.onNack = s.onNack /\ t.busy /\ t.state = "RX"
        /\ ~t.addressNACKCheck
    <3>1. s.data_ptr + 1 \in Nat
      BY <1>1 DEF StatusFields
    <3> QED BY <1>1, <1>14, <2>2, <2>3, <2>5, <3>1 DEF Status
  <2>7. CASE left # 0 /\ Go(t, Act("receive", s.address, 0))
    <3>1. I2C0_status' = t /\ bus' = Act("receive", s.address, 0)
      BY <2>7 DEF Go
    <3>2. BusTypeOK' /\ bus'.act = "receive"
      BY <1>1, <1>2, <3>1 DEF Act, Acts, BusTypeOK, StatusFields
    <3>3. Receives(ev)
      BY <1>14, <2>1, <2>6, <2>7, <3>1, <3>2 DEF Receives, left, d
    <3> QED BY <2>6, <3>1, <3>2, <3>3 DEF Outcome
  <2>8. CASE left = 0 /\ I2C0_DO_SEND_STOP([t EXCEPT !.bufferFree = TRUE])
    <3> DEFINE u == [t EXCEPT !.bufferFree = TRUE]
    <3>1. /\ u \in Status /\ u.data = d /\ u.complete = s.complete
          /\ u.onNack = s.onNack
      BY <2>6 DEF Status
    <3> HIDE DEF u
    <3>2. /\ ~I2C0_status'.busy /\ I2C0_status'.data = u.data
          /\ I2C0_status' \in Status /\ BusTypeOK'
          /\ I2C0_status'.onNack = u.onNack
          /\ I2C0_status'.complete = u.complete
      BY <1>9, <2>8, <3>1 DEF u
    <3>3. Stops(ev)
      BY <2>1, <3>1, <3>2 DEF Stops, d
    <3> QED BY <3>1, <3>2, <3>3 DEF Outcome
  <2> QED BY <2>4, <2>7, <2>8
<1>15. \/ s.state \in {"TX", "TX_EMPTY", "RX"}
  BY <1>3 DEF Phase
<1> QED BY <1>7, <1>8, <1>10, <1>12, <1>13, <1>14, <1>15 DEF I2C0_MasterIsr

\* The device acknowledges the byte on the bus.
TakenByDevice(ev) == bus.act = "data" /\ ~(ev.nack \/ ev.arb \/ ev.err)

\* What a turn of I2C0_Poller() adds to the history.
LEMMA History ==
  ASSUME IInv, NEW ev \in Events, I2C0_Poller(ev)
  PROVE  /\ wrote' = IF TakenByDevice(ev) THEN Append(wrote, bus.byte)
                     ELSE wrote
         /\ read' = IF TakesByte(ev) THEN Append(read, ev.byte) ELSE read
         /\ call' = call
         /\ wrote' \in Seq(Byte) /\ read' \in Seq(Byte)
<1>1. /\ wrote' = IF TakenByDevice(ev) THEN Append(wrote, bus.byte) ELSE wrote
      /\ read' = IF TakesByte(ev) THEN Append(read, ev.byte) ELSE read
      /\ call' = call
  BY DEF I2C0_Poller, TakenByDevice, TakesByte
<1>2. StatusFields /\ ev.byte \in Byte
  BY Fields DEF IInv, Events
<1>3. Append(wrote, bus.byte) \in Seq(Byte) /\ Append(read, ev.byte) \in Seq(Byte)
  BY <1>2, AppendProperties DEF StatusFields
<1> QED BY <1>1, <1>2, <1>3 DEF StatusFields

\* A turn keeps the length and the pointer within the buffer.
LEMMA PollWithinBuffer ==
  ASSUME IInv, NEW ev \in Events, I2C0_Poller(ev)
  PROVE  WithinBuffer'
<1> DEFINE s == I2C0_status
<1>1. /\ Outcome(ev) /\ s.busy /\ StatusFields /\ WithinBuffer
      /\ I2C0_status' \in Status
  BY Step, Fields DEF IInv, I2C0_Poller
<1>2. SizeT \in Nat /\ MaxLength \in Nat /\ MaxLength < SizeT
  BY TwiAssumption
<1>3. CASE Stops(ev)
  BY <1>3 DEF Stops, WithinBuffer
<1>4. CASE AsksAgain(ev)
  <2>1. s.state # "TX_EMPTY"
    BY <1>1, <1>4 DEF AsksAgain, IInv, Phase
  <2>2. s.data_length > 0
    BY <1>1, <2>1 DEF IInv, Phase, WithinBuffer
  <2> QED BY <1>1, <1>4, <2>2 DEF AsksAgain, WithinBuffer
<1>5. CASE SendsNext(ev)
  <2>1. s.data_length \in 1..(SizeT - 1)
    BY <1>1, <1>2, <1>5 DEF SendsNext, WithinBuffer, StatusFields
  <2>2. Decrement(s.data_length) = s.data_length - 1
    BY <2>1, Decrements
  <2>3. Len(s.data) \in Nat
    BY <1>1 DEF StatusFields
  <2>4. /\ I2C0_status'.data_ptr = s.data_ptr + 1
        /\ I2C0_status'.data_length = s.data_length - 1
        /\ I2C0_status'.data = s.data
        /\ I2C0_status'.state =
             IF s.data_length - 1 # 0 THEN "TX" ELSE "TX_EMPTY"
    BY <1>5, <2>2 DEF SendsNext, Sends
  <2>5. /\ s.data_ptr + s.data_length = Len(s.data) + 1
        /\ s.data_ptr \in Nat /\ s.data_length \in Nat /\ s.data_length > 0
    BY <1>1, <1>2, <2>1 DEF WithinBuffer, StatusFields
  <2> QED BY <2>3, <2>4, <2>5 DEF WithinBuffer
<1>6. CASE SendsMore(ev)
  <2> DEFINE n == Len(s.complete.buffer)
  <2>1. n \in 1..(SizeT - 1)
    <3>1. s.complete.buffer # <<>> /\ n <= MaxLength
      BY <1>6 DEF SendsMore, IInv, Fits
    <3>2. n \in Nat \ {0}
      BY <1>1, <3>1, EmptySeq DEF StatusFields
    <3> QED BY <1>2, <3>1, <3>2
  <2>2. Decrement(n) = n - 1
    BY <2>1, Decrements
  <2>3. /\ I2C0_status'.data_ptr = 2 /\ I2C0_status'.data_length = n - 1
        /\ Len(I2C0_status'.data) = n
        /\ I2C0_status'.state = IF n - 1 # 0 THEN "TX" ELSE "TX_EMPTY"
    <3>1. /\ Following.data = s.complete.buffer /\ Following.data_ptr = 1
          /\ Following.data_length = n
      BY DEF Following
    <3>2. Sends(Following)
      BY <1>6 DEF SendsMore
    <3> HIDE DEF n
    <3>3. /\ I2C0_status'.data_ptr = 2 /\ I2C0_status'.data_length = n - 1
          /\ I2C0_status'.data = s.complete.buffer
          /\ I2C0_status'.state = IF n - 1 # 0 THEN "TX" ELSE "TX_EMPTY"
      BY <2>2, <3>1, <3>2 DEF Sends
    <3> QED BY <3>3 DEF n
  <2> HIDE DEF n
  <2> QED BY <1>2, <2>1, <2>3 DEF WithinBuffer
<1>7. CASE TurnsAround(ev)
  <2> DEFINE n == Len(s.complete.buffer)
  <2>1. n \in Nat \ {0}
    <3>1. s.complete.buffer # <<>>
      BY <1>7 DEF TurnsAround, IInv, Fits
    <3> QED BY <1>1, <3>1, EmptySeq DEF StatusFields
  <2>2. /\ I2C0_status'.data_ptr = 1 /\ I2C0_status'.data_length = n
        /\ Len(I2C0_status'.data) = n /\ I2C0_status'.state = "RX"
    BY <1>7 DEF TurnsAround
  <2> HIDE DEF n
  <2> QED BY <2>1, <2>2 DEF WithinBuffer
<1>8. CASE Receives(ev)
  <2>1. /\ s.data_ptr \in 1..Len(s.data)
        /\ s.data_length \in 1..(SizeT - 1)
    BY <1>1, <1>8, Room DEF Receives
  <2>2. Decrement(s.data_length) = s.data_length - 1
    BY <2>1, Decrements
  <2>3. Len(I2C0_status'.data) = Len(s.data) /\ Len(s.data) \in Nat
    BY <1>1, <1>8 DEF Receives, StatusFields
  <2>4. /\ I2C0_status'.data_ptr = s.data_ptr + 1
        /\ I2C0_status'.data_length = s.data_length - 1
        /\ s.data_length - 1 # 0 /\ I2C0_status'.state = "RX"
    BY <1>8, <2>2 DEF Receives
  <2>5. /\ s.data_ptr + s.data_length = Len(s.data) + 1
        /\ s.data_ptr \in Nat /\ s.data_length \in Nat /\ s.data_length > 0
    BY <1>1, <1>2, <2>1 DEF WithinBuffer, StatusFields
  <2> QED BY <2>3, <2>4, <2>5 DEF WithinBuffer
<1> QED BY <1>1, <1>3, <1>4, <1>5, <1>6, <1>7, <1>8 DEF Outcome

\* What becomes of the buffer and of what was read into it.
LEMMA PollReadIntoBuffer ==
  ASSUME IInv, NEW ev \in Events, I2C0_Poller(ev)
  PROVE  ReadIntoBuffer' /\ Fits'
<1> DEFINE s == I2C0_status
<1>1. /\ Outcome(ev) /\ s.busy /\ StatusFields /\ ReadIntoBuffer /\ Fits /\ Phase
      /\ I2C0_status'.complete \in {s.complete, ReturnStop}
  BY Step, Fields DEF IInv, I2C0_Poller
<1>2. read' = IF TakesByte(ev) THEN Append(read, ev.byte) ELSE read
  BY History
<1>3. ev.byte \in Byte /\ <<>> \in Seq(Byte) /\ Len(<<>>) = 0
  BY EmptySeq DEF Events
<1>4. MaxLength \in Nat
  BY TwiAssumption
<1>5. ASSUME I2C0_status'.data = s.data \/
             I2C0_status'.data = s.complete.buffer \/
             /\ TakesByte(ev)
             /\ I2C0_status'.data = [s.data EXCEPT ![s.data_ptr] = ev.byte]
      PROVE  Fits'
  <2>1. Len(I2C0_status'.data) <= MaxLength
    BY <1>1, <1>5 DEF Fits, StatusFields
  <2>2. /\ Len(I2C0_status'.complete.buffer) <= MaxLength
        /\ I2C0_status'.complete.returns # "STOP" =>
             I2C0_status'.complete.buffer # <<>>
    BY <1>1, <1>3, <1>4 DEF Fits, ReturnStop, Complete
  <2> QED BY <2>1, <2>2 DEF Fits
<1>6. ASSUME TakesByte(ev),
             I2C0_status'.data = [s.data EXCEPT ![s.data_ptr] = ev.byte]
      PROVE  ReadIntoBuffer'
  <2>1. s.state = "RX" /\ Len(read) + 1 = s.data_ptr
    BY <1>1, <1>6 DEF Phase, TakesByte
  <2>2. s.data_ptr \in 1..Len(s.data)
    BY <1>1, <2>1, Room
  <2>3. /\ Len(read') = Len(read) + 1 /\ read'[Len(read) + 1] = ev.byte
        /\ \A i \in 1..Len(read) : read'[i] = read[i]
    BY <1>1, <1>2, <1>3, <1>6 DEF StatusFields
  <2>4. Len(I2C0_status'.data) = Len(s.data)
    BY <1>1, <1>6 DEF StatusFields
  <2>5. \A i \in 1..Len(s.data) :
          I2C0_status'.data[i] = IF i = s.data_ptr THEN ev.byte ELSE s.data[i]
    BY <1>1, <1>6 DEF StatusFields
  <2>6. Len(read) \in Nat /\ Len(s.data) \in Nat
    BY <1>1 DEF StatusFields
  <2>7. ASSUME NEW i \in 1..Len(read') PROVE I2C0_status'.data[i] = read'[i]
    <3>1. i \in 1..Len(s.data) /\ i \in 1..(Len(read) + 1)
      BY <2>1, <2>2, <2>3, <2>6
    <3>2. CASE i = s.data_ptr
      BY <2>1, <2>3, <2>5, <3>1, <3>2
    <3>3. CASE i # s.data_ptr
      <4>1. i \in 1..Len(read)
        BY <2>1, <2>6, <3>1, <3>3
      <4> QED BY <1>1, <2>3, <2>5, <3>1, <3>3, <4>1 DEF ReadIntoBuffer
    <3> QED BY <3>2, <3>3
  <2>8. Len(read') <= Len(I2C0_status'.data)
    BY <2>1, <2>2, <2>3, <2>4, <2>6
  <2> QED BY <2>7, <2>8 DEF ReadIntoBuffer
<1>7. ASSUME ~TakesByte(ev), I2C0_status'.data = s.data
      PROVE  ReadIntoBuffer'
  BY <1>1, <1>2, <1>7 DEF ReadIntoBuffer
<1>8. ASSUME ~TakesByte(ev), read = <<>>, I2C0_status'.data \in Seq(Byte)
      PROVE  ReadIntoBuffer'
  BY <1>2, <1>3, <1>8 DEF ReadIntoBuffer
<1>9. CASE Stops(ev)
  BY <1>5, <1>6, <1>7, <1>9 DEF Stops
<1>10. CASE AsksAgain(ev)
  <2>1. ~TakesByte(ev)
    BY <1>10 DEF AsksAgain, TakesByte
  <2> QED BY <1>5, <1>7, <1>10, <2>1 DEF AsksAgain
<1>11. CASE SendsNext(ev)
  <2>1. ~TakesByte(ev)
    BY <1>1, <1>11 DEF SendsNext, Phase, TakesByte
  <2> QED BY <1>5, <1>7, <1>11, <2>1 DEF SendsNext, Sends
<1>12. CASE SendsMore(ev) \/ TurnsAround(ev)
  <2>1. ~TakesByte(ev) /\ read = <<>>
    BY <1>1, <1>12 DEF SendsMore, TurnsAround, Phase, TakesByte
  <2>2. I2C0_status'.data = s.complete.buffer
    BY <1>12 DEF SendsMore, TurnsAround, Sends, Following
  <2> QED BY <1>1, <1>5, <1>8, <2>1, <2>2 DEF StatusFields
<1>13. CASE Receives(ev)
  BY <1>5, <1>6, <1>13 DEF Receives
<1> QED BY <1>1, <1>9, <1>10, <1>11, <1>12, <1>13 DEF Outcome

\* A byte that the device has taken is the next of the request, or of the room.
LEMMA Taken ==
  ASSUME IInv, NEW ev \in Events, I2C0_Poller(ev), TakenByDevice(ev)
  PROVE  /\ Len(wrote') = Sent /\ Sent \in Nat
         /\ WritesRequest => \A i \in 1..Len(wrote') : wrote'[i] = call.out[i]
<1>1. StatusFields
  BY Fields DEF IInv
<1>2. wrote' = Append(wrote, bus.byte) /\ bus.act = "data"
  BY History DEF TakenByDevice
<1>3. /\ Len(wrote') = Len(wrote) + 1 /\ wrote'[Len(wrote) + 1] = bus.byte
      /\ \A i \in 1..Len(wrote) : wrote'[i] = wrote[i]
      /\ Len(wrote) \in Nat
  BY <1>1, <1>2 DEF StatusFields
<1>4. Sent = Len(wrote) + 1
  BY <1>2 DEF Sent
<1>5. ASSUME WritesRequest, NEW i \in 1..Len(wrote')
      PROVE  wrote'[i] = call.out[i]
  <2>1. CASE i = Len(wrote) + 1
    BY <1>2, <1>3, <1>4, <1>5, <2>1 DEF WritesRequest
  <2>2. CASE i # Len(wrote) + 1
    <3>1. i \in 1..Len(wrote)
      BY <1>3, <2>2
    <3> QED BY <1>3, <1>5, <3>1 DEF WritesRequest
  <2> QED BY <2>1, <2>2
<1> QED BY <1>3, <1>4, <1>5

\* The driver's state goes on agreeing with the bus.
LEMMA PollPhase ==
  ASSUME IInv, NEW ev \in Events, I2C0_Poller(ev)
  PROVE  Phase'
<1> DEFINE s == I2C0_status
<1>1. /\ Outcome(ev) /\ s.busy /\ StatusFields /\ Phase /\ Writes
      /\ I2C0_status'.onNack = s.onNack
      /\ call' = call /\ WithinBuffer
  BY Step, Fields, History DEF IInv, I2C0_Poller
<1>2. /\ wrote' = IF TakenByDevice(ev) THEN Append(wrote, bus.byte) ELSE wrote
      /\ read' = IF TakesByte(ev) THEN Append(read, ev.byte) ELSE read
      /\ wrote' \in Seq(Byte) /\ read' \in Seq(Byte)
  BY History
<1>3. CASE Stops(ev)
  BY <1>3 DEF Stops, Phase
<1>4. CASE AsksAgain(ev)
  <2>1. ~TakesByte(ev) /\ call.out # <<>> /\ s.state # "TX_EMPTY"
    BY <1>1, <1>4 DEF AsksAgain, TakesByte, Phase
  <2>2. read' = <<>>
    BY <1>1, <1>2, <1>4, <2>1 DEF AsksAgain, Phase
  <2> QED BY <1>1, <1>4, <2>1, <2>2 DEF AsksAgain, Phase
<1>5. CASE SendsNext(ev) \/ SendsMore(ev)
  <2>1. ~TakesByte(ev) /\ read = <<>> /\ call.out # <<>>
    BY <1>1, <1>5 DEF SendsNext, SendsMore, TakesByte, Phase
  <2>2. /\ bus'.act = "data" /\ ~I2C0_status'.addressNACKCheck
        /\ I2C0_status'.state \in {"TX", "TX_EMPTY"}
    BY <1>5 DEF SendsNext, SendsMore, Sends
  <2> QED BY <1>1, <1>2, <2>1, <2>2 DEF Phase
<1>6. CASE TurnsAround(ev)
  <2>1. bus.act = "data" /\ read = <<>> /\ call.out # <<>>
    BY <1>1, <1>6 DEF TurnsAround, Phase
  <2>2. TakenByDevice(ev) /\ ~TakesByte(ev)
    BY <1>6, <2>1 DEF TurnsAround, TakenByDevice, TakesByte
  <2>3. WritesRequest
    BY <1>1, <1>6 DEF TurnsAround, Writes, WritesRoom
  <2>4. s.data_length = 0
    BY <1>1, <1>6 DEF TurnsAround, WithinBuffer, StatusFields
  <2>5. Len(wrote') = Sent /\ Sent \in Nat
        /\ \A i \in 1..Len(wrote') : wrote'[i] = call.out[i]
    BY <2>2, <2>3, Taken
  <2>6. Sent = Len(call.out)
    BY <1>6, <2>3, <2>4, <2>5 DEF WritesRequest, Follows, TurnsAround
  <2>7. wrote' = call.out
    BY <1>1, <1>2, <2>5, <2>6, SeqEqual DEF StatusFields
  <2>8. Len(I2C0_status'.data) = call.in
    BY <1>6, <2>3 DEF TurnsAround, WritesRequest
  <2>9. read' = <<>> /\ Len(<<>>) = 0
    BY <1>2, <2>1, <2>2, EmptySeq
  <2>10. /\ I2C0_status'.data_ptr = 1 /\ bus'.act = "address_r"
         /\ I2C0_status'.state = "RX" /\ I2C0_status'.addressNACKCheck
         /\ I2C0_status'.complete.returns = "STOP"
    BY <1>6 DEF TurnsAround, ReturnStop, Complete
  <2> QED BY <1>1, <2>1, <2>7, <2>8, <2>9, <2>10 DEF Phase
<1>7. CASE Receives(ev)
  <2>1. TakesByte(ev) /\ ~TakenByDevice(ev)
    BY <1>7 DEF Receives, TakesByte, TakenByDevice
  <2>2. /\ wrote = call.out /\ Len(s.data) = call.in
        /\ Len(read) + 1 = s.data_ptr /\ s.complete.returns = "STOP"
        /\ s.onNack = "RESTART_WRITE" => call.out # <<>>
    BY <1>1, <1>7 DEF Receives, Phase
  <2>3. Len(read') = Len(read) + 1 /\ wrote' = wrote
    BY <1>1, <1>2, <2>1, AppendProperties DEF StatusFields, Events
  <2>4. Len(I2C0_status'.data) = Len(s.data)
    BY <1>1, <1>7 DEF Receives, StatusFields
  <2>5. /\ I2C0_status'.data_ptr = s.data_ptr + 1 /\ bus'.act = "receive"
        /\ I2C0_status'.state = "RX" /\ ~I2C0_status'.addressNACKCheck
        /\ I2C0_status'.complete = s.complete
    BY <1>7 DEF Receives
  <2> QED BY <1>1, <2>2, <2>3, <2>4, <2>5 DEF Phase
<1> QED BY <1>1, <1>3, <1>4, <1>5, <1>6, <1>7 DEF Outcome

\* The next byte of the buffer is the next of the request.
LEMMA Shift ==
  ASSUME NEW p \in Nat, NEW n \in Nat, NEW k \in Nat, NEW i \in (p + 1)..n
  PROVE  i \in p..n /\ k + i - p + 1 = k + 1 + i - (p + 1) + 1
OBVIOUS

\* What follows the buffer stays where it is in the request.
LEMMA Beyond ==
  ASSUME NEW k \in Nat, NEW n \in Nat, NEW i \in Nat
  PROVE  k + n + i = (k + 1) + (n - 1) + i
OBVIOUS

\* What is sent goes on being the request, or the room for the answer.
LEMMA PollWrites ==
  ASSUME IInv, NEW ev \in Events, I2C0_Poller(ev)
  PROVE  Writes'
<1> DEFINE s == I2C0_status
<1>1. /\ Outcome(ev) /\ s.busy /\ StatusFields /\ Phase /\ Writes
      /\ call' = call /\ WithinBuffer
  BY Step, Fields, History DEF IInv, I2C0_Poller
<1>2. wrote' = IF TakenByDevice(ev) THEN Append(wrote, bus.byte) ELSE wrote
  BY History
<1>3. SizeT \in Nat /\ Len(wrote) \in Nat /\ Len(s.data) \in Nat
      /\ s.data_length \in 0..(SizeT - 1) /\ s.data_ptr \in Nat
      /\ Len(call.out) \in Nat /\ call.in \in Nat /\ s.data \in Seq(Byte)
      /\ Len(s.complete.buffer) \in Nat /\ Follows \in Nat /\ Sent \in Nat
  BY <1>1, TwiAssumption, LenProperties DEF StatusFields, Follows, Sent
<1>4. CASE Stops(ev)
  BY <1>4 DEF Stops, Writes
<1>5. CASE TurnsAround(ev) \/ Receives(ev)
  BY <1>5 DEF TurnsAround, Receives, Writes
<1>6. CASE AsksAgain(ev)
  <2>1. /\ wrote' = wrote /\ Sent' = Len(wrote) /\ Sent = Len(wrote)
        /\ Follows' = Follows
    BY <1>2, <1>6 DEF AsksAgain, TakenByDevice, Sent, Follows
  <2>2. CASE s.state = "RX"
    <3>1. /\ wrote = call.out /\ Len(s.data) = call.in
          /\ read = <<>> /\ Len(read) + 1 = s.data_ptr
          /\ s.complete.returns = "STOP"
      BY <1>1, <1>6, <2>2 DEF AsksAgain, Phase
    <3>2. Len(read) = 0
      BY <3>1, EmptySeq
    <3>3. s.data_length = call.in
      BY <1>1, <1>3, <3>1, <3>2 DEF WithinBuffer
    <3>4. WritesRoom'
      BY <1>1, <1>3, <1>6, <2>1, <3>1, <3>3 DEF AsksAgain, WritesRoom
    <3> QED BY <1>6, <3>1, <3>2, <3>4 DEF AsksAgain, Writes
  <2>3. CASE s.state # "RX"
    <3>1. WritesRequest => WritesRequest'
      BY <1>1, <1>6, <2>1 DEF AsksAgain, WritesRequest
    <3>2. WritesRoom => WritesRoom'
      BY <1>1, <1>6, <2>1 DEF AsksAgain, WritesRoom
    <3> QED BY <1>1, <1>6, <2>3, <3>1, <3>2 DEF AsksAgain, Writes
  <2> QED BY <2>2, <2>3
<1>7. ASSUME SendsNext(ev) \/ SendsMore(ev)
      PROVE  /\ Len(wrote') = Sent /\ Sent' = Sent + 1
             /\ WritesRequest =>
                  \A i \in 1..Len(wrote') : wrote'[i] = call.out[i]
  <2>1. Len(wrote') = Sent
    <3>1. CASE TakenByDevice(ev)
      BY <3>1, Taken
    <3>2. CASE ~TakenByDevice(ev)
      <4>1. bus.act # "data"
        BY <1>7, <3>2 DEF TakenByDevice, SendsNext, SendsMore
      <4> QED BY <1>2, <1>3, <3>2, <4>1 DEF Sent
    <3> QED BY <3>1, <3>2
  <2>2. bus'.act = "data"
    BY <1>7 DEF SendsNext, SendsMore, Sends
  <2>3. WritesRequest => \A i \in 1..Len(wrote') : wrote'[i] = call.out[i]
    <3>1. CASE TakenByDevice(ev)
      BY <3>1, Taken
    <3>2. CASE ~TakenByDevice(ev)
      BY <1>2, <3>2 DEF WritesRequest
    <3> QED BY <3>1, <3>2
  <2>4. Sent' = Len(wrote') + 1
    BY <2>2 DEF Sent
  <2> QED BY <2>1, <2>3, <2>4
<1>8. CASE SendsNext(ev)
  <2>1. s.data_length \in 1..(SizeT - 1) /\ s.state = "TX"
    BY <1>1, <1>3, <1>8 DEF SendsNext, WithinBuffer
  <2>2. Decrement(s.data_length) = s.data_length - 1
    BY <2>1, Decrements
  <2>3. /\ I2C0_status'.data_ptr = s.data_ptr + 1
        /\ I2C0_status'.data_length = s.data_length - 1
        /\ I2C0_status'.data = s.data /\ bus'.act = "data"
        /\ s.data_ptr \in DOMAIN s.data => bus'.byte = s.data[s.data_ptr]
        /\ I2C0_status'.complete = s.complete
    BY <1>8, <2>2 DEF SendsNext, Sends
  <2>4. Follows' = Follows
    BY <2>3 DEF Follows
  <2>5. s.data_ptr + s.data_length = Len(s.data) + 1
    BY <1>1 DEF WithinBuffer
  <2>6. ASSUME WritesRoom PROVE WritesRoom'
    <3>1. /\ s.complete.returns = "STOP" /\ Len(wrote) >= Len(call.out)
          /\ Sent + s.data_length = Len(call.out) + call.in
      BY <2>6 DEF WritesRoom
    <3>2. Sent' = Sent + 1 /\ Len(wrote') >= Len(wrote)
      BY <1>3, <1>7, <1>8 DEF Sent
    <3>3. Len(wrote') >= Len(call.out)
      BY <1>3, <1>7, <1>8, <3>1, <3>2
    <3>4. Sent' + I2C0_status'.data_length = Len(call.out) + call.in
      <4>1. I2C0_status'.data_length = s.data_length - 1
        BY <2>3
      <4>2. Sent \in Int /\ s.data_length \in Int
        BY <1>3
      <4>3. (Sent + 1) + (s.data_length - 1) = Sent + s.data_length
        BY <4>2
      <4> QED BY <3>1, <3>2, <4>1, <4>3
    <3> QED BY <1>1, <2>3, <3>1, <3>3, <3>4 DEF WritesRoom
  <2>7. ASSUME WritesRequest PROVE WritesRequest'
    <3>0. s.data_ptr \in Nat /\ Len(s.data) \in Nat /\ Sent \in Nat
      BY <1>3
    <3>1. s.data_ptr \in 1..Len(s.data) /\ s.data_ptr \in DOMAIN s.data
      BY <1>1, <1>3, <2>1, <2>5 DEF Writes
    <3>2. bus'.byte = call.out[Sent + 1]
      <4>1. bus'.byte = s.data[s.data_ptr]
        BY <2>3, <3>1
      <4>2. /\ s.data_ptr \in s.data_ptr..Len(s.data)
            /\ Sent + s.data_ptr - s.data_ptr + 1 = Sent + 1
        <5> USE <3>0
        <5> HIDE DEF s
        <5> QED BY <3>1
      <4>3. s.data[s.data_ptr] = call.out[Sent + s.data_ptr - s.data_ptr + 1]
        BY <2>7, <4>2 DEF WritesRequest
      <4> QED BY <4>1, <4>2, <4>3
    <3>3. \A i \in (s.data_ptr + 1)..Len(s.data) :
            s.data[i] = call.out[Sent + 1 + i - (s.data_ptr + 1) + 1]
      <4> TAKE i \in (s.data_ptr + 1)..Len(s.data)
      <4>1. /\ i \in s.data_ptr..Len(s.data)
            /\ Sent + i - s.data_ptr + 1
                 = Sent + 1 + i - (s.data_ptr + 1) + 1
        BY <3>0, Shift
      <4> QED BY <2>7, <4>1 DEF WritesRequest
    <3>4. \A i \in 1..Follows :
            s.complete.buffer[i]
              = call.out[(Sent + 1) + (s.data_length - 1) + i]
      <4> TAKE i \in 1..Follows
      <4>1. Sent + s.data_length + i
              = (Sent + 1) + (s.data_length - 1) + i
        <5>1. Sent \in Nat /\ s.data_length \in Nat /\ i \in Nat
          BY <1>3
        <5> QED BY <5>1, Beyond, Zenon
      <4> QED BY <2>7, <4>1 DEF WritesRequest
    <3>5. (Sent + 1) + (s.data_length - 1) + Follows = Len(call.out)
      BY <1>3, <2>7 DEF WritesRequest
    <3>6. s.complete.returns = "RESTART_READ" =>
            Len(s.complete.buffer) = call.in
      BY <2>7 DEF WritesRequest
    <3> HIDE DEF Sent, Follows
    <3> QED BY <1>1, <1>7, <1>8, <2>3, <2>4, <2>7, <3>2, <3>3, <3>4, <3>5, <3>6
            DEF WritesRequest
  <2>8. I2C0_status'.data_ptr > 0
    BY <1>3, <2>3
  <2>9. WritesRequest \/ WritesRoom
    BY <1>1, <2>1 DEF Writes
  <2> QED BY <2>6, <2>7, <2>8, <2>9 DEF Writes
<1>9. CASE SendsMore(ev)
  <2> DEFINE b == s.complete.buffer
             n == Len(b)
  <2>1. /\ s.state = "TX_EMPTY" /\ s.complete.returns = "CONTINUE"
        /\ Sends(Following) /\ I2C0_status'.complete = ReturnStop
    BY <1>9 DEF SendsMore
  <2>2. s.data_length = 0
    BY <1>1, <1>3, <2>1 DEF WithinBuffer
  <2>3. WritesRequest
    BY <1>1, <2>1 DEF Writes, WritesRoom
  <2>4. n \in 1..(SizeT - 1)
    <3>1. b # <<>> /\ n <= MaxLength
      BY <2>1 DEF IInv, Fits
    <3> QED BY <1>1, <1>3, <3>1, EmptySeq, TwiAssumption DEF StatusFields
  <2>5. Decrement(n) = n - 1
    BY <2>4, Decrements
  <2>6. /\ Following.data = b /\ Following.data_ptr = 1
        /\ Following.data_length = n
    BY DEF Following
  <2>7. 1 \in DOMAIN b /\ Follows = n
    BY <1>1, <2>1, <2>4, LenProperties DEF StatusFields, Follows
  <2> HIDE DEF n, b
  <2>8. /\ I2C0_status'.data_ptr = 2 /\ I2C0_status'.data_length = n - 1
        /\ I2C0_status'.data = b /\ bus'.act = "data" /\ bus'.byte = b[1]
    BY <2>1, <2>5, <2>6, <2>7 DEF Sends
  <2>9. Follows' = 0 /\ I2C0_status'.complete.returns = "STOP"
    BY <2>1 DEF Follows, ReturnStop, Complete
  <2>10. \A i \in 1..n : b[i] = call.out[Sent + i]
    BY <1>3, <2>2, <2>3, <2>7 DEF WritesRequest, b
  <2>11. Sent + n = Len(call.out)
    BY <1>3, <2>2, <2>3, <2>7 DEF WritesRequest
  <2>12. \A i \in 2..n : b[i] = call.out[Sent + 1 + i - 2 + 1]
    <3> TAKE i \in 2..n
    <3>1. i \in 1..n /\ Sent + i = Sent + 1 + i - 2 + 1
      BY <1>3, <2>4
    <3> QED BY <2>10, <3>1
  <2>13. bus'.byte = call.out[Sent + 1] /\ (Sent + 1) + (n - 1) + 0 = Len(call.out)
    <3>1. 1 \in 1..n /\ Sent \in Nat /\ n \in Nat
      BY <1>3, <2>4
    <3>2. bus'.byte = call.out[Sent + 1]
      BY <2>8, <2>10, <3>1
    <3> QED BY <2>11, <3>1, <3>2
  <2>14. Len(I2C0_status'.data) = n
    BY <2>8 DEF n
  <2> HIDE DEF Sent, Follows
  <2>15. WritesRequest'
    BY <1>1, <1>7, <1>9, <2>3, <2>8, <2>9, <2>12, <2>13, <2>14
    DEF WritesRequest
  <2> QED BY <2>8, <2>15 DEF Writes
<1> QED BY <1>1, <1>4, <1>5, <1>6, <1>8, <1>9 DEF Outcome

\* A turn of I2C0_Poller() keeps the invariant.
LEMMA PollIInv ==
  ASSUME IInv, NEW ev \in Events, I2C0_Poller(ev)
  PROVE  IInv'
<1>1. /\ I2C0_status' \in Status /\ BusTypeOK' /\ I2C0_status.busy
  BY Step DEF I2C0_Poller
<1>2. call' = call /\ wrote' \in Seq(Byte) /\ read' \in Seq(Byte)
  BY History
<1>3. TypeOK'
  BY <1>1, <1>2 DEF IInv, TypeOK, BusTypeOK
<1>4. Closes'
  BY <1>1, <1>2 DEF IInv, Closes
<1> QED BY <1>3, <1>4, PollWithinBuffer, PollReadIntoBuffer, PollPhase,
           PollWrites
        DEF IInv

\* The end of a call keeps the invariant, and so does its second try.
LEMMA CloseIInv ==
  ASSUME IInv, Close
  PROVE  IInv'
<1> DEFINE s == I2C0_status
<1>1. PICK err \in BOOLEAN :
        \/ I2C0_Close(err)
        \/ \E ev \in FirstEvents, d2 \in Byte : CloseAndRetry(err, d2, ev)
  BY DEF Close
<1>2. /\ StatusFields /\ s \in Status /\ ReadIntoBuffer /\ Fits
      /\ <<>> \in Seq(Byte) /\ 0 \in Byte
  BY Fields, EmptySeq, TwiAssumption DEF IInv, StatusFields
<1> DEFINE t == Closed(s, err)
<1>3. /\ t \in Status /\ ~t.inUse /\ ~t.busy /\ t.data = s.data
      /\ t.complete = s.complete
  BY <1>2 DEF Closed, Status
<1> HIDE DEF t
<1>4. CASE I2C0_Close(err)
  <2>1. /\ I2C0_status' = t /\ bus' = Act("none", NoAddress, 0)
        /\ call' = NoCall /\ UNCHANGED <<wrote, read>>
    BY <1>4 DEF I2C0_Close, t
  <2>2. TypeOK'
    BY <1>2, <1>3, <2>1
    DEF TypeOK, StatusFields, Act, Acts, NoCall, Calling
  <2>3. WithinBuffer' /\ Phase' /\ Writes' /\ Closes'
    BY <1>3, <2>1 DEF WithinBuffer, Phase, Writes, Closes, NoCall
  <2>4. ReadIntoBuffer' /\ Fits'
    BY <1>2, <1>3, <2>1 DEF ReadIntoBuffer, Fits
  <2> QED BY <2>2, <2>3, <2>4 DEF IInv
<1>5. ASSUME NEW ev \in FirstEvents, NEW d2 \in Byte,
             CloseAndRetry(err, d2, ev)
      PROVE  IInv'
  <2> DEFINE cb == Complete("RESTART_READ", <<d2>>)
             reg == call.out[1]
             c == [call EXCEPT !.tries = 1]
             a == call.address
  <2>1. call.tries > 1
    BY <1>5 DEF CloseAndRetry
  <2>2. /\ call # NoCall /\ call.tries \in 1..2
        /\ call.address \in Address
    BY <2>1 DEF IInv, Closes, NoCall
  <2>3. Len(call.out) = 1 /\ call.in = 1
    BY <2>1, <2>2 DEF IInv, Closes
  <2>4. reg \in Byte /\ call.out = <<reg>>
    BY <1>2, <2>3 DEF StatusFields
  <2>5. a \in Address
    BY <2>2
  <2>6. /\ c \in [out : Seq(Byte), in : Nat, tries : 1..2, address : Address]
        /\ c.out = <<reg>> /\ c.in = 1 /\ c.tries = 1
    BY <2>3, <2>4, <2>5 DEF IInv, TypeOK
  <2>7. /\ I2C0_MasterOperation(RegisterStatus(t, a, reg, cb),
                                "SEND_ADR_WRITE", ev)
        /\ call' = c /\ wrote' = <<>> /\ read' = <<>>
    BY <1>5 DEF CloseAndRetry, t
  <2>8. /\ cb \in Completes /\ cb.returns = "RESTART_READ"
        /\ Len(cb.buffer) = 1 /\ cb.buffer # <<>>
    BY DEF Complete, Completes
  <2>9. /\ <<reg>> \in Buffers /\ <<reg>> # <<>> /\ Len(<<reg>>) = 1
    BY <2>4, TwiAssumption DEF Buffers
  <2> HIDE DEF cb, reg, c, a
  <2>10. Prepared(RegisterStatus(t, a, reg, cb), a, <<reg>>, cb,
                  "RESTART_WRITE")
    BY <1>3, <2>4, <2>5, <2>8, RegisterPrepares
  <2>11. Begins(c, <<reg>>, cb, "RESTART_WRITE", "SEND_ADR_WRITE")
    BY <2>6, <2>8, <2>9, TwiAssumption DEF Begins
  <2> QED BY <2>5, <2>7, <2>10, <2>11, BeginIInv
<1> QED BY <1>1, <1>4, <1>5

-----------------------------------------------------------------------------
(* The theorems.                                                           *)

LEMMA TwiInitIInv == Init => IInv
<1> SUFFICES ASSUME Init PROVE IInv
  OBVIOUS
<1>1. /\ <<>> \in Seq(Byte) /\ Len(<<>>) = 0 /\ 0 \in Byte
      /\ 0 \in 0..(SizeT - 1) /\ MaxLength \in Nat
  BY EmptySeq, TwiAssumption
<1>2. ReturnStop \in Completes /\ ReturnStop.returns = "STOP"
      /\ ReturnStop.buffer = <<>>
  BY <1>1 DEF ReturnStop, Complete, Completes
<1>3. /\ I2C0_status \in Status /\ ~I2C0_status.busy /\ ~I2C0_status.inUse
      /\ I2C0_status.data = <<>> /\ I2C0_status.complete = ReturnStop
  BY <1>1, <1>2 DEF Init, Status, States
<1>4. bus = Act("none", NoAddress, 0) /\ call = NoCall
      /\ wrote = <<>> /\ read = <<>>
  BY DEF Init
<1>5. TypeOK
  BY <1>1, <1>3, <1>4 DEF TypeOK, Act, Acts, NoCall
<1>6. WithinBuffer /\ Phase /\ Writes /\ Closes
  BY <1>3, <1>4 DEF WithinBuffer, Phase, Writes, Closes, NoCall
<1>7. ReadIntoBuffer /\ Fits
  BY <1>1, <1>2, <1>3, <1>4 DEF ReadIntoBuffer, Fits
<1> QED BY <1>5, <1>6, <1>7 DEF IInv

LEMMA TwiInvariance == Spec => []IInv
<1>1. IInv /\ [Next]_vars => IInv'
  <2> SUFFICES ASSUME IInv, [Next]_vars PROVE IInv'
    OBVIOUS
  <2>1. CASE Start
    BY <2>1, StartIInv
  <2>2. CASE Poll
    BY <2>2, PollIInv DEF Poll
  <2>3. CASE Close
    BY <2>3, CloseIInv
  <2>4. CASE UNCHANGED vars
    BY <2>4 DEF vars, IInv, TypeOK, WithinBuffer, ReadIntoBuffer, Closes, Fits,
                Phase, Writes, WritesRequest, WritesRoom, Sent, Follows
  <2> QED BY <2>1, <2>2, <2>3, <2>4 DEF Next
<1> QED BY <1>1, TwiInitIInv, PTL DEF Spec

\* The driver's status, the bus and the call keep their types.
THEOREM TwiTypeCorrect == Spec => []TypeOK
<1>1. IInv => TypeOK
  BY DEF IInv
<1> QED BY <1>1, TwiInvariance, PTL

\* Whatever happens on the bus, data_ptr and data_length of I2C0_DO_TX() and
\* I2C0_DO_RX() stay within the buffer.
THEOREM TwiWithinBuffer == Spec => []WithinBuffer
<1>1. IInv => WithinBuffer
  BY DEF IInv
<1> QED BY <1>1, TwiInvariance, PTL

\* What I2C0_DO_RX() took is in the caller's buffer, in order.
THEOREM TwiReadIntoBuffer == Spec => []ReadIntoBuffer
<1>1. IInv => ReadIntoBuffer
  BY DEF IInv
<1> QED BY <1>1, TwiInvariance, PTL

\* A turn of the state machine is at most one byte of the transfer.
LEMMA PollTransfers ==
  ASSUME IInv, NEW ev \in Events, I2C0_Poller(ev)
  PROVE  [Transfer!Next]_(Transfer!vars)
<1> DEFINE s == I2C0_status
           request == [out |-> call.out, in |-> call.in, tries |-> call.tries]
<1>1. /\ wrote' = IF TakenByDevice(ev) THEN Append(wrote, bus.byte) ELSE wrote
      /\ read' = IF TakesByte(ev) THEN Append(read, ev.byte) ELSE read
      /\ call' = call
  BY History
<1>2. request' = request /\ StatusFields /\ Phase /\ Writes /\ s.busy
      /\ WithinBuffer
  BY <1>1, Fields DEF IInv, I2C0_Poller
<1>3. SizeT \in Nat /\ Len(wrote) \in Nat /\ Len(read) \in Nat
      /\ s.data_length \in Nat /\ Len(call.out) \in Nat /\ call.in \in Nat
      /\ Follows \in Nat
  BY <1>2, TwiAssumption, LenProperties DEF StatusFields, Follows
<1>4. CASE TakenByDevice(ev)
  <2>1. bus.act = "data" /\ ~TakesByte(ev) /\ Sent = Len(wrote) + 1
    BY <1>4 DEF TakenByDevice, TakesByte, Sent
  <2>2. s.state # "RX" /\ read = <<>> /\ call.out # <<>>
    BY <1>2, <2>1 DEF Phase
  <2>3. wrote' = Append(wrote, bus.byte) /\ read' = read /\ bus.byte \in Byte
    BY <1>1, <1>2, <1>4, <2>1 DEF StatusFields
  <2>4. CASE WritesRequest
    <3>1. Len(wrote) < Len(call.out) /\ bus.byte = call.out[Len(wrote) + 1]
      BY <1>3, <2>1, <2>4 DEF WritesRequest
    <3>2. Transfer!WriteByte
      BY <1>2, <2>3, <3>1 DEF Transfer!WriteByte
    <3> QED BY <3>2 DEF Transfer!Next
  <2>5. CASE WritesRoom
    <3>1. Len(wrote) \in Len(call.out)..(Len(call.out) + call.in - 1)
      BY <1>3, <2>1, <2>5 DEF WritesRoom
    <3>2. Transfer!WriteRoom
      BY <1>2, <2>2, <2>3, <3>1 DEF Transfer!WriteRoom
    <3> QED BY <3>2 DEF Transfer!Next
  <2> QED BY <1>2, <2>2, <2>4, <2>5 DEF Writes
<1>5. CASE TakesByte(ev)
  <2>1. ~TakenByDevice(ev) /\ s.state = "RX"
    BY <1>2, <1>5 DEF TakenByDevice, TakesByte, Phase
  <2>2. /\ wrote = call.out /\ Len(s.data) = call.in
        /\ Len(read) + 1 = s.data_ptr
    BY <1>2, <2>1 DEF Phase
  <2>3. Len(read) < call.in
    BY <1>2, <1>3, <2>1, <2>2, Room DEF IInv
  <2>4. wrote' = wrote /\ read' = Append(read, ev.byte) /\ ev.byte \in Byte
    BY <1>1, <1>5, <2>1 DEF Events
  <2>5. Transfer!ReadByte
    BY <1>2, <2>2, <2>3, <2>4 DEF Transfer!ReadByte
  <2> QED BY <2>5 DEF Transfer!Next
<1>6. CASE ~TakenByDevice(ev) /\ ~TakesByte(ev)
  BY <1>1, <1>2, <1>6 DEF Transfer!vars
<1> QED BY <1>4, <1>5, <1>6

\* A helper begins a transfer.
LEMMA StartTransfers ==
  ASSUME IInv, Start
  PROVE  Transfer!Begin
<1>1. call = NoCall /\ wrote' = <<>> /\ read' = <<>>
  BY DEF Start, i2c_writeNBytes, WriteOnce, i2c_readNBytes, i2c_writeRegister,
         i2c_readDataBlock, i2c_read1ByteRegister, Begin
<1>2. call' \in [out : Seq(Byte), in : Nat, tries : 0..2,
                 address : Address \cup {NoAddress}]
  BY StartIInv DEF IInv, TypeOK
<1>3. call'.tries \in 1..2
  <2>1. ASSUME NEW a, NEW out, NEW n, NEW k \in {1, 2},
               call' = Calling(a, out, n, k)
        PROVE  call'.tries \in 1..2
    BY <2>1 DEF Calling
  <2> QED BY <2>1
          DEF Start, i2c_writeNBytes, WriteOnce, i2c_readNBytes,
              i2c_writeRegister, i2c_readDataBlock, i2c_read1ByteRegister, Begin
<1> QED BY <1>1, <1>2, <1>3 DEF Transfer!Begin, Transfer!NoRequest,
                                Transfer!Request, NoCall

\* Closing ends it or tries again.
LEMMA CloseTransfers ==
  ASSUME IInv, Close
  PROVE  Transfer!End \/ Transfer!TryAgain
<1>1. CASE \E err \in BOOLEAN : I2C0_Close(err)
  <2>1. call # NoCall /\ call' = NoCall /\ UNCHANGED <<wrote, read>>
    BY <1>1 DEF I2C0_Close
  <2>2. call.tries \in 1..2
    BY <2>1 DEF IInv, Closes
  <2> QED BY <2>1, <2>2 DEF Transfer!End, Transfer!NoRequest, NoCall
<1>2. CASE \E err \in BOOLEAN, ev \in FirstEvents, d2 \in Byte :
             CloseAndRetry(err, d2, ev)
  <2>1. /\ call.tries > 1 /\ call' = [call EXCEPT !.tries = 1]
        /\ wrote' = <<>> /\ read' = <<>>
    BY <1>2 DEF CloseAndRetry
  <2>2. call.tries = 2
    BY <2>1 DEF IInv, TypeOK
  <2>3. call'.out = call.out /\ call'.in = call.in /\ call'.tries = 1
    BY <2>1 DEF IInv, TypeOK
  <2> QED BY <2>1, <2>2, <2>3 DEF Transfer!TryAgain
<1> QED BY <1>1, <1>2 DEF Close

\* i2c_simple_master.c over twi0_master.c implements I2cTransfer: whatever the
\* bus does, no byte is sent twice or out of order, and the device is read
\* only after it has taken the request.
THEOREM TwiImplementsTransfer == Spec => ImplementsTransfer
<1>1. Init => Transfer!Init
  BY DEF Init, Transfer!Init, Transfer!NoRequest, NoCall
<1>2. IInv /\ [Next]_vars => [Transfer!Next]_(Transfer!vars)
  <2> SUFFICES ASSUME IInv, [Next]_vars
               PROVE  [Transfer!Next]_(Transfer!vars)
    OBVIOUS
  <2>1. CASE Start
    BY <2>1, StartTransfers DEF Transfer!Next
  <2>2. CASE Poll
    BY <2>2, PollTransfers DEF Poll
  <2>3. CASE Close
    BY <2>3, CloseTransfers DEF Transfer!Next
  <2>4. CASE UNCHANGED vars
    BY <2>4 DEF vars, Transfer!vars
  <2> QED BY <2>1, <2>2, <2>3, <2>4 DEF Next
<1> QED BY <1>1, <1>2, TwiInvariance, PTL DEF Spec, ImplementsTransfer, Transfer!Spec
=============================================================================
