----------------------------- MODULE TwiMaster ------------------------------
(***************************************************************************)
(* src/twi0_master.c, the polled I2C driver, with the helpers of           *)
(* drivers/i2c_simple_master.c that use it.  A state lies between two runs *)
(* of I2C0_MasterIsr(): a helper sets a transfer up and sends the address  *)
(* in one step, each event on the bus is a step, and so is I2C0_Close().   *)
(*                                                                         *)
(* The bus is open here: it may do anything at an event.  AtcaExec takes a *)
(* transfer for one step and puts a secure element on the other side.      *)
(***************************************************************************)
EXTENDS Integers, Sequences

CONSTANTS
  Byte,      \* the values of a byte
  Address,   \* the addresses of devices
  NoAddress, \* 0xff
  MaxLength, \* the longest buffer a caller passes
  SizeT      \* the number of values of a size_t

ASSUME TwiAssumption == /\ MaxLength \in Nat /\ SizeT \in Nat
                        /\ SizeT > MaxLength /\ MaxLength > 1
                        /\ 0 \in Byte

VARIABLES
  I2C0_status, \* the driver's state, see Status
  bus,         \* what the driver has last put on the bus
  call,        \* the helper in progress: what it writes and reads
  wrote,       \* history: the bytes the device has acknowledged ...
  read         \* ... and the bytes it has sent, in this call

vars == <<I2C0_status, bus, call, wrote, read>>

Buffers == UNION {[1..n -> Byte] : n \in 0..MaxLength}

\* What a DATA_COMPLETE callback sets up and returns.
Complete(op, buffer) == [returns |-> op, buffer |-> buffer]
ReturnStop == Complete("STOP", <<>>)

Act(a, address, byte) == [act |-> a, address |-> address, byte |-> byte]
Acts == {"none", "address_w", "address_r", "data", "receive", "stop", "reset"}

NoCall == [out |-> <<>>, in |-> 0, tries |-> 0, address |-> NoAddress]
Calling(a, out, in, tries) ==
  [out |-> out, in |-> in, tries |-> tries, address |-> a]

\* An event: an acknowledge bit, the flags still set when they are looked at,
\* and the byte in MDATA.
Ev(nack, arb, err, byte) ==
  [nack |-> nack, arb |-> arb, err |-> err, byte |-> byte]
Events == [nack : BOOLEAN, arb : BOOLEAN, err : BOOLEAN, byte : Byte]

Init == /\ I2C0_status =
             [address |-> 0, data |-> <<>>, data_ptr |-> 1, data_length |-> 0,
              state |-> "IDLE", error |-> "NOERR", addressNACKCheck |-> FALSE,
              busy |-> FALSE, inUse |-> FALSE, bufferFree |-> FALSE,
              complete |-> ReturnStop, onNack |-> "STOP"]
        /\ bus = Act("none", NoAddress, 0)
        /\ call = NoCall
        /\ wrote = <<>> /\ read = <<>>
-----------------------------------------------------------------------------
(* Operators on a status s, for the functions that set a transfer up.      *)
(* data is the buffer that data_ptr points into.                           *)

\* The callers' loops around I2C0_Open() end with the bus in use.
I2C0_Open(s, address) ==
  IF s.inUse THEN s
  ELSE [s EXCEPT !.address = address, !.busy = FALSE, !.inUse = TRUE,
                 !.addressNACKCheck = FALSE, !.state = "RESET",
                 !.bufferFree = TRUE, !.complete = ReturnStop,
                 !.onNack = "STOP"]

I2C0_SetBuffer(s, buffer) ==
  IF ~s.bufferFree THEN s
  ELSE [s EXCEPT !.data = buffer, !.data_ptr = 1,
                 !.data_length = Len(buffer), !.bufferFree = FALSE]

I2C0_SetDataCompleteCallback(s, cb) == [s EXCEPT !.complete = cb]
I2C0_SetAddressNackCallback(s, op) == [s EXCEPT !.onNack = op]

\* wr1RegCompleteHandler() and the like: the second buffer, then no callback.
\* Any other callback returns STOP.
CallComplete(s) ==
  IF s.complete.returns = "STOP" THEN s
  ELSE I2C0_SetDataCompleteCallback(I2C0_SetBuffer(s, s.complete.buffer),
                                    ReturnStop)

\* A data_length of 0 wraps around.
Decrement(n) == (n + SizeT - 1) % SizeT
-----------------------------------------------------------------------------
(* The handlers of I2C0_fsmStateTable, from a status s.                    *)

Go(s, b) == I2C0_status' = s /\ bus' = b

I2C0_DO_IDLE(s, b) ==
  Go([s EXCEPT !.busy = FALSE, !.error = "NOERR", !.state = "IDLE"], b)

I2C0_DO_RESET(s) ==
  Go([s EXCEPT !.busy = FALSE, !.error = "NOERR", !.state = "RESET"],
     Act("reset", s.address, 0))

I2C0_DO_SEND_STOP(s) == I2C0_DO_IDLE(s, Act("stop", s.address, 0))

I2C0_DO_SEND_ADR_READ(s) ==
  Go([s EXCEPT !.addressNACKCheck = TRUE, !.state = "RX"],
     Act("address_r", s.address, 0))

I2C0_DO_SEND_ADR_WRITE(s) ==
  Go([s EXCEPT !.addressNACKCheck = TRUE, !.state = "TX"],
     Act("address_w", s.address, 0))

\* Only i2c_simple_master.c sets this callback, to restart the write.
I2C0_DO_ADDRESS_NACK(s) ==
  LET t == [s EXCEPT !.addressNACKCheck = FALSE, !.error = "FAIL"]
  IN  \/ s.onNack = "RESTART_WRITE" /\ I2C0_DO_SEND_ADR_WRITE(t)
      \/ s.onNack = "STOP" /\ I2C0_DO_SEND_STOP(t)

\* Mutant: nothing is done about a collision.
I2C0_DO_BUS_COLLISIONStays(s) ==
  Go([s EXCEPT !.error = "FAIL", !.busy = FALSE, !.state = "BUS_COLLISION"],
     Act("reset", s.address, 0))

\* Nobody sets the WRITE_COLLISION and DATA_NACK callbacks: both return STOP.
I2C0_DO_BUS_COLLISION(s) == I2C0_DO_RESET([s EXCEPT !.error = "FAIL"])

I2C0_DO_BUS_ERROR(s) ==
  Go([s EXCEPT !.busy = FALSE, !.error = "FAIL", !.state = "RESET"],
     Act("reset", s.address, 0))

\* Mutant: the address check stays on while data is sent.
SendByteChecked(s) ==
  LET left == Decrement(s.data_length)
      byte == IF s.data_ptr \in DOMAIN s.data THEN s.data[s.data_ptr] ELSE 0
  IN  Go([s EXCEPT !.data_ptr = @ + 1, !.data_length = left,
                   !.state = IF left # 0 THEN "TX" ELSE "TX_EMPTY"],
         Act("data", s.address, byte))

\* The part of I2C0_DO_TX() after an acknowledge.
SendByte(s) ==
  LET left == Decrement(s.data_length)
      byte == IF s.data_ptr \in DOMAIN s.data THEN s.data[s.data_ptr] ELSE 0
  IN  Go([s EXCEPT !.addressNACKCheck = FALSE,
                   !.data_ptr = @ + 1, !.data_length = left,
                   !.state = IF left # 0 THEN "TX" ELSE "TX_EMPTY"],
         Act("data", s.address, byte))

I2C0_DO_TX(s, ev) ==
  \/ ev.nack /\ I2C0_DO_SEND_STOP(s)
  \/ ~ev.nack /\ SendByte(s)

\* The buffer is free, and the callback may have put another one in its place.
I2C0_DO_TX_EMPTY(s, ev) ==
  LET t == CallComplete([s EXCEPT !.bufferFree = TRUE])
  IN  \/ ev.nack /\ I2C0_DO_SEND_STOP(s)
      \/ /\ ~ev.nack
         /\ \/ s.complete.returns = "STOP" /\ I2C0_DO_SEND_STOP(t)
            \/ s.complete.returns = "RESTART_READ" /\ I2C0_DO_SEND_ADR_READ(t)
            \/ s.complete.returns = "CONTINUE" /\ SendByte(t)

\* Mutant: the last byte is taken for one before the last.
I2C0_DO_RXTooFar(s, ev) ==
  LET left == Decrement(s.data_length)
      t == [s EXCEPT !.addressNACKCheck = FALSE,
                     !.data[s.data_ptr] = ev.byte,
                     !.data_ptr = @ + 1, !.data_length = left]
  IN  \/ s.data_length # 0 /\ Go(t, Act("receive", s.address, 0))
      \/ s.data_length = 0 /\ I2C0_DO_SEND_STOP([t EXCEPT !.bufferFree = TRUE])

\* Mutant: data_ptr stays where it is but for the last byte.
I2C0_DO_RXInPlace(s, ev) ==
  LET left == Decrement(s.data_length)
      t == [s EXCEPT !.addressNACKCheck = FALSE,
                     !.data[s.data_ptr] = ev.byte,
                     !.data_length = left]
  IN  \/ left # 0 /\ Go(t, Act("receive", s.address, 0))
      \/ /\ left = 0
         /\ I2C0_DO_SEND_STOP([t EXCEPT !.bufferFree = TRUE, !.data_ptr = @ + 1])

\* By the time the last byte is read the DATA_COMPLETE callback returns STOP.
I2C0_DO_RX(s, ev) ==
  LET left == Decrement(s.data_length)
      t == [s EXCEPT !.addressNACKCheck = FALSE,
                     !.data[s.data_ptr] = ev.byte,
                     !.data_ptr = @ + 1, !.data_length = left]
  IN  \/ left # 0 /\ Go(t, Act("receive", s.address, 0))
      \/ left = 0 /\ I2C0_DO_SEND_STOP([t EXCEPT !.bufferFree = TRUE])

\* The state is overridden by a NACK of the address, a lost arbitration and a
\* bus error, the last of them winning.
I2C0_MasterIsr(s, ev) ==
  \/ ev.err /\ I2C0_DO_BUS_ERROR(s)
  \/ ~ev.err /\ ev.arb /\ I2C0_DO_BUS_COLLISION(s)
  \/ /\ ~ev.err /\ ~ev.arb /\ s.addressNACKCheck /\ ev.nack
     /\ I2C0_DO_ADDRESS_NACK(s)
  \/ /\ ~ev.err /\ ~ev.arb /\ ~(s.addressNACKCheck /\ ev.nack)
     /\ \/ s.state = "SEND_ADR_READ" /\ I2C0_DO_SEND_ADR_READ(s)
        \/ s.state = "SEND_ADR_WRITE" /\ I2C0_DO_SEND_ADR_WRITE(s)
        \/ s.state = "TX" /\ I2C0_DO_TX(s, ev)
        \/ s.state = "TX_EMPTY" /\ I2C0_DO_TX_EMPTY(s, ev)
        \/ s.state = "RX" /\ I2C0_DO_RX(s, ev)

\* Nothing has been sent yet: only the two flags matter to the first run.
I2C0_MasterOperation(s, state, ev) ==
  I2C0_MasterIsr([s EXCEPT !.busy = TRUE, !.state = state], ev)
-----------------------------------------------------------------------------
(* The helpers: a call c, and the status s it prepares.                    *)

Begin(c, s, state, ev) ==
  /\ call = NoCall
  /\ call' = c
  /\ wrote' = <<>> /\ read' = <<>>
  /\ I2C0_MasterOperation(s, state, ev)

\* A write that polls with its address until the device acknowledges it.
i2c_writeNBytes(a, data, ev) ==
  Begin(Calling(a, data, 0, 1),
        I2C0_SetAddressNackCallback(
          I2C0_SetBuffer(I2C0_Open(I2C0_status, a), data), "RESTART_WRITE"),
        "SEND_ADR_WRITE", ev)

\* The write of hal_i2c_wake(), which gives up at the first NACK.
WriteOnce(a, data, ev) ==
  Begin(Calling(a, data, 0, 1),
        I2C0_SetAddressNackCallback(
          I2C0_SetBuffer(I2C0_Open(I2C0_status, a), data), "STOP"),
        "SEND_ADR_WRITE", ev)

i2c_readNBytes(a, buffer, ev) ==
  Begin(Calling(a, <<>>, Len(buffer), 1),
        I2C0_SetBuffer(I2C0_Open(I2C0_status, a), buffer),
        "SEND_ADR_READ", ev)

\* What the register helpers prepare: the register, then what follows it.
RegisterStatus(s, a, reg, cb) ==
  I2C0_SetAddressNackCallback(
    I2C0_SetBuffer(I2C0_SetDataCompleteCallback(I2C0_Open(s, a), cb), <<reg>>),
    "RESTART_WRITE")

\* i2c_write1ByteRegister(), i2c_write2ByteRegister()
i2c_writeRegister(a, reg, data, ev) ==
  Begin(Calling(a, <<reg>> \o data, 0, 1),
        RegisterStatus(I2C0_status, a, reg, Complete("CONTINUE", data)),
        "SEND_ADR_WRITE", ev)

\* i2c_read2ByteRegister(), i2c_readDataBlock()
i2c_readDataBlock(a, reg, buffer, ev) ==
  Begin(Calling(a, <<reg>>, Len(buffer), 1),
        RegisterStatus(I2C0_status, a, reg, Complete("RESTART_READ", buffer)),
        "SEND_ADR_WRITE", ev)

\* d2 = 42 unless a byte arrives; two tries.
i2c_read1ByteRegister(a, reg, d2, ev) ==
  Begin(Calling(a, <<reg>>, 1, 2),
        RegisterStatus(I2C0_status, a, reg, Complete("RESTART_READ", <<d2>>)),
        "SEND_ADR_WRITE", ev)

\* One turn of I2C0_Poller().
I2C0_Poller(ev) ==
  /\ I2C0_status.busy
  /\ I2C0_MasterIsr(I2C0_status, ev)
  /\ wrote' = IF bus.act = "data" /\ ~(ev.nack \/ ev.arb \/ ev.err)
                THEN Append(wrote, bus.byte) ELSE wrote
  /\ read' = IF \/ bus.act = "receive" /\ ~(ev.arb \/ ev.err)
                \/ bus.act = "address_r" /\ ~(ev.nack \/ ev.arb \/ ev.err)
               THEN Append(read, ev.byte) ELSE read
  /\ call' = call

\* err: the bus error flag is set when I2C0_Close() looks at it.
Closed(s, err) ==
  [s EXCEPT !.busy = FALSE, !.inUse = FALSE, !.address = NoAddress,
            !.error = IF err THEN "FAIL" ELSE @]

I2C0_Close(err) ==
  /\ call # NoCall /\ ~I2C0_status.busy
  /\ call.tries > 1 => Closed(I2C0_status, err).error = "NOERR"
  /\ I2C0_status' = Closed(I2C0_status, err)
  /\ bus' = Act("none", NoAddress, 0)
  /\ call' = NoCall
  /\ UNCHANGED <<wrote, read>>

\* Mutant: the tries are not counted.
CloseAndRetryUncounted(err, d2, ev) ==
  /\ call.tries > 1 /\ ~I2C0_status.busy
  /\ Closed(I2C0_status, err).error # "NOERR"
  /\ call' = call
  /\ wrote' = <<>> /\ read' = <<>>
  /\ I2C0_MasterOperation(
       RegisterStatus(Closed(I2C0_status, err), call.address, call.out[1],
                      Complete("RESTART_READ", <<d2>>)),
       "SEND_ADR_WRITE", ev)

\* i2c_read1ByteRegister() tries a second time after an error.
CloseAndRetry(err, d2, ev) ==
  /\ call.tries > 1 /\ ~I2C0_status.busy
  /\ Closed(I2C0_status, err).error # "NOERR"
  /\ call' = [call EXCEPT !.tries = 1]
  /\ wrote' = <<>> /\ read' = <<>>
  /\ I2C0_MasterOperation(
       RegisterStatus(Closed(I2C0_status, err), call.address, call.out[1],
                      Complete("RESTART_READ", <<d2>>)),
       "SEND_ADR_WRITE", ev)
-----------------------------------------------------------------------------
\* Before the address is sent neither an acknowledge nor a byte is looked at.
FirstEvents == {ev \in Events : ~ev.nack /\ ev.byte = 0}

NonEmpty == Buffers \ {<<>>}

Start == \E a \in Address, ev \in FirstEvents, data \in NonEmpty :
           \/ i2c_writeNBytes(a, data, ev)
           \/ WriteOnce(a, data, ev)
           \/ i2c_readNBytes(a, data, ev)
           \/ \E reg \in Byte :
                \/ Len(data) <= 2 /\ i2c_writeRegister(a, reg, data, ev)
                \/ i2c_readDataBlock(a, reg, data, ev)
                \/ i2c_read1ByteRegister(a, reg, data[1], ev)

Poll == \E ev \in Events : I2C0_Poller(ev)

Close == \E err \in BOOLEAN :
           \/ I2C0_Close(err)
           \/ \E ev \in FirstEvents, d2 \in Byte : CloseAndRetry(err, d2, ev)

Next == Start \/ Poll \/ Close

Spec == Init /\ [][Next]_vars

\* An event at which nothing is wrong: the device acknowledges.
GoodEvents == {ev \in Events : ~ev.nack /\ ~ev.arb /\ ~ev.err}
GoodPoll == \E ev \in GoodEvents : I2C0_Poller(ev)

\* The loops of I2C0_Poller() and of the helpers run on, and a device that is
\* asked for again and again acknowledges at last.
FairSpec == Spec /\ WF_vars(Poll) /\ WF_vars(Close) /\ SF_vars(GoodPoll)
-----------------------------------------------------------------------------
States == {"IDLE", "SEND_ADR_READ", "SEND_ADR_WRITE", "TX", "RX", "TX_EMPTY",
           "RESET"}

Completes == [returns : {"STOP", "CONTINUE", "RESTART_READ"},
              buffer : Seq(Byte)]

Status ==
  [address : Address \cup {NoAddress, 0}, data : Seq(Byte), data_ptr : Nat,
   data_length : 0..(SizeT - 1), state : States, error : {"NOERR", "FAIL"},
   addressNACKCheck : BOOLEAN, busy : BOOLEAN, inUse : BOOLEAN,
   bufferFree : BOOLEAN, complete : Completes,
   onNack : {"STOP", "RESTART_WRITE"}]

\* The types of the driver's status, of the bus and of the call in progress.
TypeOK ==
  /\ I2C0_status \in Status
  /\ bus \in [act : Acts, address : Address \cup {NoAddress, 0}, byte : Byte]
  /\ call \in [out : Seq(Byte), in : Nat, tries : 0..2,
               address : Address \cup {NoAddress}]
  /\ wrote \in Seq(Byte) /\ read \in Seq(Byte)

\* While a transfer runs, data_ptr and data_length of I2C0_DO_TX() and
\* I2C0_DO_RX() describe what is left of one buffer, and something is left
\* whenever a byte is to be taken from it or stored: the length never wraps.
WithinBuffer ==
  I2C0_status.busy =>
    /\ I2C0_status.data_ptr + I2C0_status.data_length
         = Len(I2C0_status.data) + 1
    /\ I2C0_status.state \in {"TX", "RX"} <=> I2C0_status.data_length > 0

\* What the device has sent is in the caller's buffer, from its start and in
\* the order in which I2C0_DO_RX() took it, however the transfer ended.
ReadIntoBuffer ==
  /\ Len(read) <= Len(I2C0_status.data)
  /\ \A i \in 1..Len(read) : I2C0_status.data[i] = read[i]

\* i2c_simple_master.c over this driver is a transfer of I2cTransfer.
Transfer == INSTANCE I2cTransfer WITH
  request <- [out |-> call.out, in |-> call.in, tries |-> call.tries]
ImplementsTransfer == Transfer!Spec

\* The write helpers ask for the device until it acknowledges: a call ends if
\* it does so at last.
TransferEnds == call # NoCall ~> call = NoCall
=============================================================================
