------------------------- MODULE EccCommandsProofs --------------------------
(***************************************************************************)
(* Proofs about EccCommands, for every number and size of slots and every  *)
(* width of the integers: type correctness, that what the host was told is *)
(* true, that the data buffer is never overrun, that only SIGNDIGEST       *)
(* answers a failure with data, and that LOCK may be repeated.             *)
(***************************************************************************)
EXTENDS EccCommands, TLAPS

Statuses == {"ok", "bad_count", "bad_value", "ecc_error", "restarted"}

Writes == {"WRITEBLOB", "PUBKEY+WRITE"}

Records == [command : Commands, slot : Slots \cup {-1},
            received : 0..DataLen, fault : BOOLEAN, extent : Nat]

(* What every handler does, in one of three ways.                          *)

\* The device is unchanged: nothing was written, and LOCK was answered OK at
\* most for a slot that is locked.
Untouched ==
  /\ UNCHANGED device
  /\ last'.command \in Writes /\ last'.slot # -1 => status' # "ok"
  /\ last'.command = "LOCK" /\ last'.slot # -1 /\ status' = "ok"
       => locked[last'.slot]

\* The slot addressed takes v in its first k bytes, and if the answer is OK
\* that is the whole blob.
Written(v) ==
  /\ last'.command \in Writes /\ last'.slot \in Slots
  /\ locked' = locked
  /\ \E k \in Nat :
       /\ Overwrite(last'.slot, k, v)
       /\ status' = "ok" => /\ ~locked[last'.slot]
                            /\ last'.received \div 2 <= k
                            /\ last'.received \div 2 <= ZoneSize[last'.slot]

\* The slot addressed is locked, certainly so if the answer is OK.
Locked ==
  /\ last'.command = "LOCK" /\ last'.slot \in Slots
  /\ content' = content
  /\ \E done \in BOOLEAN :
       /\ locked' = [locked EXCEPT ![last'.slot] = done]
       /\ status' = "ok" => done
       /\ ~done => ~locked[last'.slot]

Bounded ==
  /\ status' \in Statuses
  /\ data_length' \in 0..DataLen
  /\ last' \in Records
  /\ last'.extent <= DataLen

Answered ==
  /\ status' # "ok" /\ data_length' # 0
       => last'.command = "SIGNDIGEST" /\ status' = "bad_value"
  /\ last'.command = "LOCK" /\ last'.slot # -1 /\ ~last'.fault
       => status' = "ok"

Outcome(v) == Bounded /\ Answered /\ (Untouched \/ Written(v) \/ Locked)
-----------------------------------------------------------------------------
\* A refused command does nothing.
LEMMA RefuseOutcome ==
  ASSUME NEW v, NEW c \in Commands, NEW n \in 0..DataLen,
         NEW st \in {"bad_count", "bad_value"}, NEW d \in 0..DataLen,
         d = 0 \/ (c = "SIGNDIGEST" /\ st = "bad_value"),
         Refuse(c, n, st, d)
  PROVE  Outcome(v)
<1> USE DEF Refuse, Return, Record
<1>1. Bounded
  <2>1. status' \in Statuses /\ data_length' \in 0..DataLen
    BY DEF Statuses
  <2>2. last' \in Records /\ last'.extent <= DataLen
    BY SizeAssumption DEF Records
  <2> QED BY <2>1, <2>2 DEF Bounded
<1>2. Answered /\ Untouched
  BY DEF Answered, Untouched
<1> QED BY <1>1, <1>2 DEF Outcome

\* A command that only reads the device does not change it.
LEMMA QueryOutcome ==
  ASSUME NEW v, NEW c \in Commands \ (Writes \cup {"LOCK"}),
         NEW s \in Slots \cup {-1}, NEW n \in 0..DataLen, NEW f \in BOOLEAN,
         NEW e \in Nat, e <= DataLen,
         NEW size \in Nat, 2 * size <= DataLen,
         Query(size, f) \/ (Return("ecc_error", 0) /\ UNCHANGED device),
         Use(c, s, n, f, e)
  PROVE  Outcome(v)
<1> USE SizeAssumption
<1> USE DEF Query, Failure, Return, Use, Record, Writes
<1>1. Bounded
  <2>1. status' \in Statuses /\ data_length' \in 0..DataLen
    BY DEF Statuses
  <2>2. last' \in Records /\ last'.extent <= DataLen
    BY DEF Records
  <2> QED BY <2>1, <2>2 DEF Bounded
<1>2. Answered
  BY DEF Answered
<1>3. Untouched
  BY DEF Untouched
<1> QED BY <1>1, <1>2, <1>3 DEF Outcome

\* The sizes of what the handlers read, as the assumptions give them.
LEMMA Sizes ==
  /\ DataLen \in Nat /\ WordSize \in Nat
  /\ SerialSize \in Nat /\ 2 * SerialSize <= DataLen
  /\ PubKeySize \in Nat /\ 2 * PubKeySize <= DataLen
  /\ SigSize \in Nat /\ 2 * SigSize <= DataLen
  /\ OtpSize \in Nat \ {0} /\ 2 * OtpSize <= DataLen
  /\ \A s \in Slots : ZoneSize[s] \in Nat \ {0} /\ 2 * ZoneSize[s] <= DataLen
BY SizeAssumption, BufferAssumption

Args == Seq(Nat \cup {Malformed})

\* The handlers that only read.
LEMMA ReadersOutcome ==
  ASSUME TypeOK, NEW argv \in Args, NEW f \in BOOLEAN, NEW v,
         \/ cmd_ecc_serial(argv, 0, f)
         \/ cmd_ecc_genpubkey(argv, 0, f)
         \/ cmd_ecc_pubkey_read(argv, 0, f)
         \/ cmd_ecc_read(argv, 0, f)
         \/ cmd_ecc_otp_read(argv, 0, f)
  PROVE  Outcome(v)
<1> USE Sizes
<1>0. /\ 0 \in 0..DataLen /\ 0 \in Slots \cup {-1}
      /\ -1 \in Slots \cup {-1}
  BY SizeAssumption DEF Slots
<1>1. CASE cmd_ecc_serial(argv, 0, f)
  <2>1. CASE argv # <<>>
    BY <1>0, <1>1, <2>1, RefuseOutcome DEF cmd_ecc_serial, Commands
  <2>2. CASE argv = <<>>
    <3>1. /\ Query(SerialSize, f)
          /\ Use("SERIAL", -1, 0, f, 2 * SerialSize)
      BY <1>1, <2>2 DEF cmd_ecc_serial
    <3> QED BY <1>0, <3>1, QueryOutcome DEF Commands, Writes
  <2> QED BY <2>1, <2>2
<1>2. CASE cmd_ecc_genpubkey(argv, 0, f)
  <2> DEFINE slot == IF argv = <<>> THEN 0 ELSE argv[1]
             bad == Len(argv) > 1 \/ (argv # <<>> /\ ~SlotArg(argv[1]))
  <2>1. CASE bad
    BY <1>0, <1>2, <2>1, RefuseOutcome DEF cmd_ecc_genpubkey, Commands
  <2>2. CASE ~bad
    <3>1. /\ Query(PubKeySize, f)
          /\ Use("GENPUBKEY", slot, 0, f, 2 * PubKeySize)
      BY <1>2, <2>2 DEF cmd_ecc_genpubkey
    <3>2. slot \in Slots \cup {-1}
      BY <1>0, <2>2 DEF SlotArg
    <3> QED BY <1>0, <3>1, <3>2, QueryOutcome DEF Commands, Writes
  <2> QED BY <2>1, <2>2
<1>3. CASE cmd_ecc_pubkey_read(argv, 0, f)
  <2> DEFINE bad == Len(argv) # 1 \/ ~SlotArg(argv[1])
  <2>1. CASE bad
    BY <1>0, <1>3, <2>1, RefuseOutcome DEF cmd_ecc_pubkey_read, Commands
  <2>2. CASE ~bad
    <3>1. /\ atcab_read_pubkey(argv[1], f)
          /\ Use("PUBKEY+READ", argv[1], 0, f, 2 * PubKeySize)
      BY <1>3, <2>2 DEF cmd_ecc_pubkey_read
    <3>2. argv[1] \in Slots \cup {-1}
      BY <2>2 DEF SlotArg
    <3> QED
      BY <1>0, <3>1, <3>2, QueryOutcome
      DEF atcab_read_pubkey, Commands, Writes
  <2> QED BY <2>1, <2>2
<1>4. ASSUME NEW size \in Nat, 2 * size <= DataLen, NEW length \in Nat,
             NEW c \in {"READ", "OTP+READ"}, NEW s \in Slots \cup {-1},
             atcab_read_bytes_zone(size, length, f),
             Use(c, s, 0, f, ReadExtent(size, length))
      PROVE  Outcome(v)
  <2>1. CASE length > size
    <3>1. /\ Return("ecc_error", 0) /\ UNCHANGED device
          /\ Use(c, s, 0, f, 0)
      BY <1>4, <2>1 DEF atcab_read_bytes_zone, ReadExtent
    <3> QED BY <1>0, <1>4, <3>1, QueryOutcome DEF Commands, Writes
  <2>2. CASE length <= size
    <3>1. /\ Query(length, f) /\ 2 * length <= DataLen
          /\ Use(c, s, 0, f, 2 * length)
      BY <1>4, <2>2 DEF atcab_read_bytes_zone, ReadExtent
    <3> QED BY <1>0, <1>4, <3>1, QueryOutcome DEF Commands, Writes
  <2> QED BY <1>4, <2>1, <2>2
<1>5. CASE cmd_ecc_read(argv, 0, f)
  <2> DEFINE count == Len(argv) \in 1..2
             bad == \/ ~SlotArg(argv[1])
                    \/ Len(argv) = 2 /\ (~Uint16(argv[2]) \/ argv[2] = 0)
             size == ZoneSize[argv[1]]
             length == IF Len(argv) = 2 THEN argv[2] ELSE size
  <2>1. CASE ~count
    BY <1>0, <1>5, <2>1, RefuseOutcome
    DEF cmd_ecc_read, parse_and_check_read_args, Commands
  <2>2. CASE count /\ bad
    BY <1>0, <1>5, <2>2, RefuseOutcome
    DEF cmd_ecc_read, parse_and_check_read_args, Commands
  <2>3. CASE count /\ ~bad
    <3>1. argv[1] \in Slots
      BY <2>3 DEF SlotArg
    <3>2. size \in Nat /\ 2 * size <= DataLen
      BY <3>1
    <3>3. length \in Nat
      BY <2>3, <3>2 DEF Uint16
    <3>4. /\ atcab_read_bytes_zone(size, length, f)
          /\ Use("READ", argv[1], 0, f, ReadExtent(size, length))
      BY <1>5, <2>3
      DEF cmd_ecc_read, parse_and_check_read_args
    <3> HIDE DEF size, length
    <3> QED BY <1>4, <3>1, <3>2, <3>3, <3>4
  <2> QED BY <2>1, <2>2, <2>3
<1>6. CASE cmd_ecc_otp_read(argv, 0, f)
  <2> DEFINE count == Len(argv) <= 1
             bad == argv # <<>> /\ (~Uint16(argv[1]) \/ argv[1] = 0)
             length == IF argv = <<>> THEN OtpSize ELSE argv[1]
  <2>1. CASE ~count
    BY <1>0, <1>6, <2>1, RefuseOutcome
    DEF cmd_ecc_otp_read, parse_and_check_otp_read_args, Commands
  <2>2. CASE count /\ bad
    BY <1>0, <1>6, <2>2, RefuseOutcome
    DEF cmd_ecc_otp_read, parse_and_check_otp_read_args, Commands
  <2>3. CASE count /\ ~bad
    <3>1. length \in Nat
      BY <2>3 DEF Uint16
    <3>2. /\ atcab_read_bytes_zone(OtpSize, length, f)
          /\ Use("OTP+READ", -1, 0, f, ReadExtent(OtpSize, length))
      BY <1>6, <2>3
      DEF cmd_ecc_otp_read, parse_and_check_otp_read_args
    <3> HIDE DEF length
    <3> QED BY <1>0, <1>4, <3>1, <3>2
  <2> QED BY <2>1, <2>2, <2>3
<1> QED BY <1>1, <1>2, <1>3, <1>5, <1>6

\* SIGNDIGEST: hex decoding needs no more than the buffer, because the buffer
\* has an even length.
LEMMA SignDigestOutcome ==
  ASSUME TypeOK, NEW argv \in Args, NEW n \in 1..DataLen, NEW f \in BOOLEAN,
         NEW v, cmd_ecc_signdigest(argv, n, f)
  PROVE  Outcome(v)
<1> USE Sizes
<1>0. /\ n \in 0..DataLen /\ 0 \in 0..DataLen /\ 0 \in Slots \cup {-1}
  BY SizeAssumption DEF Slots
<1>1. convert_hex2bin(n) \in Nat /\ 2 * convert_hex2bin(n) <= DataLen
  BY <1>0, SizeAssumption DEF convert_hex2bin
<1>2. CASE Len(argv) # 2
  BY <1>0, <1>2, RefuseOutcome DEF cmd_ecc_signdigest, Commands
<1>3. CASE Len(argv) = 2 /\ convert_hex2bin(n) % ByteSize # BlockSize
  <2>1. Refuse("SIGNDIGEST", n, "bad_value", n)
    BY <1>3 DEF cmd_ecc_signdigest
  <2> QED BY <1>0, <2>1, RefuseOutcome DEF Commands
<1>4. CASE Len(argv) = 2 /\ convert_hex2bin(n) % ByteSize = BlockSize
  <2> DEFINE e == Larger(2 * convert_hex2bin(n), 2 * SigSize)
  <2>1. Query(SigSize, f) /\ Use("SIGNDIGEST", 0, n, f, e)
    BY <1>4 DEF cmd_ecc_signdigest
  <2>2. e \in Nat /\ e <= DataLen
    BY <1>1 DEF Larger
  <2> HIDE DEF e
  <2> QED BY <1>0, <2>1, <2>2, QueryOutcome DEF Commands, Writes
<1> QED BY <1>2, <1>3, <1>4

\* A write in pieces, whatever they are, that counts as done only when it has
\* reached the length of the blob.
LEMMA WriteOutcome ==
  ASSUME TypeOK, NEW v, NEW c \in Writes, NEW s \in Slots,
         NEW n \in 0..DataLen, NEW f \in BOOLEAN,
         NEW ends \in SUBSET Nat, NEW total \in Int,
         WritePieces(s, ends, total, v, f),
         total >= 0 => n \div 2 <= total /\ n \div 2 <= ZoneSize[s],
         Use(c, s, n, f, n)
  PROVE  Outcome(v)
<1> USE SizeAssumption
<1> USE DEF Use, Record, Return, Writes
<1>1. PICK k \in ends \cup {0} :
        /\ Overwrite(s, k, v)
        /\ locked' = locked
        /\ \/ k = total /\ ~locked[s] /\ ~f /\ Return("ok", 0)
           \/ f /\ \E st \in {"ecc_error", "restarted"} : Return(st, 0)
  BY DEF WritePieces
<1>2. last' = [command |-> c, slot |-> s, received |-> n, fault |-> f,
               extent |-> n]
  BY DEF Use, Record
<1>3. Bounded
  <2>1. status' \in Statuses /\ data_length' \in 0..DataLen
    BY <1>1 DEF Statuses
  <2>2. last' \in Records /\ last'.extent <= DataLen
    BY <1>2 DEF Records, Commands
  <2> QED BY <2>1, <2>2 DEF Bounded
<1>4. Answered
  BY <1>1, <1>2 DEF Answered
<1>5. Written(v)
  <2>1. status' = "ok" => /\ ~locked[s] /\ k = total
    BY <1>1
  <2>2. k \in Nat
    BY <1>1
  <2>3. last'.command \in Writes /\ last'.slot = s /\ last'.received = n
    BY <1>2
  <2>4. status' = "ok" => /\ ~locked[last'.slot]
                          /\ last'.received \div 2 <= k
                          /\ last'.received \div 2 <= ZoneSize[last'.slot]
    BY <2>1, <2>2, <2>3
  <2>5. Overwrite(last'.slot, k, v)
    BY <1>1, <2>3
  <2> QED BY <1>1, <2>2, <2>3, <2>4, <2>5 DEF Written
<1> QED BY <1>3, <1>4, <1>5 DEF Outcome

\* A write that CryptoAuthLib rejects.
LEMMA RejectedOutcome ==
  ASSUME NEW v, NEW c \in Writes, NEW s \in Slots, NEW n \in 0..DataLen,
         NEW f \in BOOLEAN,
         Return("ecc_error", 0), UNCHANGED device, Use(c, s, n, f, n)
  PROVE  Outcome(v)
<1> USE SizeAssumption
<1> USE DEF Use, Record, Return, Writes
<1>1. Bounded
  <2>1. status' \in Statuses /\ data_length' \in 0..DataLen
    BY DEF Statuses
  <2>2. last' \in Records /\ last'.extent <= DataLen
    BY DEF Records, Commands
  <2> QED BY <2>1, <2>2 DEF Bounded
<1>2. Answered /\ Untouched
  BY DEF Answered, Untouched
<1> QED BY <1>1, <1>2 DEF Outcome

\* The length of a blob that is checked in 16 bits: a length whose double
\* wraps is longer than any slot.
LEMMA NoWrap ==
  ASSUME NEW size \in Nat, NEW length \in Nat, length <= size,
         2 * size <= DataLen
  PROVE  (2 * length) % WordSize = 2 * length
<1> DEFINE d == 2 * length
<1>1. d \in Nat /\ d < WordSize /\ WordSize \in Nat
  BY SizeAssumption
<1> HIDE DEF d
<1>2. d % WordSize = d
  BY <1>1
<1> QED BY <1>2 DEF d

\* The handlers that write.
LEMMA WritersOutcome ==
  ASSUME TypeOK, NEW argv \in Args, NEW n \in 1..DataLen, NEW f \in BOOLEAN,
         NEW v,
         \/ cmd_ecc_pubkey_write(argv, n, v, f)
         \/ cmd_ecc_writeblob(argv, n, v, f)
  PROVE  Outcome(v)
<1> USE Sizes
<1>0. n \in 0..DataLen /\ 0 \in 0..DataLen
  OBVIOUS
<1>1. CASE cmd_ecc_pubkey_write(argv, n, v, f)
  <2> DEFINE bad == \/ n # 2 * PubKeySize \/ Len(argv) # 2
                    \/ ~SlotArg(argv[1])
  <2>1. CASE bad
    BY <1>0, <1>1, <2>1, RefuseOutcome DEF cmd_ecc_pubkey_write, Commands
  <2>2. CASE ~bad
    <3> DEFINE s == argv[1]
               ends == {k \in {BlockSize, 2 * BlockSize} : k < ZoneSize[s]}
                         \cup {ZoneSize[s]}
               total == IF ZoneSize[s] > 2 * BlockSize
                          THEN ZoneSize[s] ELSE -1
    <3>1. /\ atcab_write_pubkey(s, v, f)
          /\ Use("PUBKEY+WRITE", s, n, f, n)
      BY <1>1, <2>2 DEF cmd_ecc_pubkey_write
    <3>2. s \in Slots /\ "PUBKEY+WRITE" \in Writes
      BY <2>2 DEF SlotArg, Writes
    <3>3. WritePieces(s, ends, total, v, f)
      BY <3>1 DEF atcab_write_pubkey
    <3>4. ends \in SUBSET Nat /\ total \in Int
      BY <3>2, SizeAssumption
    <3>5. n \div 2 = 2 * BlockSize
      BY <2>2, SizeAssumption
    <3>6. total >= 0 => n \div 2 <= total /\ n \div 2 <= ZoneSize[s]
      BY <3>2, <3>5, SizeAssumption
    <3> HIDE DEF s, ends, total
    <3> QED BY <1>0, <3>1, <3>2, <3>3, <3>4, <3>6, WriteOutcome
  <2> QED BY <2>1, <2>2
<1>2. CASE cmd_ecc_writeblob(argv, n, v, f)
  <2> DEFINE count == Len(argv) = 3
             bad == \/ ~SlotArg(argv[1]) \/ ~Uint16(argv[2]) \/ argv[2] = 0
                    \/ n = 0 \/ n # (2 * argv[2]) % WordSize
  <2>1. CASE ~count
    BY <1>0, <1>2, <2>1, RefuseOutcome
    DEF cmd_ecc_writeblob, parse_and_check_write_args, Commands
  <2>2. CASE count /\ bad
    BY <1>0, <1>2, <2>2, RefuseOutcome
    DEF cmd_ecc_writeblob, parse_and_check_write_args, Commands
  <2>3. CASE count /\ ~bad
    <3> DEFINE s == argv[1]
               length == argv[2]
               ends == {k \in 1..length : k % AccessSize = 0}
    <3>0. /\ atcab_write_bytes_zone(s, length, v, f)
          /\ Use("WRITEBLOB", s, n, f, WriteExtent(ZoneSize[s], n, length))
      BY <1>2, <2>3
      DEF cmd_ecc_writeblob, parse_and_check_write_args
    <3>2. /\ s \in Slots /\ length \in Nat /\ "WRITEBLOB" \in Writes
          /\ n = (2 * length) % WordSize
      BY <2>3 DEF SlotArg, Uint16, Writes
    <3> HIDE DEF s, length
    <3>1. /\ atcab_write_bytes_zone(s, length, v, f)
          /\ Use("WRITEBLOB", s, n, f, n)
      <4>1. CASE length > ZoneSize[s]
        BY <3>0, <4>1 DEF WriteExtent
      <4>2. CASE ~(length > ZoneSize[s])
        <5>1. length <= ZoneSize[s] /\ ZoneSize[s] \in Nat
          BY <3>2, <4>2
        <5>2. n = 2 * length
          BY <3>2, <5>1, NoWrap
        <5>3. Larger(n, length) = n
          BY <3>2, <5>2 DEF Larger
        <5> QED BY <3>0, <4>2, <5>3 DEF WriteExtent
      <4> QED BY <4>1, <4>2
    <3>3. CASE length % AccessSize # 0 \/ length > ZoneSize[s]
      <4>1. Return("ecc_error", 0) /\ UNCHANGED device
        BY <3>1, <3>3 DEF atcab_write_bytes_zone
      <4> QED BY <1>0, <3>1, <3>2, <4>1, RejectedOutcome
    <3>4. CASE ~(length % AccessSize # 0 \/ length > ZoneSize[s])
      <4>1. WritePieces(s, ends, length, v, f)
        BY <3>1, <3>4 DEF atcab_write_bytes_zone
      <4>2. length <= ZoneSize[s] /\ ZoneSize[s] \in Nat
        BY <3>2, <3>4
      <4>3. n = 2 * length
        BY <3>2, <4>2, NoWrap
      <4>4. n \div 2 <= length /\ n \div 2 <= ZoneSize[s]
        BY <3>2, <4>2, <4>3
      <4>5. ends \in SUBSET Nat /\ length \in Int
        BY <3>2
      <4> HIDE DEF ends
      <4> QED BY <1>0, <3>1, <3>2, <4>1, <4>4, <4>5, WriteOutcome
    <3> QED BY <3>3, <3>4
  <2> QED BY <2>1, <2>2, <2>3
<1> QED BY <1>1, <1>2

\* LOCK: what is_slot_locked answers decides whether the device is asked.
LEMMA LockOutcome ==
  ASSUME TypeOK, NEW argv \in Args, NEW f \in BOOLEAN, NEW v,
         cmd_ecc_lock(argv, 0, f)
  PROVE  Outcome(v)
<1> USE Sizes
<1>0. 0 \in 0..DataLen /\ "LOCK" \in Commands
  BY DEF Commands
<1>1. CASE Len(argv) # 1 \/ ~SlotArg(argv[1])
  BY <1>0, <1>1, RefuseOutcome DEF cmd_ecc_lock
<1>2. CASE Len(argv) = 1 /\ SlotArg(argv[1])
  <2> DEFINE s == argv[1]
  <2>1. /\ \/ f /\ Failure
           \/ ~f /\ locked[s] /\ Return("ok", 0) /\ UNCHANGED device
           \/ ~locked[s] /\ atcab_lock_data_slot(s, f)
        /\ last' = [command |-> "LOCK", slot |-> s, received |-> 0,
                    fault |-> f, extent |-> 0]
    BY <1>2 DEF cmd_ecc_lock, Use, Record
  <2>2. s \in Slots
    BY <1>2 DEF SlotArg
  <2> HIDE DEF s
  <2> USE DEF Failure, Return
  <2>3. /\ status' \in {"ok", "ecc_error", "restarted"} /\ data_length' = 0
        /\ ~f => status' = "ok"
    BY <2>1 DEF atcab_lock_data_slot
  <2>4. Bounded
    <3>1. status' \in Statuses /\ data_length' \in 0..DataLen
      BY <2>3 DEF Statuses
    <3>2. last' \in Records /\ last'.extent <= DataLen
      BY <1>0, <2>1, <2>2 DEF Records
    <3> QED BY <3>1, <3>2 DEF Bounded
  <2>5. Answered
    BY <2>1, <2>3 DEF Answered
  <2>6. CASE f /\ Failure
    <3>1. Untouched
      BY <2>1, <2>6 DEF Untouched, Writes
    <3> QED BY <2>4, <2>5, <3>1 DEF Outcome
  <2>7. CASE ~f /\ locked[s] /\ Return("ok", 0) /\ UNCHANGED device
    <3>1. Untouched
      BY <2>1, <2>7 DEF Untouched, Writes
    <3> QED BY <2>4, <2>5, <3>1 DEF Outcome
  <2>8. CASE ~locked[s] /\ atcab_lock_data_slot(s, f)
    <3>1. last'.command = "LOCK" /\ last'.slot = s
      BY <2>1
    <3>2. \E done \in BOOLEAN :
            /\ locked' = [locked EXCEPT ![s] = done]
            /\ status' = "ok" => done
      BY <2>8 DEF atcab_lock_data_slot
    <3>3. content' = content
      BY <2>8 DEF atcab_lock_data_slot
    <3>4. Locked
      BY <2>2, <2>8, <3>1, <3>2, <3>3 DEF Locked
    <3> QED BY <2>4, <2>5, <3>4 DEF Outcome
  <2> QED BY <2>1, <2>6, <2>7, <2>8
<1> QED BY <1>1, <1>2
-----------------------------------------------------------------------------
\* Every step is one of the outcomes, followed by what the host learns.
LEMMA StepOutcome ==
  ASSUME TypeOK, Next
  PROVE  \E v \in Value : Outcome(v) /\ Learn(v)
<1>1. ASSUME NEW argv \in ArgLists PROVE argv \in Args
  BY <1>1, ArgAssumption DEF Args
<1>2. CASE PlainCommand
  <2>1. PICK argv \in ArgLists, f \in BOOLEAN :
          \/ cmd_ecc_serial(argv, 0, f)
          \/ cmd_ecc_genpubkey(argv, 0, f)
          \/ cmd_ecc_pubkey_read(argv, 0, f)
          \/ cmd_ecc_read(argv, 0, f)
          \/ cmd_ecc_otp_read(argv, 0, f)
          \/ cmd_ecc_lock(argv, 0, f)
    BY <1>2 DEF PlainCommand
  <2>2. Outcome(Blank)
    BY <1>1, <2>1, ReadersOutcome, LockOutcome
  <2>3. Learn(Blank) /\ Blank \in Value
    BY <1>2, ArgAssumption DEF PlainCommand
  <2> QED BY <2>2, <2>3
<1>3. ASSUME NEW v \in Value, BlobCommand(v)
      PROVE  Outcome(v) /\ Learn(v)
  <2>1. PICK argv \in ArgLists, f \in BOOLEAN :
          /\ HasBlob(argv)
          /\ \/ cmd_ecc_pubkey_write(argv, BlobLength(argv), v, f)
             \/ cmd_ecc_signdigest(argv, BlobLength(argv), f)
             \/ cmd_ecc_writeblob(argv, BlobLength(argv), v, f)
    BY <1>3 DEF BlobCommand
  <2>2. BlobLength(argv) \in 1..DataLen
    BY <2>1 DEF HasBlob
  <2>3. Outcome(v)
    BY <1>1, <2>1, <2>2, SignDigestOutcome, WritersOutcome
  <2> QED BY <1>3, <2>3 DEF BlobCommand
<1> QED BY <1>2, <1>3 DEF Next

\* A blob is at most as long as the data buffer, so what the host learns has
\* the right type.
LEMMA LearnType ==
  ASSUME TypeOK, NEW v \in Value, Bounded, Learn(v)
  PROVE  /\ known' \in [Slots -> [length : Nat, value : Value]]
         /\ known_locked' \in [Slots -> BOOLEAN]
<1> USE ArgAssumption
<1>1. last'.slot \in Slots \cup {-1} /\ last'.received \in Nat
  BY SizeAssumption DEF Bounded, Records
<1>2. last'.received \div 2 \in Nat
  BY <1>1
<1>3. /\ Told(last'.received \div 2, v) \in [length : Nat, value : Value]
      /\ Told(0, Blank) \in [length : Nat, value : Value]
  BY <1>2 DEF Told
<1>4. known \in [Slots -> [length : Nat, value : Value]]
  BY DEF TypeOK
<1>5. known' \in [Slots -> [length : Nat, value : Value]]
  BY <1>3, <1>4 DEF Learn
<1>6. known_locked' \in [Slots -> BOOLEAN]
  BY DEF Learn, TypeOK
<1> QED BY <1>5, <1>6

\* Every step preserves the types.
LEMMA StepTypeOK ==
  ASSUME TypeOK, NEW v \in Value, Outcome(v), Learn(v)
  PROVE  TypeOK'
<1>1. content' \in [Slots -> [1..DataLen -> Value]]
  <2>1. CASE Untouched \/ Locked
    BY <2>1 DEF Untouched, Locked, device, TypeOK
  <2>2. CASE Written(v)
    <3>1. content \in [Slots -> [1..DataLen -> Value]]
      BY DEF TypeOK
    <3>2. PICK k \in Nat : Overwrite(last'.slot, k, v)
      BY <2>2 DEF Written
    <3> DEFINE new == [i \in 1..DataLen |->
                        IF i <= k /\ ~locked[last'.slot]
                          THEN v ELSE content[last'.slot][i]]
    <3>3. last'.slot \in Slots
      BY <2>2 DEF Written
    <3>4. content' = [content EXCEPT ![last'.slot] = new]
      BY <3>1, <3>2, <3>3 DEF Overwrite
    <3>5. new \in [1..DataLen -> Value]
      BY <3>1, <3>3
    <3> HIDE DEF new
    <3> QED BY <3>1, <3>4, <3>5
  <2> QED BY <2>1, <2>2 DEF Outcome
<1>2. locked' \in [Slots -> BOOLEAN]
  BY DEF Outcome, Untouched, Written, Locked, device, TypeOK
<1>3. Bounded
  BY DEF Outcome
<1>4. /\ status' \in Statuses /\ data_length' \in Nat /\ last' \in Records
  BY <1>3, SizeAssumption DEF Bounded
<1> QED BY <1>1, <1>2, <1>3, <1>4, LearnType DEF TypeOK, Statuses, Records

\* No step makes anything untrue that the host was told.
LEMMA StepKnowledgeTrue ==
  ASSUME TypeOK, KnowledgeTrue, NEW v \in Value, Outcome(v), Learn(v)
  PROVE  KnowledgeTrue'
<1> SUFFICES ASSUME NEW s \in Slots
             PROVE  /\ known'[s].length <= ZoneSize[s]
                    /\ \A i \in 1..known'[s].length :
                         content'[s][i] = known'[s].value
                    /\ known_locked'[s] => locked'[s]
  BY DEF KnowledgeTrue
<1> DEFINE OldKnown == known'[s] = known[s]
           Forgotten == known'[s] = Told(0, Blank)
           NewKnown == /\ last'.command \in Writes /\ last'.slot = s
                       /\ status' = "ok"
                       /\ known'[s] = Told(last'.received \div 2, v)
<1>1. /\ known[s].length <= ZoneSize[s]
      /\ \A i \in 1..known[s].length : content[s][i] = known[s].value
      /\ known_locked[s] => locked[s]
  BY DEF KnowledgeTrue
<1>2. /\ known \in [Slots -> [length : Nat, value : Value]]
      /\ known_locked \in [Slots -> BOOLEAN]
      /\ content \in [Slots -> [1..DataLen -> Value]]
      /\ locked \in [Slots -> BOOLEAN]
  BY DEF TypeOK
<1>3. last'.slot \in Slots \cup {-1} /\ last'.received \in 0..DataLen
  BY DEF Outcome, Bounded, Records
<1>4. -1 \notin Slots
  BY SizeAssumption DEF Slots
<1>5. OldKnown \/ Forgotten \/ NewKnown
  BY <1>2, <1>3 DEF Learn, Writes
<1>6. ASSUME OldKnown, ~Forgotten, last'.command \in Writes, last'.slot = s
      PROVE  known_locked[s] \/ status' = "ok"
  BY <1>2, <1>4, <1>6 DEF Learn, Writes
<1>7. CASE Untouched
  <2>1. content' = content /\ locked' = locked
    BY <1>7 DEF Untouched, device
  <2>2. ~NewKnown
    BY <1>4, <1>7 DEF Untouched
  <2>3. known_locked'[s] => known_locked[s] \/ locked[s]
    BY <1>2, <1>3, <1>7 DEF Learn, Untouched
  <2>4. CASE OldKnown
    BY <1>1, <2>1, <2>3, <2>4
  <2>5. CASE Forgotten
    BY <1>1, <2>1, <2>3, <2>5, SizeAssumption DEF Told
  <2> QED BY <1>5, <2>2, <2>4, <2>5
<1>8. CASE Locked
  <2>1. content' = content /\ last'.command = "LOCK"
    BY <1>8 DEF Locked
  <2>2. OldKnown
    BY <2>1 DEF Learn
  <2>3. PICK done \in BOOLEAN :
          /\ locked' = [locked EXCEPT ![last'.slot] = done]
          /\ status' = "ok" => done
          /\ ~done => ~locked[last'.slot]
    BY <1>8 DEF Locked
  <2>4. locked[s] => locked'[s]
    BY <1>2, <2>3
  <2>5. known_locked'[s] => known_locked[s] \/ locked'[s]
    BY <1>2, <1>3, <2>3 DEF Learn
  <2> QED BY <1>1, <2>1, <2>2, <2>4, <2>5
<1>9. CASE Written(v)
  <2>1. last'.command \in Writes /\ last'.slot \in Slots /\ locked' = locked
    BY <1>9 DEF Written
  <2>2. known_locked'[s] => locked'[s]
    BY <1>1, <2>1 DEF Learn, Writes
  <2>3. PICK k \in Nat :
          /\ Overwrite(last'.slot, k, v)
          /\ status' = "ok" => /\ ~locked[last'.slot]
                               /\ last'.received \div 2 <= k
                               /\ last'.received \div 2 <= ZoneSize[last'.slot]
    BY <1>9 DEF Written
  <2>4. CASE last'.slot # s
    <3>1. content'[s] = content[s]
      BY <1>2, <2>3, <2>4 DEF Overwrite
    <3>2. OldKnown
      BY <1>2, <2>1, <2>4 DEF Learn
    <3> QED BY <1>1, <2>2, <3>1, <3>2
  <2>5. CASE last'.slot = s
    <3>1. content'[s] = [i \in 1..DataLen |->
             IF i <= k /\ ~locked[s] THEN v ELSE content[s][i]]
      BY <1>2, <2>3, <2>5 DEF Overwrite
    <3>2. CASE NewKnown
      <4> DEFINE n == last'.received \div 2
      <4>1. n \in Nat /\ n <= k /\ n <= ZoneSize[s] /\ n <= DataLen
        BY <1>3, <2>3, <2>5, <3>2, SizeAssumption
      <4>2. ~locked[s]
        BY <2>3, <2>5, <3>2
      <4>3. \A i \in 1..n : content'[s][i] = v
        BY <3>1, <4>1, <4>2, SizeAssumption
      <4>4. known'[s].length = n /\ known'[s].value = v
        BY <3>2 DEF Told
      <4> HIDE DEF n
      <4> QED BY <2>2, <4>1, <4>3, <4>4
    <3>3. CASE Forgotten
      BY <2>2, <3>3, SizeAssumption DEF Told
    <3>4. CASE OldKnown /\ ~Forgotten /\ ~NewKnown
      <4>1. status' # "ok"
        BY <1>2, <1>4, <2>1, <2>5, <3>4 DEF Learn, Writes
      <4>2. locked[s]
        BY <1>1, <1>6, <2>1, <2>5, <3>4, <4>1
      <4>3. content'[s] = content[s]
        BY <1>2, <3>1, <4>2
      <4> QED BY <1>1, <2>2, <3>4, <4>3
    <3> QED BY <1>5, <3>2, <3>3, <3>4
  <2> QED BY <2>4, <2>5
<1> QED BY <1>7, <1>8, <1>9 DEF Outcome
-----------------------------------------------------------------------------
\* The inductive invariant: the types and the truth of what the host knows.
EccInv == TypeOK /\ KnowledgeTrue

\* It holds when the device is delivered.
LEMMA InitEccInv == Init => EccInv
<1> SUFFICES ASSUME Init PROVE EccInv
  OBVIOUS
<1>1. DataLen \in Nat /\ Blank \in Value
  BY SizeAssumption, ArgAssumption
<1>2. TypeOK
  BY <1>1 DEF Init, TypeOK, Record, Told, Commands
<1>3. KnowledgeTrue
  BY SizeAssumption DEF Init, KnowledgeTrue, Told
<1> QED BY <1>2, <1>3 DEF EccInv

\* Every step preserves it.
LEMMA StepEccInv == EccInv /\ [Next]_vars => EccInv'
<1> SUFFICES ASSUME EccInv, [Next]_vars PROVE EccInv'
  OBVIOUS
<1>1. CASE Next
  <2>1. PICK v \in Value : Outcome(v) /\ Learn(v)
    BY <1>1, StepOutcome DEF EccInv
  <2> QED BY <2>1, StepTypeOK, StepKnowledgeTrue DEF EccInv
<1>2. CASE UNCHANGED vars
  BY <1>2 DEF vars, EccInv, TypeOK, KnowledgeTrue
<1> QED BY <1>1, <1>2

\* The types hold in every reachable state.
THEOREM EccTypeCorrect == Spec => []TypeOK
BY InitEccInv, StepEccInv, PTL DEF Spec, EccInv

\* What the host was told of the content and the lock of a slot is true, and
\* no later command, failure or restart makes it untrue.
THEOREM EccKnowledgeTrue == Spec => []KnowledgeTrue
BY InitEccInv, StepEccInv, PTL DEF Spec, EccInv

\* No command reads, writes or sends anything past the end of the data buffer.
THEOREM EccBufferNotOverrun == Spec => []BufferNotOverrun
<1>1. Init => BufferNotOverrun
  BY SizeAssumption DEF Init, BufferNotOverrun, Record
<1>2. BufferNotOverrun /\ EccInv /\ [Next]_vars => BufferNotOverrun'
  <2> SUFFICES ASSUME BufferNotOverrun, EccInv, [Next]_vars
               PROVE  BufferNotOverrun'
    OBVIOUS
  <2>1. CASE Next
    <3>1. Bounded
      BY <2>1, StepOutcome DEF EccInv, Outcome
    <3> QED BY <3>1, SizeAssumption DEF Bounded, BufferNotOverrun
  <2>2. CASE UNCHANGED vars
    BY <2>2 DEF vars, BufferNotOverrun
  <2> QED BY <2>1, <2>2
<1> QED BY <1>1, <1>2, InitEccInv, StepEccInv, PTL DEF Spec

\* Of all handlers only SIGNDIGEST answers a failure with data.
THEOREM EccOnlySignDigestEchoes == Spec => []OnlySignDigestEchoes
<1>1. Init => OnlySignDigestEchoes
  BY DEF Init, OnlySignDigestEchoes
<1>2. OnlySignDigestEchoes /\ EccInv /\ [Next]_vars => OnlySignDigestEchoes'
  <2> SUFFICES ASSUME OnlySignDigestEchoes, EccInv, [Next]_vars
               PROVE  OnlySignDigestEchoes'
    OBVIOUS
  <2>1. CASE Next
    <3>1. Answered
      BY <2>1, StepOutcome DEF EccInv, Outcome
    <3> QED BY <3>1 DEF Answered, OnlySignDigestEchoes
  <2>2. CASE UNCHANGED vars
    BY <2>2 DEF vars, OnlySignDigestEchoes
  <2> QED BY <2>1, <2>2
<1> QED BY <1>1, <1>2, InitEccInv, StepEccInv, PTL DEF Spec

\* A LOCK that was carried out but not answered may be repeated.
THEOREM EccLockMayBeRepeated == Spec => LockMayBeRepeated
<1>1. EccInv /\ [Next]_vars
        => [last'.command = "LOCK" /\ last'.slot # -1 /\ ~last'.fault
              => status' = "ok"]_vars
  <2> SUFFICES ASSUME EccInv, Next
               PROVE  last'.command = "LOCK" /\ last'.slot # -1 /\ ~last'.fault
                        => status' = "ok"
    OBVIOUS
  <2>1. Answered
    BY StepOutcome DEF EccInv, Outcome
  <2> QED BY <2>1 DEF Answered
<1> QED BY <1>1, InitEccInv, StepEccInv, PTL DEF Spec, LockMayBeRepeated
=============================================================================
