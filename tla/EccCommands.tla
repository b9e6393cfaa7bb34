---------------------------- MODULE EccCommands -----------------------------
(***************************************************************************)
(* The handlers of ecc_commands.c: what mc_parser() gets back from each    *)
(* (a status, and in data_length the number of bytes of the data buffer it *)
(* sends to the host) and what they change in the secure element.          *)
(*                                                                         *)
(* A handler runs to its end in one step.  Within it CryptoAuthLib talks   *)
(* to the device several times; each exchange may be lost before or after  *)
(* the device has done its part, and the processor may be reset between    *)
(* any two, so a write may leave any prefix of what it was to write.       *)
(***************************************************************************)
EXTENDS Integers, Sequences

CONSTANTS
  MaxSlot,     \* MAX_ECC_DATA_SLOT
  FirstKeySlot,\* 8, the first slot that atcab_read_pubkey() accepts
  ZoneSize,    \* ZoneSize[s]: bytes in data slot s, see atcab_get_zone_size()
  OtpSize,     \* bytes in the OTP zone
  DataLen,     \* MC_DATA_BUFFER_LENGTH
  WordSize,    \* number of values of a uint16_t
  ByteSize,    \* number of values of a uint8_t
  AccessSize,  \* ATCA_WORD_SIZE
  BlockSize,   \* ATCA_BLOCK_SIZE
  PubKeySize, SigSize, SerialSize,
  Value,       \* what a slot or a blob is filled with ...
  Blank,       \* ... and what the slots are delivered with
  Malformed,   \* an argument that is not a number
  ArgLists     \* the argument lists the parser may pass

Slots == 0..MaxSlot

ASSUME SizeAssumption ==
  /\ MaxSlot \in Nat /\ FirstKeySlot \in Nat
  /\ ZoneSize \in [Slots -> Nat \ {0}]
  /\ OtpSize \in Nat \ {0}
  /\ DataLen \in Nat /\ DataLen % 2 = 0
  /\ WordSize \in Nat /\ WordSize > DataLen
  /\ ByteSize \in Nat \ {0}
  /\ AccessSize \in Nat \ {0} /\ BlockSize \in Nat \ {0}
  /\ PubKeySize = 2 * BlockSize
  /\ SigSize \in Nat /\ SerialSize \in Nat

\* The data buffer holds the hex encoding of the largest thing there is.
ASSUME BufferAssumption ==
  /\ \A s \in Slots : 2 * ZoneSize[s] <= DataLen
  /\ 2 * OtpSize <= DataLen
  /\ 2 * PubKeySize <= DataLen /\ 2 * SigSize <= DataLen
  /\ 2 * SerialSize <= DataLen

ASSUME ArgAssumption ==
  /\ Blank \in Value
  /\ Malformed \notin Int
  /\ ArgLists \subseteq Seq(Nat \cup {Malformed})

VARIABLES
  content,     \* the secure element: content[s][i] is byte i of slot s ...
  locked,      \* ... and whether slot s is locked
  status,      \* what the last handler returned, or "restarted"
  data_length, \* how many bytes of the data buffer are sent back
  last,        \* history: the last command, see NoCommand
  known,       \* history: the bytes slot s holds as far as the host was told
  known_locked \* history: whether the host was told that slot s is locked

device == <<content, locked>>
vars == <<content, locked, status, data_length, last, known, known_locked>>

\* slot: the slot the command addressed, or -1; received: data_length at the
\* call; fault: the device refused or did not answer; extent: how much of the
\* data buffer was read or written.
Record(c, s, n, f, e) ==
  [command |-> c, slot |-> s, received |-> n, fault |-> f, extent |-> e]

Told(n, v) == [length |-> n, value |-> v]

Init == /\ content = [s \in Slots |-> [i \in 1..DataLen |-> Blank]]
        /\ locked = [s \in Slots |-> FALSE]
        /\ status = "ok" /\ data_length = 0
        /\ last = Record("none", -1, 0, FALSE, 0)
        /\ known = [s \in Slots |-> Told(0, Blank)]
        /\ known_locked = [s \in Slots |-> FALSE]

Uint16(a) == a \in 0..WordSize-1    \* parse_arg_uint16()
SlotArg(a) == a \in Slots           \* parse_arg_ecc_slot()

Return(st, n) == status' = st /\ data_length' = n

\* Every way a command to the device can go wrong on the way.
Failure == /\ \E st \in {"ecc_error", "restarted"} : Return(st, 0)
           /\ UNCHANGED device

Larger(m, n) == IF m >= n THEN m ELSE n
-----------------------------------------------------------------------------
(* What the handlers use of CryptoAuthLib.                                 *)

\* Bytes 1..k of slot s take the value v, if the device accepts writes to it.
Overwrite(s, k, v) ==
  content' = [content EXCEPT ![s] =
                [i \in DOMAIN @ |-> IF i <= k /\ ~locked[s] THEN v ELSE @[i]]]

\* A write in pieces that end at the given offsets: it stops at the first one
\* that fails.
WritePieces(s, ends, total, v, f) ==
  \E k \in ends \cup {0} :
    /\ Overwrite(s, k, v)
    /\ locked' = locked
    /\ \/ k = total /\ ~locked[s] /\ ~f /\ Return("ok", 0)
       \/ f /\ \E st \in {"ecc_error", "restarted"} : Return(st, 0)

atcab_write_bytes_zone(s, length, v, f) ==
  IF length % AccessSize # 0 \/ length > ZoneSize[s]
    THEN ~f /\ Return("ecc_error", 0) /\ UNCHANGED device
    ELSE WritePieces(s, {k \in 1..length : k % AccessSize = 0}, length, v, f)

\* Three blocks, whatever the size of the slot; the device does not accept a
\* block that starts past its end.
atcab_write_pubkey(s, v, f) ==
  WritePieces(s, {k \in {BlockSize, 2 * BlockSize} : k < ZoneSize[s]}
                   \cup {ZoneSize[s]},
              IF ZoneSize[s] > 2 * BlockSize THEN ZoneSize[s] ELSE -1, v, f)

\* A command that only reads: the answer has "size" raw bytes.
Query(size, f) == IF f THEN Failure
                  ELSE Return("ok", 2 * size) /\ UNCHANGED device

atcab_read_bytes_zone(zonesize, length, f) ==
  IF length > zonesize
    THEN ~f /\ Return("ecc_error", 0) /\ UNCHANGED device
    ELSE Query(length, f)

atcab_read_pubkey(s, f) ==
  IF s < FirstKeySlot
    THEN ~f /\ Return("ecc_error", 0) /\ UNCHANGED device
    ELSE Query(PubKeySize, f)

\* The device refuses to lock a slot twice.
atcab_lock_data_slot(s, f) ==
  /\ content' = content
  /\ IF locked[s]
       THEN ~f /\ Return("ecc_error", 0) /\ locked' = locked
       ELSE \/ ~f /\ Return("ok", 0) /\ locked' = [locked EXCEPT ![s] = TRUE]
            \/ /\ f /\ \E st \in {"ecc_error", "restarted"} : Return(st, 0)
               /\ \E done \in BOOLEAN : locked' = [locked EXCEPT ![s] = done]

\* Hex decoding: the length of the result; an odd character counts as a byte.
convert_hex2bin(n) == IF n < 2 THEN 0 ELSE (n \div 2) + (n % 2)
-----------------------------------------------------------------------------
(* The handlers.  n is data_length at the call: the length of the blob, or *)
(* 0 for a command without one; v is what the blob is filled with; f says  *)
(* whether an exchange with the device fails.                              *)

\* A command refused for its arguments; data_length is left at d.
Refuse(c, n, st, d) == /\ Return(st, d)
                       /\ UNCHANGED device
                       /\ last' = Record(c, -1, n, FALSE, 0)

\* A command that reaches the device, on slot s, and uses e bytes of the data
\* buffer.
Use(c, s, n, f, e) == last' = Record(c, s, n, f, e)

cmd_ecc_serial(argv, n, f) ==
  IF argv # <<>> THEN Refuse("SERIAL", n, "bad_count", n)
  ELSE Query(SerialSize, f) /\ Use("SERIAL", -1, n, f, 2 * SerialSize)

\* Mutant: the slot is not checked.
cmd_ecc_genpubkeyAnySlot(argv, n, f) ==
  IF Len(argv) > 1 THEN Refuse("GENPUBKEY", n, "bad_count", 0)
  ELSE /\ Query(PubKeySize, f)
       /\ Use("GENPUBKEY", IF argv = <<>> THEN 0 ELSE argv[1], n, f,
              2 * PubKeySize)

cmd_ecc_genpubkey(argv, n, f) ==
  IF Len(argv) > 1 THEN Refuse("GENPUBKEY", n, "bad_count", 0)
  ELSE IF argv # <<>> /\ ~SlotArg(argv[1])
         THEN Refuse("GENPUBKEY", n, "bad_value", 0)
  ELSE /\ Query(PubKeySize, f)
       /\ Use("GENPUBKEY", IF argv = <<>> THEN 0 ELSE argv[1], n, f,
              2 * PubKeySize)

cmd_ecc_pubkey_read(argv, n, f) ==
  IF Len(argv) # 1 THEN Refuse("PUBKEY+READ", n, "bad_count", 0)
  ELSE IF ~SlotArg(argv[1]) THEN Refuse("PUBKEY+READ", n, "bad_value", 0)
  ELSE /\ atcab_read_pubkey(argv[1], f)
       /\ Use("PUBKEY+READ", argv[1], n, f, 2 * PubKeySize)

\* Mutant: data_length is cleared only once the arguments are accepted.
cmd_ecc_pubkey_writeEchoes(argv, n, v, f) ==
  IF n # 2 * PubKeySize THEN Refuse("PUBKEY+WRITE", n, "bad_value", 0)
  ELSE IF Len(argv) # 2 THEN Refuse("PUBKEY+WRITE", n, "bad_count", n)
  ELSE IF ~SlotArg(argv[1]) THEN Refuse("PUBKEY+WRITE", n, "bad_value", n)
  ELSE /\ atcab_write_pubkey(argv[1], v, f)
       /\ Use("PUBKEY+WRITE", argv[1], n, f, n)

cmd_ecc_pubkey_write(argv, n, v, f) ==
  IF n # 2 * PubKeySize THEN Refuse("PUBKEY+WRITE", n, "bad_value", 0)
  ELSE IF Len(argv) # 2 THEN Refuse("PUBKEY+WRITE", n, "bad_count", 0)
  ELSE IF ~SlotArg(argv[1]) THEN Refuse("PUBKEY+WRITE", n, "bad_value", 0)
  ELSE /\ atcab_write_pubkey(argv[1], v, f)
       /\ Use("PUBKEY+WRITE", argv[1], n, f, n)

\* digest_size is a uint8_t; a digest of another size is refused, but
\* data_length is left as it is.
cmd_ecc_signdigest(argv, n, f) ==
  IF Len(argv) # 2 THEN Refuse("SIGNDIGEST", n, "bad_count", 0)
  ELSE IF convert_hex2bin(n) % ByteSize # BlockSize
         THEN Refuse("SIGNDIGEST", n, "bad_value", n)
  ELSE /\ Query(SigSize, f)
       /\ Use("SIGNDIGEST", 0, n, f,
              Larger(2 * convert_hex2bin(n), 2 * SigSize))

\* The raw bytes are read to data[length] and encoded to data[0].
ReadExtent(zonesize, length) == IF length > zonesize THEN 0 ELSE 2 * length

\* The slot is mandatory, the length defaults to the whole slot.
parse_and_check_read_args(argv) ==
  IF Len(argv) \notin 1..2 THEN "bad_count"
  ELSE IF \/ ~SlotArg(argv[1])
          \/ Len(argv) = 2 /\ (~Uint16(argv[2]) \/ argv[2] = 0)
         THEN "bad_value"
  ELSE "ok"

cmd_ecc_read(argv, n, f) ==
  IF parse_and_check_read_args(argv) # "ok"
    THEN Refuse("READ", n, parse_and_check_read_args(argv), 0)
  ELSE LET size == ZoneSize[argv[1]]
           length == IF Len(argv) = 2 THEN argv[2] ELSE size
       IN  /\ atcab_read_bytes_zone(size, length, f)
           /\ Use("READ", argv[1], n, f, ReadExtent(size, length))

parse_and_check_otp_read_args(argv) ==
  IF Len(argv) > 1 THEN "bad_count"
  ELSE IF argv # <<>> /\ (~Uint16(argv[1]) \/ argv[1] = 0) THEN "bad_value"
  ELSE "ok"

cmd_ecc_otp_read(argv, n, f) ==
  IF parse_and_check_otp_read_args(argv) # "ok"
    THEN Refuse("OTP+READ", n, parse_and_check_otp_read_args(argv), 0)
  ELSE LET length == IF argv = <<>> THEN OtpSize ELSE argv[1]
       IN  /\ atcab_read_bytes_zone(OtpSize, length, f)
           /\ Use("OTP+READ", -1, n, f, ReadExtent(OtpSize, length))

parse_and_check_write_args(argv) ==
  IF Len(argv) # 3 THEN "bad_count"
  ELSE IF ~SlotArg(argv[1]) \/ ~Uint16(argv[2]) \/ argv[2] = 0
         THEN "bad_value"
  ELSE "ok"

\* Mutant: CryptoAuthLib does not refuse a length over the size of the slot.
WriteExtentAnyLength(zonesize, n, length) == Larger(n, length)

\* All digits are decoded, and as many raw bytes are written as the argument
\* says, however many were sent.
WriteExtent(zonesize, n, length) ==
  IF length > zonesize THEN n ELSE Larger(n, length)

\* length * 2 is computed in 16 bits.
cmd_ecc_writeblob(argv, n, v, f) ==
  IF parse_and_check_write_args(argv) # "ok"
    THEN Refuse("WRITEBLOB", n, parse_and_check_write_args(argv), 0)
  ELSE IF n = 0 \/ n # (2 * argv[2]) % WordSize
         THEN Refuse("WRITEBLOB", n, "bad_value", 0)
  ELSE /\ atcab_write_bytes_zone(argv[1], argv[2], v, f)
       /\ Use("WRITEBLOB", argv[1], n, f,
              WriteExtent(ZoneSize[argv[1]], n, argv[2]))

\* Mutant: is_locked is used even if it could not be read.
cmd_ecc_lockUnread(argv, n, f) ==
  IF Len(argv) # 1 THEN Refuse("LOCK", n, "bad_count", n)
  ELSE IF ~SlotArg(argv[1]) THEN Refuse("LOCK", n, "bad_value", n)
  ELSE /\ \/ f /\ Return("ok", n) /\ UNCHANGED device
          \/ ~f /\ locked[argv[1]] /\ Return("ok", n) /\ UNCHANGED device
          \/ ~locked[argv[1]] /\ atcab_lock_data_slot(argv[1], f)
       /\ Use("LOCK", argv[1], n, f, 0)

\* Mutant: the slot is locked without asking whether it is.
cmd_ecc_lockAgain(argv, n, f) ==
  IF Len(argv) # 1 THEN Refuse("LOCK", n, "bad_count", n)
  ELSE IF ~SlotArg(argv[1]) THEN Refuse("LOCK", n, "bad_value", n)
  ELSE atcab_lock_data_slot(argv[1], f) /\ Use("LOCK", argv[1], n, f, 0)

\* The lock of the slot is read first: a slot is never locked twice.
cmd_ecc_lock(argv, n, f) ==
  IF Len(argv) # 1 THEN Refuse("LOCK", n, "bad_count", n)
  ELSE IF ~SlotArg(argv[1]) THEN Refuse("LOCK", n, "bad_value", n)
  ELSE /\ \/ f /\ Failure
          \/ ~f /\ locked[argv[1]] /\ Return("ok", n) /\ UNCHANGED device
          \/ ~locked[argv[1]] /\ atcab_lock_data_slot(argv[1], f)
       /\ Use("LOCK", argv[1], n, f, 0)
-----------------------------------------------------------------------------
(* What the host may conclude from an answer.  After a write that failed   *)
(* it knows nothing of the slot any more, unless it had locked it.         *)
Learn(v) ==
  /\ known' =
       IF last'.command \notin {"WRITEBLOB", "PUBKEY+WRITE"} \/ last'.slot = -1
         THEN known
       ELSE IF status' = "ok"
         THEN [known EXCEPT ![last'.slot] = Told(last'.received \div 2, v)]
       ELSE IF known_locked[last'.slot] THEN known
       ELSE [known EXCEPT ![last'.slot] = Told(0, Blank)]
  /\ known_locked' =
       IF last'.command = "LOCK" /\ last'.slot # -1 /\ status' = "ok"
         THEN [known_locked EXCEPT ![last'.slot] = TRUE]
         ELSE known_locked

\* mc_parser() calls the handler of a blob command with as many bytes as the
\* last argument says, taken modulo 2^16; it does not get there without one.
BlobLength(argv) == argv[Len(argv)] % WordSize

HasBlob(argv) == /\ argv # <<>>
                 /\ argv[Len(argv)] # Malformed
                 /\ BlobLength(argv) \in 1..DataLen

PlainCommand ==
  /\ \E argv \in ArgLists, f \in BOOLEAN :
       \/ cmd_ecc_serial(argv, 0, f)
       \/ cmd_ecc_genpubkey(argv, 0, f)
       \/ cmd_ecc_pubkey_read(argv, 0, f)
       \/ cmd_ecc_read(argv, 0, f)
       \/ cmd_ecc_otp_read(argv, 0, f)
       \/ cmd_ecc_lock(argv, 0, f)
  /\ Learn(Blank)

BlobCommand(v) ==
  /\ \E argv \in ArgLists, f \in BOOLEAN :
       /\ HasBlob(argv)
       /\ \/ cmd_ecc_pubkey_write(argv, BlobLength(argv), v, f)
          \/ cmd_ecc_signdigest(argv, BlobLength(argv), f)
          \/ cmd_ecc_writeblob(argv, BlobLength(argv), v, f)
  /\ Learn(v)

Next == PlainCommand \/ \E v \in Value : BlobCommand(v)

Spec == Init /\ [][Next]_vars
-----------------------------------------------------------------------------
Commands == {"none", "SERIAL", "GENPUBKEY", "PUBKEY+READ", "PUBKEY+WRITE",
             "SIGNDIGEST", "READ", "OTP+READ", "WRITEBLOB", "LOCK"}

TypeOK ==
  /\ content \in [Slots -> [1..DataLen -> Value]]
  /\ locked \in [Slots -> BOOLEAN]
  /\ status \in {"ok", "bad_count", "bad_value", "ecc_error", "restarted"}
  /\ data_length \in Nat
  /\ last \in [command : Commands, slot : Slots \cup {-1},
               received : 0..DataLen, fault : BOOLEAN, extent : Nat]
  /\ known \in [Slots -> [length : Nat, value : Value]]
  /\ known_locked \in [Slots -> BOOLEAN]

\* What the host was told is true, and stays true: a write that was answered
\* OK put the whole blob into the slot and nothing has changed it since, and a
\* slot whose LOCK was answered OK is locked.
KnowledgeTrue ==
  \A s \in Slots :
    /\ known[s].length <= ZoneSize[s]
    /\ \A i \in 1..known[s].length : content[s][i] = known[s].value
    /\ known_locked[s] => locked[s]

\* No handler reads or writes past the end of the data buffer, nor makes the
\* parser send what lies there, whatever lengths the host asks for, one that
\* fits its blob only modulo 2^16 included.
BufferNotOverrun == data_length <= DataLen /\ last.extent <= DataLen

\* The only answer with an error status that carries data is that of
\* SIGNDIGEST to a digest of the wrong size.
OnlySignDigestEchoes ==
  status # "ok" /\ data_length # 0
    => last.command = "SIGNDIGEST" /\ status = "bad_value"

\* LOCK may be repeated: if its answer was lost and the slot is locked
\* already, the next one succeeds unless the device fails again.
LockMayBeRepeated ==
  [][ last'.command = "LOCK" /\ last'.slot # -1 /\ ~last'.fault
        => status' = "ok" ]_vars

\* ecc_commands.c:256-257: a command that fails returns no data.
FailureReturnsNoData == status # "ok" => data_length = 0

\* ecc_commands.c:241: what is signed is the digest the host sent, all of it.
WholeDigestSigned ==
  last.command = "SIGNDIGEST" /\ status = "ok"
    => last.received <= 2 * BlockSize
=============================================================================
