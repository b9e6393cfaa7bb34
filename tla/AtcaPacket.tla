----------------------------- MODULE AtcaPacket -----------------------------
(***************************************************************************)
(* The packets of CryptoAuthLib as functions: their sizes and checksums     *)
(* (atca_command.c), what makes a response acceptable (atca_i2c_hal.c,     *)
(* atca_execution.c) and the answers to a wake-up (atca_hal.c).             *)
(*                                                                         *)
(* A packet is a sequence of bytes that starts with its size and ends with  *)
(* its checksum.                                                           *)
(***************************************************************************)
EXTENDS Naturals, Sequences, SequencesExt

MinSize == 7       \* ATCA_CMD_SIZE_MIN
RspMin == 4        \* ATCA_RSP_SIZE_MIN
RspMax == 75       \* ATCA_RSP_SIZE_MAX
BufferSize == 192  \* data of ATCAPacket
BlockSize == 32    \* ATCA_BLOCK_SIZE

Bit(byte, i) == (byte \div 2 ^ i) % 2 = 1

\* Commands that are their two parameters and no data.
Plain == {"COUNTER", "HMAC", "INFO", "LOCK", "PAUSE", "RANDOM", "READ", "SIGN",
          "UPDATE_EXTRA", "SELFTEST"}

atNonce(param1) ==
  CASE param1 % 4 \in {0, 1}               -> MinSize + 20
    [] param1 % 4 = 3 /\ ~Bit(param1, 5)   -> MinSize + 32
    [] param1 % 4 = 3 /\ Bit(param1, 5)    -> MinSize + 64
    [] OTHER                               -> 0

atSecureBoot(param1) ==
  CASE param1 % 8 \in {5, 7}  -> MinSize + 96
    [] param1 % 8 = 6         -> MinSize + 32
    [] OTHER                  -> 0

\* The digest to check is in the device or follows, with the public key or not.
atVerify(param1) ==
  CASE param1 % 4 = 0         -> 71
    [] param1 % 4 \in {1, 2}  -> 135
    [] OTHER                  -> 90

atSHA(param1, length) ==
  IF param1 % 8 \in {0, 3, 4, 6} THEN MinSize ELSE (MinSize + length) % 256

atKDF(param1, length) ==
  (MinSize + 4 + (IF (param1 \div 32) % 4 = 1 THEN 16 ELSE length)) % 256

\* txsize, a byte, or 0 for ATCA_BAD_PARAM.  length is the number of bytes that
\* the caller adds: a MAC, other data, a message or a context.
TxSize(opcode, param1, length) ==
  CASE opcode \in Plain        -> MinSize
    [] opcode = "CHECKMAC"     -> 84
    [] opcode = "DERIVE_KEY"   -> MinSize + length
    [] opcode = "ECDH"         -> MinSize + 64
    [] opcode = "GENDIG"       -> MinSize + IF param1 = 3 THEN 32 ELSE length
    [] opcode = "GENKEY"       -> IF Bit(param1, 4) THEN 10 ELSE MinSize
    [] opcode = "MAC"          -> IF Bit(param1, 0) THEN MinSize ELSE 39
    [] opcode = "NONCE"        -> atNonce(param1)
    [] opcode = "PRIVWRITE"    -> 75
    [] opcode = "SECUREBOOT"   -> atSecureBoot(param1)
    [] opcode = "SHA"          -> atSHA(param1, length)
    [] opcode = "VERIFY"       -> atVerify(param1)
    [] opcode = "WRITE"        -> MinSize + length
                                    + IF Bit(param1, 7) THEN BlockSize ELSE 4
    [] opcode = "AES"          -> MinSize + IF param1 % 8 = 3 THEN 32 ELSE 16
    [] opcode = "KDF"          -> atKDF(param1, length)

\* The register of the checksum is the set of its bits that are 1.  It moves up
\* one bit, and is divided by the polynomial where the bit that leaves it and
\* the next bit of the data, the lowest of a byte first, differ.
Polynomial == {15, 2, 0}
Shifted(register, bit) ==
  LET moved == {b + 1 : b \in register} \ {16}
  IN  IF bit # (15 \in register) THEN SymDiff(moved, Polynomial) ELSE moved

Value(bits) == FoldSet(LAMBDA b, sum : 2 ^ b + sum, 0, bits)

\* The register after byte, and after data.
AfterByte(before, byte) ==
  LET register[n \in 0..8] ==
        IF n = 0 THEN before ELSE Shifted(register[n - 1], Bit(byte, n - 1))
  IN  register[8]

\* (The union binds the value of the register, so that TLC does not nest the
\* evaluation of all bits of data.)
atCRC(data) ==
  LET register[n \in 0..Len(data)] ==
        IF n = 0 THEN {}
        ELSE UNION {AfterByte(before, data[n]) : before \in {register[n - 1]}}
      last == register[Len(data)]
  IN  <<Value(last \cap 0..7), Value({b - 8 : b \in last \cap 8..15})>>

\* The checksum is written over what txsize leaves for it.
atCalcCrc(packet) ==
  LET data == SubSeq(packet, 1, packet[1] - 2)
  IN  data \o atCRC(data)

\* count is a byte: a size below 2 would check the bytes up to 254 or 255.
atCheckCrc(response) ==
  LET count == (response[1] + 254) % 256
  IN  atCRC(SubSeq(response, 1, count))
        = SubSeq(response, count + 1, count + 2)

isATCAError(data) ==
  IF data[1] # 4 THEN "ATCA_SUCCESS"
  ELSE CASE data[2] = 0   -> "ATCA_SUCCESS"
         [] data[2] = 1   -> "ATCA_CHECKMAC_VERIFY_FAILED"
         [] data[2] = 3   -> "ATCA_PARSE_ERROR"
         [] data[2] = 5   -> "ATCA_STATUS_ECC"
         [] data[2] = 7   -> "ATCA_STATUS_SELFTEST_ERROR"
         [] data[2] = 8   -> "ATCA_HEALTH_TEST_ERROR"
         [] data[2] = 15  -> "ATCA_EXECUTION_ERROR"
         [] data[2] = 17  -> "ATCA_WAKE_SUCCESS"
         [] data[2] = 255 -> "ATCA_STATUS_CRC"
         [] OTHER         -> "ATCA_GEN_FAIL"

WakeResponse == <<4, 17, 51, 67>>
SelftestFailed == <<4, 7, 196, 64>>
hal_check_wake(response) ==
  CASE response = WakeResponse    -> "ATCA_SUCCESS"
    [] response = SelftestFailed  -> "ATCA_STATUS_SELFTEST_ERROR"
    [] OTHER                      -> "ATCA_WAKE_FAILED"

\* The response is read in two transfers, into a buffer of zeros; neither tells
\* whether it took place.  Here first and rest say how many bytes came.
hal_i2c_receive(sent, first, rest) ==
  LET size == IF first = 0 THEN 0 ELSE sent[1]
  IN  IF size \notin RspMin..RspMax
      THEN [status |-> "ATCA_INVALID_SIZE", data |-> <<>>]
      ELSE [status |-> "ATCA_SUCCESS",
            data |-> [i \in 1..size |->
                        IF i <= 1 + rest /\ i <= Len(sent) THEN sent[i] ELSE 0]]

\* What atca_execute_command() makes of the response.
Outcome(received) ==
  CASE received.status # "ATCA_SUCCESS"  -> received.status
    [] ~atCheckCrc(received.data)        -> "ATCA_RX_CRC_ERROR"
    [] OTHER                             -> isATCAError(received.data)
=============================================================================
