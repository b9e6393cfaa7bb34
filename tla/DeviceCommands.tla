--------------------------- MODULE DeviceCommands ---------------------------
(***************************************************************************)
(* What the functions of CryptoAuthLib's basic API send to the device       *)
(* (basic/atca_basic*.c), as scripts: the commands of a call in their order,*)
(* each with its parameters and the number of bytes that the function puts  *)
(* into the packet.  A call stops at the first command that is not answered *)
(* with success.                                                           *)
(*                                                                         *)
(* An argument that may be a null pointer is a Boolean here, TRUE when it   *)
(* is given.  Modes are numbers, for their bits decide what is sent.        *)
(***************************************************************************)
EXTENDS Integers, Sequences, SequencesExt

Packet == INSTANCE AtcaPacket
Zone == INSTANCE ZoneAccess

Success == "ATCA_SUCCESS"
Refusal == "ATCA_BAD_PARAM"
VerifyFailed == "ATCA_CHECKMAC_VERIFY_FAILED"

\* length is what the size of the packet depends on besides the first
\* parameter, given the number of bytes that were copied.
Exchange(opcode, param1, param2, given, length) ==
  [opcode |-> opcode, param1 |-> param1, param2 |-> param2, given |-> given,
   size |-> Packet!TxSize(opcode, param1, length)]
Plain(opcode, param1, param2) == Exchange(opcode, param1, param2, 0, 0)

Script(commands) == [status |-> Success, commands |-> commands]
BadParam == [status |-> Refusal, commands |-> <<>>]
Unless(refused, script) == IF refused THEN BadParam ELSE script
Then(first, second) ==
  IF first.status # Success THEN first
  ELSE [status |-> second.status, commands |-> first.commands \o second.commands]

\* A script against the answers of the device, one for every command.
Run(script, answers) ==
  LET Refusals == {i \in DOMAIN script.commands : answers[i] # Success}
      first == CHOOSE i \in Refusals : \A j \in Refusals : i <= j
  IN  IF Refusals = {} THEN [status |-> script.status, sent |-> Len(script.commands)]
      ELSE [status |-> answers[first], sent |-> first]

Bit(mode, i) == (mode \div 2^i) % 2 = 1
With(mode, flag) == IF (mode \div flag) % 2 = 1 THEN mode ELSE mode + flag

ATECC608A == "ATECC608A"
Devices == {"ATSHA204A", "ATECC108A", "ATECC508A", ATECC608A}
-----------------------------------------------------------------------------
(* Commands of one packet.                                                 *)

atcab_nonce_base(mode) ==
  LET size == CASE mode % 4 \in {0, 1}             -> 20
                [] mode % 4 = 3 /\ Bit(mode, 5)    -> 64
                [] mode % 4 = 3 /\ ~Bit(mode, 5)   -> 32
                [] mode % 4 = 2                    -> 0
  IN  Unless(size = 0, Script(<<Exchange("NONCE", mode, 0, size, 0)>>))

\* The target is in the two upper bits of the mode.
atcab_nonce_load(target, size) ==
  LET mode == 3 + (target \div 64) * 64
  IN  Unless(size \notin {32, 64}, atcab_nonce_base(IF size = 64 THEN mode + 32 ELSE mode))
atcab_nonce == atcab_nonce_base(3)
atcab_nonce_rand == atcab_nonce_base(0)
atcab_challenge == atcab_nonce_base(3)
atcab_challenge_seed_update == atcab_nonce_base(0)

\* Without any data the packet of a shared nonce or of a digest of a public key
\* is as long as with them.
atcab_gendig(zone, key_id, size) ==
  LET given == IF zone = 3 /\ size >= 32 THEN 32 ELSE IF zone = 2 /\ size >= 4 THEN 4 ELSE 0
  IN  Script(<<Exchange("GENDIG", zone, key_id, given, IF given = 4 THEN 4 ELSE 0)>>)
atcab_genkey_base(mode, key_id, other_data) ==
  Script(<<Exchange("GENKEY", mode, key_id, IF other_data THEN 3 ELSE 0, 0)>>)
atcab_genkey(key_id) == atcab_genkey_base(4, key_id, FALSE)
atcab_get_pubkey(key_id) == atcab_genkey_base(0, key_id, FALSE)

atcab_checkmac(mode, key_id, challenge, response, other_data) ==
  Unless(~response \/ ~other_data \/ (~Bit(mode, 0) /\ ~challenge),
         Script(<<Exchange("CHECKMAC", mode, key_id, 32 + 32 + 13, 0)>>))
atcab_mac(mode, key_id, challenge, digest) ==
  Unless(~digest \/ (~Bit(mode, 0) /\ ~challenge),
         Script(<<Exchange("MAC", mode, key_id, IF Bit(mode, 0) THEN 0 ELSE 32, 0)>>))
atcab_hmac(mode, key_id, digest) ==
  Unless(~digest, Script(<<Plain("HMAC", mode, key_id)>>))
atcab_derivekey(mode, target_key, mac) ==
  LET n == IF mac THEN 32 ELSE 0
  IN  Script(<<Exchange("DERIVE_KEY", mode, target_key, n, n)>>)

atcab_random == Script(<<Plain("RANDOM", 0, 0)>>)
atcab_updateextra(mode, new_value) == Script(<<Plain("UPDATE_EXTRA", mode, new_value)>>)
atcab_counter(mode, counter_id) ==
  Unless(counter_id > 1, Script(<<Plain("COUNTER", mode, counter_id)>>))
atcab_counter_increment(counter_id) == atcab_counter(1, counter_id)
atcab_counter_read(counter_id) == atcab_counter(0, counter_id)
atcab_lock(mode, summary_crc) == Script(<<Plain("LOCK", mode, summary_crc)>>)
atcab_info_base(mode, param2) == Script(<<Plain("INFO", mode, param2)>>)
atcab_info(revision) == Unless(~revision, atcab_info_base(0, 0))
atcab_info_get_latch(state) == Unless(~state, atcab_info_base(4, 0))
atcab_info_set_latch(state) == atcab_info_base(4, IF state THEN 3 ELSE 2)

\* The exclamation mark makes the mask of the tests that were asked for zero:
\* whatever the device answers, and when it does not answer, the result is
\* success.  Mode 0 asks for no test.
atcab_selftest(mode, param2) == Script(<<Plain("SELFTEST", mode, param2)>>)
SelftestStatus(mode, response, status) ==
  IF mode = 0 /\ response % 2 = 1 THEN status ELSE Success

\* The key derivation of a message of some length; AES takes a block.
atcab_kdf(mode, key_id, message, length) ==
  LET aes == (mode \div 32) % 4 = 1
  IN  Unless(~message,
             Script(<<Exchange("KDF", mode, key_id, 4 + (IF aes THEN 16 ELSE length), length)>>))
atcab_ecdh_base(mode, key_id) == Script(<<Exchange("ECDH", mode, key_id, 64, 0)>>)
atcab_ecdh(key_id) == atcab_ecdh_base(0, key_id)
atcab_ecdh_ioenc(key_id) == atcab_ecdh_base(2 + 12, key_id)
atcab_ecdh_tempkey == atcab_ecdh_base(1 + 12, 0)
atcab_ecdh_tempkey_ioenc == atcab_ecdh_base(1 + 2 + 12, 0)

atcab_secureboot(mode, param2, digest, signature) ==
  LET size == Packet!TxSize("SECUREBOOT", mode, 0)
  IN  Unless(~digest \/ size = 0,
             Script(<<Exchange("SECUREBOOT", mode, param2, IF signature THEN 96 ELSE 32, 0)>>))

atcab_sign_base(mode, key_id, signature) ==
  Unless(~signature, Script(<<Plain("SIGN", mode, key_id)>>))
atcab_sign_internal(key_id, is_invalidate, is_full_sn, signature) ==
  atcab_sign_base((IF is_invalidate THEN 1 ELSE 0) + (IF is_full_sn THEN 64 ELSE 0),
                  key_id, signature)

\* VERIFY_MODE_INVALIDATE is 7, which the mask of two bits makes 3.
atcab_verify(mode, key_id, signature, public_key, other_data) ==
  LET verify_mode == mode % 4
      rest == IF verify_mode = 2 THEN 64 ELSE IF other_data THEN 19 ELSE 0
  IN  Unless(\/ ~signature
             \/ verify_mode = 2 /\ ~public_key
             \/ verify_mode = 3 /\ ~other_data,
             Script(<<Exchange("VERIFY", mode, key_id, 64 + rest, 0)>>))
-----------------------------------------------------------------------------
(* Reading and writing.                                                    *)

\* Bit 7 of the zone asks for a block.
atcab_read_zone(zone, slot, block, offset, length) ==
  Unless(length \notin {4, 32} \/ zone % 4 = 3,
         Script(<<Plain("READ", IF length = 32 THEN With(zone, 128) ELSE zone,
                        Zone!atcab_get_addr(zone % 4, slot, block, offset))>>))
atcab_write(zone, address, value, mac) ==
  LET large == Bit(zone, 7)
      n == IF large /\ mac THEN 32 ELSE 0
  IN  Unless(~value, Script(<<Exchange("WRITE", zone, address, (IF large THEN 32 ELSE 4) + n, n)>>))
atcab_write_zone(zone, slot, block, offset, length) ==
  Unless(length \notin {4, 32} \/ zone % 4 = 3,
         atcab_write(IF length = 32 THEN With(zone, 128) ELSE zone,
                     Zone!atcab_get_addr(zone % 4, slot, block, offset), TRUE, FALSE))

atcab_read_sig(slot) ==
  Unless(slot \notin 8..15,
         Then(atcab_read_zone(2, slot, 0, 0, 32), atcab_read_zone(2, slot, 1, 0, 32)))

\* The word with the two lock bytes of the zones, of which 0x55 means unlocked.
\* An unknown zone is refused after the word has been read.
atcab_is_locked(zone, word) ==
  IF zone \notin {0, 1} THEN [status |-> Refusal]
  ELSE [status |-> Success, is_locked |-> word[4 - zone] # 85]

\* The serial number, a random nonce, and a digest of it with the key: from then
\* on the host and the device have the same TempKey, until its next use.
Session(key_id) ==
  Then(atcab_read_zone(0, 0, 0, 0, 32), Then(atcab_nonce_rand, atcab_gendig(2, key_id, 4)))
atcab_read_enc(key_id, block, data, enc_key, enc_key_id) ==
  Unless(~data \/ ~enc_key,
         Then(Session(enc_key_id), atcab_read_zone(2 + 128, key_id, block, 0, 32)))
atcab_write_enc(key_id, block, data, enc_key, enc_key_id) ==
  Unless(~data \/ ~enc_key,
         Then(Session(enc_key_id),
              atcab_write(2 + 128 + 64, Zone!atcab_get_addr(2, key_id, block, 0), TRUE, TRUE)))
atcab_priv_write(key_id, priv_key, write_key_id, write_key) ==
  Unless(key_id > 15 \/ ~priv_key,
         IF write_key
           THEN Then(Session(write_key_id), Script(<<Exchange("PRIVWRITE", 64, key_id, 68, 0)>>))
           ELSE Script(<<Exchange("PRIVWRITE", 0, key_id, 68, 0)>>))
atcab_ecdh_enc(key_id, public_key, pms, read_key, read_key_id) ==
  Unless(~public_key \/ ~pms \/ ~read_key,
         Then(atcab_ecdh(key_id), atcab_read_enc(With(key_id, 1), 0, pms, read_key, read_key_id)))

\* The pieces of a write are words or blocks of the zone.
WriteBytes(zone, slot, offset, length) ==
  LET written == Zone!atcab_write_bytes_zone(zone, slot, offset, length)
      Piece(p) == atcab_write_zone(zone, slot, p.block, p.word, p.size).commands[1]
  IN  Unless(written.status # Zone!Success,
             Script([i \in DOMAIN written.pieces |-> Piece(written.pieces[i])]))
atcab_write_config_zone(config_data) ==
  Then(WriteBytes(0, 0, 16, Zone!atcab_get_zone_size(0, 0) - 16),
       Then(atcab_updateextra(0, config_data[85]), atcab_updateextra(1, config_data[86])))

\* What a device may change by itself, or has no part in a configuration, is not
\* compared.  The configuration of an ATSHA204A ends before byte 90.
Compared(device) ==
  (16..51) \union (IF device = "ATSHA204A" THEN {} ELSE 90..127)
           \union (IF device = ATECC608A THEN 68..83 ELSE {})
atcab_cmp_config_zone(device, config, config_data) ==
  \A i \in Compared(device) : config[i + 1] = config_data[i + 1]

\* A counter is kept as two bit patterns that lose a bit with every count, and
\* two numbers of full turns.  Of a value of 16 bits nothing is left after 16
\* shifts, one at a time as the processor shifts.
Shifted(places) == IF places > 15 THEN 0 ELSE 65535 \div 2^places
CounterBytes(value) ==
  LET second == IF value >= 16 THEN value - 16 ELSE 0
  IN  [lin_a |-> Shifted(value % 32), lin_b |-> Shifted(second % 32),
       bin_a |-> value \div 32, bin_b |-> second \div 32]
atcab_write_config_counter(counter_id, value) ==
  Unless(counter_id > 1 \/ value > 2097151, WriteBytes(0, 0, 52 + counter_id * 8, 8))
-----------------------------------------------------------------------------
(* Signatures.  The ATECC608A has a buffer for the digest of a message, the   *)
(* others put it into TempKey.                                             *)

DigestTarget(device) == IF device = ATECC608A THEN 64 ELSE 0
DigestSource(device) == IF device = ATECC608A THEN 32 ELSE 0

atcab_sign(device, key_id, signature) ==
  Then(atcab_random,
       Then(atcab_nonce_load(DigestTarget(device), 32),
            atcab_sign_base(128 + DigestSource(device), key_id, signature)))

P256 == 4
atcab_verify_extern(device, message, signature, public_key) ==
  Unless(~signature \/ ~message \/ ~public_key,
         Then(atcab_nonce_load(DigestTarget(device), 32),
              atcab_verify(2 + DigestSource(device), P256, signature, public_key, FALSE)))
atcab_verify_stored(device, message, signature, key_id) ==
  Unless(~signature \/ ~message,
         Then(atcab_nonce_load(DigestTarget(device), 32),
              atcab_verify(DigestSource(device), key_id, signature, FALSE, FALSE)))
atcab_verify_validate(key_id, signature, other_data) ==
  Unless(~signature \/ ~other_data, atcab_verify(3, key_id, signature, FALSE, other_data))
atcab_verify_invalidate(key_id, signature, other_data) ==
  Unless(~signature \/ ~other_data, atcab_verify(7, key_id, signature, FALSE, other_data))

\* The message and the number of the host are loaded together; the device
\* answers with a MAC.
atcab_verify_extern_stored_mac(mode, key_id, message, signature, public_key, num_in, io_key) ==
  Unless(\/ ~signature \/ ~message \/ ~num_in \/ ~io_key
         \/ mode % 4 = 2 /\ ~public_key,
         Then(atcab_nonce_load(64, 64),
              atcab_verify(mode + 32 + 128, key_id, signature, public_key, FALSE)))
atcab_secureboot_mac(mode, digest, signature, num_in, io_key) ==
  Unless(~digest \/ ~num_in \/ ~io_key,
         Then(atcab_nonce_base(0), atcab_secureboot(With(mode, 128), 0, TRUE, signature)))

\* That the device found the signature wrong is a result and no error.  match is
\* TRUE for the functions without a MAC.
Verdict(script, answers, match) ==
  LET run == Run(script, answers)
      wrong == run.status = VerifyFailed /\ run.sent = Len(script.commands)
  IN  [status |-> IF wrong THEN Success ELSE run.status,
       is_verified |-> run.status = Success /\ match]
-----------------------------------------------------------------------------
(* What becomes of a response.                                             *)

Digest == 32
\* The size of the output of a function, with the bytes around it.
ResponseSize(function) ==
  CASE function \in {"atcab_sign_base", "atcab_genkey_base"}              -> 64 + 3
    [] function \in {"atcab_counter", "atcab_info_base"}                  -> 4 + 3
    [] function = "atcab_aes"                                             -> 16 + 3
    [] function \notin {"atcab_sign_base", "atcab_genkey_base", "atcab_counter",
                        "atcab_info_base", "atcab_aes"}                   -> Digest + 3

\* Some functions insist on the size, some copy the output when the response is
\* long enough and leave the caller's buffer as it was otherwise, and some copy
\* whatever there is.
Strict == {"atcab_sign_base", "atcab_genkey_base", "atcab_counter", "atcab_hmac",
           "atcab_random"}
Lenient == {"atcab_verify", "atcab_nonce_base", "atcab_ecdh_base", "atcab_kdf",
            "atcab_secureboot", "atcab_info_base", "atcab_aes"}
Blind == {"atcab_mac", "atcab_read_zone"}
Output(function, count) ==
  LET size == ResponseSize(function)
  IN  CASE function \in Strict /\ count # size  -> "ATCA_RX_FAIL"
        [] function \in Lenient /\ count < size -> "untouched"
        [] function \in Blind                   -> "copied"
        [] function \in Strict /\ count = size  -> "copied"
        [] function \in Lenient /\ count >= size -> "copied"
=============================================================================
