---------------------------- MODULE HostMessages ----------------------------
(***************************************************************************)
(* host/atca_host.c: what the host computes to follow the secure element:   *)
(* the messages that commands hash, and TempKey after each of them.        *)
(*                                                                         *)
(* Data are sequences of bytes, an absent parameter is <<>>.  A command is   *)
(* a record of its parameters; an outcome is a record with its status, the  *)
(* TempKey that it leaves and the message, digest or data that it returns.  *)
(***************************************************************************)
EXTENDS Integers, Sequences, SequencesExt, Bitwise

CONSTANT Sha2_256(_)  \* of a sequence of bytes, external: 32 bytes

Zeros(n) == [i \in 1..n |-> 0]
Word(n) == <<n % 256, (n \div 256) % 256>>
Mixed(s, t) == [i \in DOMAIN s |-> s[i] ^^ t[i]]
Slice(s, first, n) == SubSeq(s, first + 1, first + n)
Has(mode, flag) == (mode & flag) # 0
Absent(parameter) == parameter = <<>>

Fail(status, temp_key) == [status |-> status, temp_key |-> temp_key]
BadParam(temp_key) == Fail("BAD_PARAM", temp_key)
Success(temp_key, out) == [status |-> "SUCCESS", temp_key |-> temp_key, out |-> out]

\* A command that needs TempKey and must not have it makes it invalid.
Invalid(temp_key) == IF Absent(temp_key) THEN temp_key ELSE [temp_key EXCEPT !.valid = 0]
Refused(temp_key) == Fail("EXECUTION_ERROR", Invalid(temp_key))
Unusable(temp_key) == temp_key.no_mac_flag # 0 \/ temp_key.valid # 1
SourceDiffers(mode, temp_key) == Has(mode, 4) # (temp_key.source_flag # 0)

Header(opcode, mode, key_id) == <<opcode, mode>> \o Word(key_id)
Serial(sn) == <<sn[9], sn[1], sn[2]>>
-----------------------------------------------------------------------------
(* TempKey.                                                                *)

Loaded(temp_key, value, source, valid, is_64) ==
  [temp_key EXCEPT !.value = value, !.source_flag = source, !.key_id = 0,
                   !.gen_dig_data = 0, !.no_mac_flag = 0, !.valid = valid,
                   !.is_64 = is_64]

NonceMessage(p) == SubSeq(p.rand_out, 1, 32) \o SubSeq(p.num_in, 1, 20) \o <<22, p.mode, 0>>

\* A value computed by the device replaces the one of the host and leaves the
\* flags alone.
RandomNonce(p) ==
  CASE Absent(p.rand_out) -> BadParam(p.temp_key)
    [] ~Absent(p.rand_out) /\ Has(p.zero, 32768) ->
         Success([p.temp_key EXCEPT !.value = SubSeq(p.rand_out, 1, 32), !.is_64 = 0], <<>>)
    [] ~Absent(p.rand_out) /\ ~Has(p.zero, 32768) ->
         Success(Loaded(p.temp_key, Sha2_256(NonceMessage(p)), 0, 1, 0), <<>>)

\* If another buffer is the target TempKey keeps its value and is not valid.
PassThroughNonce(p) ==
  LET is_64 == IF Has(p.mode, 32) THEN 1 ELSE 0
      size == IF Has(p.mode, 32) THEN 64 ELSE 32
  IN  Success(IF Has(p.mode, 192)
                THEN Loaded(p.temp_key, p.temp_key.value, 1, 0, p.temp_key.is_64)
                ELSE Loaded(p.temp_key, SubSeq(p.num_in, 1, size), 1, 1, is_64), <<>>)

atcah_nonce(p) ==
  CASE Absent(p.temp_key) \/ Absent(p.num_in) -> BadParam(p.temp_key)
    [] ~Absent(p.temp_key) /\ ~Absent(p.num_in) ->
         CASE (p.mode & 3) \in {0, 1} -> RandomNonce(p)
           [] (p.mode & 3) = 3        -> PassThroughNonce(p)
           [] (p.mode & 3) = 2        -> BadParam(p.temp_key)

\* 96 bytes.  The message of a shared nonce holds TempKey and the other data,
\* in an order that the key ID selects.
GenDigMessage(p) ==
  LET shared == p.zone = 3
      tempFirst == shared /\ p.key_id >= 32768
      nomac == p.zone = 2 /\ p.is_key_nomac = 1
      key == SubSeq(p.temp_key.value, 1, 32)
  IN  (CASE tempFirst                     -> key
         [] shared /\ ~tempFirst          -> SubSeq(p.other_data, 1, 32)
         [] p.zone \in {4, 5}             -> Zeros(32)
         [] ~shared /\ p.zone \notin {4, 5} -> SubSeq(p.stored_value, 1, 32))
      \o (IF nomac THEN SubSeq(p.other_data, 1, 4)
          ELSE <<21, p.zone, p.key_id % 256, IF shared THEN 0 ELSE p.key_id \div 256>>)
      \o Serial(p.sn)
      \o (CASE p.zone = 4 -> <<0>> \o Word(p.counter % 65536) \o Word(p.counter \div 65536) \o Zeros(20)
            [] p.zone = 5 -> <<0>> \o Word(p.slot_conf) \o Word(p.key_conf) \o <<p.slot_locked>> \o Zeros(19)
            [] p.zone \notin {4, 5} -> Zeros(25))
      \o (IF tempFirst THEN SubSeq(p.other_data, 1, 32) ELSE key)

AfterDig(temp_key, value, zone, key_id) ==
  [temp_key EXCEPT !.value = value, !.valid = 1,
     !.gen_dig_data = IF zone = 2 /\ key_id <= 15 THEN 1 ELSE 0,
     !.key_id = IF zone = 2 /\ key_id <= 15 THEN key_id ELSE 0]

\* It does not ask whether TempKey is valid.
atcah_gen_dig(p) ==
  IF \/ Absent(p.sn) \/ Absent(p.temp_key)
     \/ p.zone <= 2 /\ Absent(p.stored_value)
     \/ (p.zone = 3 \/ (p.zone = 2 /\ p.is_key_nomac # 0)) /\ Absent(p.other_data)
     \/ p.zone > 5
    THEN BadParam(p.temp_key)
    ELSE LET after == AfterDig(p.temp_key, Sha2_256(GenDigMessage(p)), p.zone, p.key_id)
             nomac == p.zone = 2 /\ p.key_id <= 15 /\ p.is_key_nomac = 1
         IN  Success([after EXCEPT !.no_mac_flag = IF nomac THEN 1 ELSE @], <<>>)

GenMacMessage(p) ==
  SubSeq(p.temp_key.value, 1, 32) \o Header(18, p.zone, p.key_id) \o Serial(p.sn)
    \o Zeros(25) \o SubSeq(p.stored_value, 1, 32)

atcah_gen_mac(p) ==
  CASE Absent(p.stored_value) \/ Absent(p.temp_key) -> BadParam(p.temp_key)
    [] ~Absent(p.stored_value) /\ ~Absent(p.temp_key) ->
         IF Unusable(p.temp_key) THEN Refused(p.temp_key)
         ELSE Success(AfterDig(p.temp_key, Sha2_256(GenMacMessage(p)), p.zone, p.key_id), <<>>)

\* The public key stands at the end of 128 bytes.
GenKeyMessage(p) ==
  SubSeq(p.temp_key.value, 1, 32) \o <<64>>
    \o (IF Has(p.mode, 16) THEN SubSeq(p.other_data, 1, 3)
        ELSE <<p.mode>> \o Word(p.key_id))
    \o Serial(p.sn) \o Zeros(89 - Len(p.public_key)) \o p.public_key

atcah_gen_key_msg(p) ==
  CASE \/ Absent(p.public_key) \/ Absent(p.sn) \/ Absent(p.temp_key)
       \/ Len(p.public_key) > 88
       \/ Has(p.mode, 16) /\ Absent(p.other_data) -> BadParam(p.temp_key)
    [] OTHER ->
         Success(IF Has(p.mode, 24)
                   THEN [p.temp_key EXCEPT !.value = Sha2_256(GenKeyMessage(p)),
                           !.gen_dig_data = 0, !.gen_key_data = 1, !.key_id = p.key_id]
                   ELSE p.temp_key, <<>>)
-----------------------------------------------------------------------------
(* MAC, CheckMac and HMAC.                                                 *)

\* 20 bytes.  Eleven bytes of OTP take the place of eight and three zeros.
atcah_include_data(mode, otp, sn) ==
  (CASE Has(mode, 16)                   -> SubSeq(otp, 1, 11)
     [] ~Has(mode, 16) /\ Has(mode, 32) -> SubSeq(otp, 1, 8) \o Zeros(3)
     [] ~Has(mode, 16) /\ ~Has(mode, 32) -> Zeros(11))
  \o <<sn[9]>> \o (IF Has(mode, 64) THEN Slice(sn, 4, 4) ELSE Zeros(4))
  \o <<sn[1], sn[2]>> \o (IF Has(mode, 64) THEN Slice(sn, 2, 2) ELSE Zeros(2))

MacMessage(p) ==
  (IF Has(p.mode, 2) THEN SubSeq(p.temp_key.value, 1, 32) ELSE p.key)
    \o (IF Has(p.mode, 1) THEN SubSeq(p.temp_key.value, 1, 32) ELSE p.challenge)
    \o Header(8, p.mode, p.key_id) \o atcah_include_data(p.mode, p.otp, p.sn)

\* TempKey can be used once.
atcah_mac(p) ==
  CASE \/ Has(p.mode, 136)
       \/ ~Has(p.mode, 2) /\ Absent(p.key)
       \/ ~Has(p.mode, 1) /\ Absent(p.challenge)
       \/ Has(p.mode, 3) /\ Absent(p.temp_key)
       \/ Has(p.mode, 48) /\ Absent(p.otp)
       \/ Has(p.mode, 64) /\ Absent(p.sn) -> BadParam(p.temp_key)
    [] OTHER ->
         IF Has(p.mode, 3) /\ (Unusable(p.temp_key) \/ SourceDiffers(p.mode, p.temp_key))
           THEN Refused(p.temp_key)
           ELSE Success(Invalid(p.temp_key), Sha2_256(MacMessage(p)))

CheckMacMessage(p) ==
  LET other == p.other_data
  IN  (IF Has(p.mode, 2) THEN SubSeq(p.temp_key.value, 1, 32) ELSE p.slot_key)
        \o (IF Has(p.mode, 1) THEN SubSeq(p.temp_key.value, 1, 32) ELSE p.client_chal)
        \o Slice(other, 0, 4)
        \o (IF Has(p.mode, 32) THEN SubSeq(p.otp, 1, 8) ELSE Zeros(8))
        \o Slice(other, 4, 3) \o <<p.sn[9]>> \o Slice(other, 7, 4)
        \o <<p.sn[1], p.sn[2]>> \o Slice(other, 11, 2)

\* In modes 1 and 5 the key of another slot may be copied into TempKey, which
\* is not used up.
atcah_check_mac(p) ==
  LET copies == p.mode \in {1, 5} /\ ~Absent(p.target_key)
  IN  CASE \/ Absent(p.other_data) \/ Absent(p.sn)
           \/ (Has(p.mode, 3) \/ copies) /\ Absent(p.temp_key)
           \/ ~Has(p.mode, 2) /\ Absent(p.slot_key)
           \/ ~Has(p.mode, 1) /\ Absent(p.client_chal)
           \/ Has(p.mode, 32) /\ Absent(p.otp) -> BadParam(p.temp_key)
        [] OTHER ->
             IF Has(p.mode, 3) /\ (\/ p.temp_key.valid = 0
                                   \/ (p.mode \div 4) % 2 # p.temp_key.source_flag)
               THEN Fail("EXECUTION_ERROR", p.temp_key)
               ELSE Success(IF copies
                              THEN [p.temp_key EXCEPT !.value = p.target_key,
                                      !.gen_dig_data = 0, !.source_flag = 1, !.valid = 1]
                              ELSE p.temp_key, Sha2_256(CheckMacMessage(p)))

\* The key fills half of a block of 64 bytes, the pad the other half.
Padded(key, pad) == Mixed(key, [i \in 1..32 |-> pad]) \o [i \in 1..32 |-> pad]

HmacMessage(p) ==
  Zeros(32) \o SubSeq(p.temp_key.value, 1, 32) \o Header(17, p.mode, p.key_id)
    \o atcah_include_data(p.mode, p.otp, p.sn)

atcah_hmac(p) ==
  CASE \/ Absent(p.key) \/ Absent(p.temp_key) \/ Absent(p.sn)
       \/ Has(p.mode, 139)
       \/ Has(p.mode, 48) /\ Absent(p.otp) -> BadParam(p.temp_key)
    [] OTHER ->
         IF Unusable(p.temp_key) \/ SourceDiffers(p.mode, p.temp_key)
           THEN Refused(p.temp_key)
           ELSE Success(Invalid(p.temp_key),
                  Sha2_256(Padded(p.key, 92) \o Sha2_256(Padded(p.key, 54) \o HmacMessage(p))))
-----------------------------------------------------------------------------
(* Encrypted data with a MAC: Write, PrivWrite and what comes back.        *)

AuthMessage(p, opcode, zeros) ==
  SubSeq(p.temp_key.value, 1, 32) \o Header(opcode, p.zone, p.key_id) \o Serial(p.sn)
    \o Zeros(zeros) \o p.input_data

\* TempKey stays valid, so that the next block can follow.
atcah_write_auth_mac(p) ==
  CASE Absent(p.input_data) \/ Absent(p.temp_key) -> BadParam(p.temp_key)
    [] ~Absent(p.input_data) /\ ~Absent(p.temp_key) ->
         IF Unusable(p.temp_key) THEN Refused(p.temp_key)
         ELSE Success(p.temp_key,
                [encrypted |-> Mixed(p.input_data, p.temp_key.value),
                 mac |-> Sha2_256(AuthMessage(p, 18, 25))])

\* The last four of the 36 bytes are covered by the digest of TempKey.
atcah_privwrite_auth_mac(p) ==
  CASE Absent(p.input_data) \/ Absent(p.temp_key) -> BadParam(p.temp_key)
    [] ~Absent(p.input_data) /\ ~Absent(p.temp_key) ->
         IF Unusable(p.temp_key) THEN Refused(p.temp_key)
         ELSE LET key == SubSeq(p.temp_key.value, 1, 32)
              IN  Success(p.temp_key,
                    [encrypted |-> Mixed(p.input_data, key \o Sha2_256(key)),
                     mac |-> Sha2_256(AuthMessage(p, 70, 21))])

\* Only a TempKey made from a random nonce and a key of the device will do.
atcah_decrypt(p) ==
  CASE Absent(p.crypto_data) \/ Absent(p.temp_key) -> BadParam(p.temp_key)
    [] ~Absent(p.crypto_data) /\ ~Absent(p.temp_key) ->
         IF \/ Unusable(p.temp_key) \/ p.temp_key.gen_dig_data # 1
            \/ p.temp_key.source_flag # 0
           THEN Refused(p.temp_key)
           ELSE Success(Invalid(p.temp_key), Mixed(p.crypto_data, p.temp_key.value))

\* Each block of 32 bytes has a key of its own.
atcah_io_decrypt(io_key, out_nonce, data) ==
  IF Absent(io_key) \/ Absent(out_nonce) \/ Absent(data) \/ Len(data) % 32 # 0
    THEN BadParam(<<>>)
    ELSE LET key == [b \in 0..(Len(data) \div 32 - 1) |->
                       Sha2_256(io_key \o Slice(out_nonce, 16 * b, 16))]
         IN  Success(<<>>, [i \in DOMAIN data |->
                              data[i] ^^ key[(i - 1) \div 32][1 + ((i - 1) % 32)]])
-----------------------------------------------------------------------------
(* DeriveKey.                                                              *)

DeriveKeyMessage(p) ==
  p.parent_key \o Header(28, p.mode, p.target_key_id) \o Serial(p.sn)
    \o Zeros(25) \o SubSeq(p.temp_key.value, 1, 32)

atcah_derive_key(p) ==
  CASE \/ Absent(p.parent_key) \/ Absent(p.temp_key)
       \/ Has(p.mode, 251) \/ p.target_key_id > 15 -> BadParam(p.temp_key)
    [] OTHER ->
         IF Unusable(p.temp_key) \/ SourceDiffers(p.mode, p.temp_key)
           THEN Refused(p.temp_key)
           ELSE Success(Invalid(p.temp_key), Sha2_256(DeriveKeyMessage(p)))

DeriveKeyMacMessage(p) == p.parent_key \o Header(28, p.mode, p.target_key_id) \o Serial(p.sn)

atcah_derive_key_mac(p) ==
  IF Absent(p.parent_key) \/ Has(p.mode, 251) \/ p.target_key_id > 15
    THEN BadParam(p.temp_key)
    ELSE Success(p.temp_key, Sha2_256(DeriveKeyMacMessage(p)))
-----------------------------------------------------------------------------
(* Sign(Internal) and Verify.                                              *)

\* What the configuration zone says of the key that TempKey was made from.  A
\* bit of SlotLocked is 0 when the slot is locked.
atcah_config_to_sign_internal(device, p, config) ==
  LET key == p.temp_key.key_id
      At(first) == config[first + 2 * key + 1] + 256 * config[first + 2 * key + 2]
      uses == device = "ATECC108A" /\ key < 8
      locked == config[89] + 256 * config[90]
  IN  [p EXCEPT !.slot_config = At(20), !.key_config = At(96),
                !.use_flag = IF uses THEN config[53 + 2 * key] ELSE 0,
                !.update_count = IF uses THEN config[54 + 2 * key] ELSE 0,
                !.is_slot_locked = ~Has(locked, 2^key)]

SignInternalMessage(device, p) ==
  LET t == p.temp_key
      uses == device = "ATECC108A" /\ t.key_id < 8
      withSn == Has(p.mode, 64)
      Flag(b) == IF b THEN 1 ELSE 0
  IN  SubSeq(t.value, 1, 32) \o Header(65, p.mode, p.key_id)
        \o Word(p.slot_config) \o Word(p.key_config)
        \o << (t.key_id % 16) + 16 * t.source_flag + 32 * t.gen_dig_data
                + 64 * t.gen_key_data + 128 * t.no_mac_flag,
              IF uses THEN p.use_flag ELSE 0, IF uses THEN p.update_count ELSE 0,
              p.sn[9] >>
        \o (IF withSn THEN Slice(p.sn, 4, 4) ELSE Zeros(4)) \o <<p.sn[1], p.sn[2]>>
        \o (IF withSn THEN Slice(p.sn, 2, 2) ELSE Zeros(2))
        \o <<Flag(~p.is_slot_locked), Flag(p.for_invalidate), 0>>

\* What Verify(Validate) needs of the message: all but TempKey, the opcode and
\* the parts of the serial number that every device knows.
atcah_sign_internal_msg(device, p) ==
  IF Absent(p.temp_key) \/ Absent(p.sn) THEN BadParam(p.temp_key)
  ELSE LET msg == SignInternalMessage(device, p)
       IN  Success(p.temp_key,
             [message |-> msg, digest |-> Sha2_256(msg),
              verify_other_data |-> Slice(msg, 33, 10) \o Slice(msg, 44, 4) \o Slice(msg, 50, 5)])

\* The message that Verify(Validate) puts together again.
ValidateMessage(p) ==
  SubSeq(p.temp_key.value, 1, 32) \o <<65>> \o Slice(p.other_data, 0, 10) \o <<p.sn[9]>>
    \o Slice(p.other_data, 10, 4) \o <<p.sn[1], p.sn[2]>> \o Slice(p.other_data, 14, 5)

\* Two bits select the mode, so that 7, Invalidate, is taken for 3, Validate.
\* The nonce is in the half of the buffer that does not hold the message.
atcah_verify_mac(p) ==
  LET validate == (p.mode & 3) = 3
      buffered == Has(p.mode, 32)
      message == CASE validate               -> Sha2_256(ValidateMessage(p))
                   [] ~validate /\ buffered  -> Slice(p.msg_dig_buf, 0, 32)
                   [] ~validate /\ ~buffered -> SubSeq(p.temp_key.value, 1, 32)
      nonce == Slice(p.msg_dig_buf, IF buffered THEN 32 ELSE 0, 32)
  IN  IF \/ Absent(p.signature) \/ Absent(p.msg_dig_buf) \/ Absent(p.io_key)
         \/ validate /\ (Absent(p.other_data) \/ Absent(p.temp_key) \/ Absent(p.sn))
         \/ ~validate /\ ~buffered /\ Absent(p.temp_key)
        THEN BadParam(p.temp_key)
        ELSE Success(p.temp_key,
               Sha2_256(p.io_key \o message \o nonce \o p.signature
                          \o Header(69, p.mode, p.key_id)))
-----------------------------------------------------------------------------
(* SecureBoot, and the counter that a key's use is limited by.             *)

atcah_secureboot_enc(p) ==
  IF Absent(p.digest) \/ Absent(p.temp_key) \/ Absent(p.io_key) THEN BadParam(p.temp_key)
  ELSE LET key == Sha2_256(p.io_key \o SubSeq(p.temp_key.value, 1, 32))
       IN  Success(p.temp_key, [hashed_key |-> key, digest_enc |-> Mixed(p.digest, key)])

\* Only FullStore with a stored digest has no signature.
atcah_secureboot_mac(p) ==
  LET signed == ~((p.mode & 7) = 6 /\ (p.secure_boot_config & 3) = 3)
  IN  IF Absent(p.hashed_key) \/ Absent(p.digest) \/ (signed /\ Absent(p.signature))
        THEN BadParam(<<>>)
        ELSE Success(<<>>, Sha2_256(p.hashed_key \o p.digest
               \o (IF signed THEN p.signature ELSE <<>>) \o Header(128, p.mode, p.param2)))

atcah_encode_counter_match(counter_value) ==
  LET bytes == Word(counter_value % 65536) \o Word(counter_value \div 65536)
  IN  IF counter_value > 2097151 \/ counter_value % 32 # 0 THEN BadParam(<<>>)
      ELSE Success(<<>>, bytes \o bytes)
=============================================================================
