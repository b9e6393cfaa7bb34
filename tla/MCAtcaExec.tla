----------------------------- MODULE MCAtcaExec -----------------------------
(* Instance of AtcaExec for TLC, and the functions below and above it on   *)
(* small inputs: packets, the cutting of zone accesses, the commands of the *)
(* basic API, the messages that host and device both digest, and ciphers.  *)
EXTENDS AtcaExec, Sequences, SequencesExt
-----------------------------------------------------------------------------
(* Packets.                                                                *)
Packet == INSTANCE AtcaPacket

\* An error of 4 bytes and a response with some data, with their checksums.
MCFrames == {Packet!atCalcCrc(<<4, 0, 0, 0>>),
             Packet!atCalcCrc(<<7, 170, 1, 0, 255, 0, 0>>)}

Flipped(frame, bits) ==
  [i \in DOMAIN frame |->
     Packet!Value({b \in 0..7 : Packet!Bit(frame[i], b) # (8 * (i - 1) + b \in bits)})]
Bits(frame) == 8..(8 * Len(frame) - 1)

\* The answer a wake-up must get is checked against a literal: it is a frame
\* like any other response, it is no command's success, and no response to a
\* command passes for it.  The literal for a failed self-test is not a frame:
\* the checksum of its first two bytes is another one, so that a device that
\* computes it like this library gets ATCA_WAKE_FAILED instead.
ASSUME WakeAnswers ==
  /\ Packet!atCheckCrc(Packet!WakeResponse)
  /\ Packet!isATCAError(Packet!WakeResponse) # "ATCA_SUCCESS"
  /\ \A frame \in MCFrames : Packet!hal_check_wake(frame) = "ATCA_WAKE_FAILED"
  /\ ~Packet!atCheckCrc(Packet!SelftestFailed)
  /\ Packet!hal_check_wake(Packet!atCalcCrc(<<4, 7, 0, 0>>)) = "ATCA_WAKE_FAILED"

\* A response whose size is right is not accepted if one or two of its bits, or
\* any burst of up to four bits, changed on the way.
ASSUME CorruptionIsDetected ==
  \A frame \in MCFrames :
    /\ Packet!atCheckCrc(frame)
    /\ \A a, b \in Bits(frame) : a <= b =>
         ~Packet!atCheckCrc(Flipped(frame, {a, b}))
    /\ \A a \in Bits(frame) : \A burst \in SUBSET ((a + 1)..(a + 3)) :
         burst \subseteq Bits(frame) =>
           ~Packet!atCheckCrc(Flipped(frame, {a} \cup burst))

\* The two transfers of a receive do not tell whether they took place.  Where
\* the second one did not, the zeros of the buffer are no response; where
\* the first one did not, the size is refused.
ASSUME LostTransfersAreNoticed ==
  /\ \A size \in Packet!RspMin..Packet!RspMax :
       LET received == Packet!hal_i2c_receive(<<size>>, 1, 0)
       IN  /\ received.status = "ATCA_SUCCESS"
           /\ Packet!Outcome(received) = "ATCA_RX_CRC_ERROR"
  /\ \A frame \in MCFrames :
       /\ Packet!Outcome(Packet!hal_i2c_receive(frame, 0, 0)) = "ATCA_INVALID_SIZE"
       /\ Packet!Outcome(Packet!hal_i2c_receive(frame, 1, Len(frame) - 1))
            = "ATCA_SUCCESS"
       /\ \A rest \in 0..(Len(frame) - 2) :
            Packet!Outcome(Packet!hal_i2c_receive(frame, 1, rest))
              = "ATCA_RX_CRC_ERROR"

\* Only the code 0 of a short response is a success.
ASSUME ErrorsAreNoSuccess ==
  \A code \in 1..255 : Packet!isATCAError(<<4, code>>) # "ATCA_SUCCESS"

\* The packets of the commands this firmware uses, with whatever parameter it
\* gives them, fit in the buffer with their checksum, and none is too short.
ASSUME PacketsFit ==
  \A opcode \in {"READ", "LOCK", "RANDOM", "GENKEY", "SIGN", "INFO",
                 "WRITE", "NONCE"} :
    \A param1 \in 0..255 :
      LET size == Packet!TxSize(opcode, param1, 0)
      IN  \/ size \in Packet!MinSize..(Packet!BufferSize + 5)
          \/ opcode = "NONCE" /\ param1 % 4 = 2 /\ size = 0
-----------------------------------------------------------------------------
(* Accesses to zones.                                                      *)
Zone == INSTANCE ZoneAccess

MCPlaces == {<<Zone!CONFIG, 0>>, <<Zone!OTP, 0>>, <<Zone!DATA, 0>>,
             <<Zone!DATA, 8>>, <<Zone!DATA, 9>>}
MCOffsets == {0, 1, 4, 28, 31, 32, 36, 63, 64, 68, 80, 84, 88, 96, 124,
              383, 384, 400, 412}
MCLengths == 1..40 \cup {64, 71, 72, 100, 128, 256, 416}

\* The command addresses that the device has in a zone.
InZone(piece, zonesize) ==
  /\ piece.size \in {Zone!Word, Zone!Block}
  /\ piece.size = Zone!Block => piece.word = 0
  /\ piece.word < Zone!WordsPerBlock
  /\ Zone!Start(piece) + piece.size <= zonesize

Chained(pieces, offset, length) ==
  LET from(i) == Zone!Start(pieces[i]) + pieces[i].skip
      to(i) == from(i) + pieces[i].copied
  IN  /\ from(1) = offset
      /\ to(Len(pieces)) = offset + length
      /\ \A i \in 1..(Len(pieces) - 1) : from(i + 1) = to(i)
      /\ \A i \in DOMAIN pieces :
           /\ pieces[i].copied > 0
           /\ pieces[i].skip + pieces[i].copied <= pieces[i].size

\* A read that is not refused delivers the bytes asked for, each once and in
\* order, and never reads past its zone; one is refused just if it would.
ASSUME ReadsAreExact ==
  \A place \in MCPlaces : \A offset \in MCOffsets : \A length \in MCLengths :
    LET zonesize == Zone!atcab_get_zone_size(place[1], place[2])
        read == Zone!atcab_read_bytes_zone(place[1], place[2], offset, length)
    IN  IF offset + length > zonesize THEN read.status = Zone!BadParam
        ELSE /\ Chained(read.pieces, offset, length)
             /\ \A i \in DOMAIN read.pieces : InZone(read.pieces[i], zonesize)

\* A write that is not refused writes the words it is asked to, each once, but
\* for the lock bytes of the configuration, which no write touches.
ASSUME WritesAreExact ==
  \A place \in MCPlaces : \A offset \in MCOffsets : \A length \in MCLengths :
    LET zonesize == Zone!atcab_get_zone_size(place[1], place[2])
        write == Zone!atcab_write_bytes_zone(place[1], place[2], offset, length)
        words(piece) == {Zone!Start(piece) + 4 * w : w \in 0..(piece.size \div 4 - 1)}
        asked == {offset + 4 * w : w \in 0..(length \div 4 - 1)}
    IN  IF offset + length > zonesize \/ offset % 4 # 0 \/ length % 4 # 0
        THEN write.status = Zone!BadParam
        ELSE /\ UNION {words(write.pieces[i]) : i \in DOMAIN write.pieces}
                  = asked \ (IF place[1] = Zone!CONFIG THEN {84} ELSE {})
             /\ \A i, j \in DOMAIN write.pieces : i # j =>
                  words(write.pieces[i]) \cap words(write.pieces[j]) = {}
             /\ \A i \in DOMAIN write.pieces : InZone(write.pieces[i], zonesize)

\* Different words of the data zone have different addresses.
ASSUME AddressesDiffer ==
  \A s, t \in {0, 7, 8, 15} : \A b, c \in {0, 1, 12} : \A v, w \in 0..7 :
    <<s, b, v>> = <<t, c, w>>
      <=> Zone!atcab_get_addr(Zone!DATA, s, b, v)
            = Zone!atcab_get_addr(Zone!DATA, t, c, w)

\* What is written as a public key is read as the same public key.
ASSUME PublicKeyIsRead ==
  LET key == [i \in 1..64 |-> i]
      slot == Zone!atcab_write_pubkey(key)
  IN  Zone!atcab_read_pubkey([b \in 1..3 |->
        SubSeq(slot, 32 * (b - 1) + 1, 32 * b)]) = key

\* The serial number leaves out the revision between its two parts.
ASSUME SerialNumber ==
  Zone!atcab_read_serial_number([i \in 1..32 |-> i - 1])
    = <<0, 1, 2, 3, 8, 9, 10, 11, 12>>

\* Locking a slot names the slot it is about: the lock modes differ, all of
\* them lock a slot and no zone, and a slot's lock bit is its own.
ASSUME SlotLocks ==
  /\ \A s, t \in 0..15 : s = t <=> Zone!atcab_lock_data_slot(s)
                                     = Zone!atcab_lock_data_slot(t)
  /\ \A s \in 0..15 : Zone!atcab_lock_data_slot(s) % 4 = 2
  /\ \A s, t \in 0..15 :
       LET open == IF s < 8 THEN <<255 - 2 ^ s, 255>>
                   ELSE <<255, 255 - 2 ^ (s - 8)>>
       IN  Zone!atcab_is_slot_locked(t, open) <=> s = t
-----------------------------------------------------------------------------
(* The commands of the basic API.                                          *)
Api == INSTANCE DeviceCommands

\* One call for every set of arguments that are given or missing.
MCCalls ==
  UNION {
    {Api!atcab_nonce_base(mode) : mode \in 0..255},
    {Api!atcab_nonce_load(target, size) : target \in {0, 64, 128}, size \in {20, 32, 64}},
    {Api!atcab_genkey(3), Api!atcab_get_pubkey(3), Api!atcab_random,
     Api!atcab_ecdh(2), Api!atcab_ecdh_ioenc(2), Api!atcab_ecdh_tempkey},
    {Api!atcab_kdf(mode, 1, a, n) : mode \in {0, 32, 64}, a \in BOOLEAN, n \in 0..128},
    {Api!atcab_priv_write(key, a, 4, b) : key \in {3, 16}, a, b \in BOOLEAN},
    {Api!atcab_write_config_counter(c, v) : c \in 0..2, v \in {0, 5}},
    {Api!atcab_write_config_zone([i \in 1..128 |-> i])}}
  \cup UNION {
    {Api!atcab_checkmac(mode, 1, a, b, c), Api!atcab_mac(mode, 1, a, b),
     Api!atcab_derivekey(4, 1, a), Api!atcab_read_enc(2, 1, a, b, 4),
     Api!atcab_write_enc(2, 1, a, b, 4), Api!atcab_verify_validate(3, a, b),
     Api!atcab_verify_invalidate(3, a, b)} :
      mode \in 0..7, a, b, c \in BOOLEAN}
  \cup UNION {
    {Api!atcab_sign(d, 1, a), Api!atcab_verify_extern(d, a, b, c),
     Api!atcab_verify_stored(d, a, b, 2)} :
      d \in Api!Devices, a, b, c \in BOOLEAN}
  \cup {Api!atcab_verify_extern_stored_mac(mode, 3, a, b, c, d, e) :
          mode \in {0, 2}, a, b, c, d, e \in BOOLEAN}

Whole(call) == \A i \in DOMAIN call.commands :
                 call.commands[i].size = 7 + call.commands[i].given

\* A function gives its packet the very bytes that the packet's size counts: none
\* that were never set are sent.
ASSUME NothingUnsetIsSent == \A call \in MCCalls : Whole(call)

\* But two: GenDig of a shared nonce with less than a block of other data, and
\* SecureBoot, where the mode asks for a signature and none is given, or one is
\* given that the mode does not ask for.
ASSUME SomethingUnsetIsSent ==
  /\ \A zone \in 0..5 : \A n \in {0, 3, 4, 31, 32} :
       Whole(Api!atcab_gendig(zone, 1, n)) \/ (zone = 3 /\ n < 32)
  /\ ~Whole(Api!atcab_gendig(3, 1, 4))
  /\ \A mode \in 0..255 : \A signature \in BOOLEAN :
       LET call == Api!atcab_secureboot_mac(mode, TRUE, signature, TRUE, TRUE)
       IN  Whole(call) <=> \/ call.status = Api!Refusal
                           \/ signature <=> mode % 8 # 6

\* A signature is verified just if every command was answered with success and
\* the answer's code is right; one that is wrong is a result and no error.
ASSUME VerdictIsTheDevices ==
  \A d \in Api!Devices :
    \A call \in {Api!atcab_verify_extern(d, TRUE, TRUE, TRUE),
                 Api!atcab_verify_stored(d, TRUE, TRUE, 2)} :
      \A answers \in [1..2 -> {Api!Success, Api!VerifyFailed, "ATCA_COMM_FAIL"}] :
        \A mac \in BOOLEAN :
          LET verdict == Api!Verdict(call, answers, mac)
          IN  /\ verdict.is_verified
                   <=> answers = <<Api!Success, Api!Success>> /\ mac
              /\ verdict.status = Api!Success
                   <=> answers[1] = Api!Success /\ answers[2] # "ATCA_COMM_FAIL"

\* The configuration is written but for the bytes that never are: the serial
\* number and what is with it, and the locks.
ASSUME ConfigurationIsWritten ==
  LET commands == Api!atcab_write_config_zone([i \in 1..128 |-> i]).commands
      bytes(c) == IF c.opcode = "WRITE"
                  THEN LET from == (c.param2 % 256) * 4
                       IN  from..(from + (IF c.param1 >= 128 THEN 31 ELSE 3))
                  ELSE {84 + c.param1}
  IN  UNION {bytes(commands[i]) : i \in DOMAIN commands} = (16..127) \ {86, 87}

\* A counter's bytes stand for its value: the binary parts count the times that
\* the bits of a linear part were used up.
ASSUME CounterIsWritten ==
  LET clear(n) == Cardinality({i \in 0..15 : (n \div 2 ^ i) % 2 = 0})
  IN  \A value \in 0..300 \cup {2097151} :
        LET c == Api!CounterBytes(value)
        IN  16 * (c.bin_a + c.bin_b) + clear(c.lin_a) + clear(c.lin_b) = value
-----------------------------------------------------------------------------
(* What the host digests to know what the device will.                     *)
MCFold(t) ==
  [i \in 1..32 |-> (Len(t) + 3 * i + t[1 + ((7 * i) % Len(t))]
                      + 5 * t[Len(t) - ((3 * i) % Len(t))]) % 256]
Host == INSTANCE HostMessages WITH Sha2_256 <- MCFold

MCSome(n, a) == [i \in 1..n |-> (a * i + a) % 256]
MCSn == <<1, 35, 7, 8, 9, 10, 11, 12, 238>>
MCTempKey(source, gendig) ==
  [value |-> MCSome(32, 3), key_id |-> 2, source_flag |-> source,
   gen_dig_data |-> gendig, gen_key_data |-> 0, no_mac_flag |-> 0, valid |-> 1,
   is_64 |-> 0]

\* What Verify digests to validate or invalidate a key, of what Sign has given
\* to the host, is what Sign has digested.
ASSUME ValidateRebuilds ==
  \A mode \in {0, 1, 64, 65} : \A key \in {1, 260} : \A locked, invalid \in BOOLEAN :
    \A dev \in {"ATECC108A", "ATECC508A"} :
      LET param == [mode |-> mode, key_id |-> key, temp_key |-> MCTempKey(0, 1),
                    sn |-> MCSn, slot_config |-> 8320, key_config |-> 51,
                    use_flag |-> 9, update_count |-> 8,
                    is_slot_locked |-> locked, for_invalidate |-> invalid]
          signed == Host!atcah_sign_internal_msg(dev, param).out
      IN  /\ Len(signed.message) = 55 /\ Len(signed.verify_other_data) = 19
          /\ Host!ValidateMessage([temp_key |-> param.temp_key, sn |-> MCSn,
                                   other_data |-> signed.verify_other_data])
               = signed.message

\* CheckMac on one device digests what MAC on another has.
ASSUME CheckMacFollowsMac ==
  \A mode \in {0, 1, 2, 3, 5, 6, 7, 32, 33, 64, 96, 97, 102} :
    LET common == [otp |-> MCSome(11, 9), sn |-> MCSn,
                   temp_key |-> MCTempKey((mode \div 4) % 2, 0)]
        included == Host!atcah_include_data(mode, MCSome(11, 9), MCSn)
        mac == Host!MacMessage(common @@
                 [mode |-> mode, key_id |-> 259, key |-> MCSome(32, 5),
                  challenge |-> MCSome(32, 7)])
        check == Host!CheckMacMessage(common @@
                   [mode |-> mode % 64, slot_key |-> MCSome(32, 5),
                    client_chal |-> MCSome(32, 7),
                    other_data |-> <<8, mode, 3, 1>> \o SubSeq(included, 9, 11)
                                     \o SubSeq(included, 13, 16)
                                     \o SubSeq(included, 19, 20)])
    IN  Len(mac) = 88 /\ mac = check

MCUse(zone, key, nomac) ==
  [zone |-> zone, key_id |-> key, is_key_nomac |-> nomac,
   stored_value |-> MCSome(32, 11), other_data |-> MCSome(32, 12), sn |-> MCSn,
   counter |-> 70000, slot_conf |-> 8320, key_conf |-> 51, slot_locked |-> 1,
   temp_key |-> MCTempKey(0, 0), input_data |-> MCSome(32, 13)]

\* The messages have the sizes that the datasheet gives them, for each zone.
ASSUME MessagesAreWhole ==
  /\ \A zone \in 0..5 : \A key \in {2, 260, 32770} : \A nomac \in {0, 1} :
       /\ Len(Host!GenDigMessage(MCUse(zone, key, nomac))) = 96
       /\ Host!atcah_gen_dig(MCUse(zone, key, nomac)).status = "SUCCESS"
  /\ LET write == MCUse(130, 5, 0)
     IN  /\ Len(Host!AuthMessage(write, 18, 25)) = 96
         /\ Len(Host!AuthMessage([write EXCEPT !.input_data = MCSome(36, 7)], 70, 21)) = 96
         /\ Len(Host!GenMacMessage(write)) = 96
  /\ LET derive == [parent_key |-> MCSome(32, 3), mode |-> 4, target_key_id |-> 9,
                    sn |-> MCSn, temp_key |-> MCTempKey(1, 0)]
     IN  /\ Len(Host!DeriveKeyMessage(derive)) = 96
         /\ Len(Host!DeriveKeyMacMessage(derive)) = 39
  /\ Len(Host!NonceMessage([rand_out |-> MCSome(32, 3), num_in |-> MCSome(20, 3),
                            mode |-> 0])) = 55

\* What is encrypted to be written is decrypted again, and uses the temporary
\* key up; the encryption by the I/O key is its own inverse.
ASSUME DecryptsWhatIsWritten ==
  LET write == [MCUse(130, 5, 0) EXCEPT !.temp_key = MCTempKey(0, 1)]
      sent == Host!atcah_write_auth_mac(write)
      read == Host!atcah_decrypt([crypto_data |-> sent.out.encrypted,
                                  temp_key |-> sent.temp_key])
      key == MCSome(32, 3)
      nonce == MCSome(32, 5)
      once == Host!atcah_io_decrypt(key, nonce, MCSome(64, 3)).out
  IN  /\ read.out = write.input_data
      /\ read.temp_key.valid = 0
      /\ Host!atcah_io_decrypt(key, nonce, once).out = MCSome(64, 3)
-----------------------------------------------------------------------------
(* Digests and ciphers of data that come in pieces.  The engines are made    *)
(* up: one that keeps the blocks, and a permutation that is its own undoing.*)
MCKeep(state, block) == Append(state, block)
MCEncrypt(block) == [i \in 1..16 |-> (block[17 - i] + 77) % 256]
MCDecrypt(block) == [i \in 1..16 |-> (block[17 - i] + 179) % 256]
MCMul(h, block) == [i \in 1..16 |-> (3 * block[1 + (i % 16)] + h[i]) % 256]
Crypto == INSTANCE CryptoStreams WITH Engine <- MCKeep, Encrypt <- MCEncrypt,
                                      Decrypt <- MCDecrypt, Gfm <- MCMul

MCText(n) == [i \in 1..n |-> (i * 7) % 256]
Pieces(s, a, b) == <<SubSeq(s, 1, a), SubSeq(s, a + 1, b), SubSeq(s, b + 1, Len(s))>>
Cuts(sizes, n) == {c \in sizes \X sizes : c[1] <= c[2] /\ c[2] <= n}

\* The text, a bit that is set, zeros, and the number of bits of the text.
Padded(s) == s \o <<128>> \o Crypto!Zeros(((119 - (Len(s) % 64)) % 64) + 4)
               \o Crypto!Word(8 * Len(s))

\* Both digests in software are of the padded text, however it is cut.
ASSUME DigestsAreOfTheText ==
  \A n \in {0, 1, 55, 56, 63, 64, 65, 119, 120, 128, 129} :
    \A c \in Cuts({0, 1, 55, 63, 64, 65, n}, n) :
      LET pieces == Pieces(MCText(n), c[1], c[2])
          sha2 == FoldLeft(Crypto!sw_sha256_update,
                           [hash |-> <<>>, block |-> <<>>, total |-> 0], pieces)
          sha1 == FoldLeft(Crypto!CL_hashUpdate,
                           [h |-> <<>>, buf |-> <<>>, byteCount |-> 0], pieces)
          standard == Crypto!Blocks(Padded(MCText(n)), 64)
      IN  /\ Crypto!sw_sha256_final(sha2) = standard
          /\ Crypto!CL_hashFinal(sha1) = standard

\* So is the digest of the device: its updates are of whole blocks, its end of
\* less than one, and only the device that does not pad gets padding.
ASSUME DeviceDigestsTheText ==
  \A n \in {0, 1, 55, 56, 63, 64, 65, 119, 120, 128, 129} :
    \A c \in Cuts({0, 1, 63, 64, n}, n) :
      LET Update(o, piece) ==
            LET u == Crypto!atcab_hw_sha2_256_update(o.ctx, piece)
            IN  [u EXCEPT !.calls = o.calls \o @]
          updates == FoldLeft(Update, Crypto!atcab_hw_sha2_256_init,
                              Pieces(MCText(n), c[1], c[2]))
          padding == Crypto!atcab_hw_sha2_256_finish("ATSHA204A", updates.ctx).calls
          plain == Crypto!atcab_hw_sha2_256_finish("ATECC508A", updates.ctx).calls
          Data(calls) == FlattenSeq([i \in DOMAIN calls |-> calls[i].data])
      IN  /\ Data(updates.calls \o padding) = Padded(MCText(n))
          /\ Data(updates.calls \o plain) = MCText(n)
          /\ Len(plain) = 1 /\ Len(plain[1].data) < 64
          /\ \A i \in 2..Len(updates.calls) : Len(updates.calls[i].data) = 64

MCAesSizes == {0, 1, 15, 16, 17, 31, 32, 33}

\* The standard's CMAC of a text, in one piece.
Cmac(s) ==
  LET n == Len(s)
      full == n > 0 /\ n % 16 = 0
      k1 == Crypto!SubKey(MCEncrypt(Crypto!Zeros(16)))
      before == IF full THEN n - 16 ELSE 16 * (n \div 16)
      rest == SubSeq(s, before + 1, n)
      last == IF full THEN Crypto!Mixed(rest, k1)
              ELSE Crypto!Mixed(rest \o <<128>> \o Crypto!Zeros(15 - Len(rest)),
                                Crypto!SubKey(k1))
  IN  FoldLeft(LAMBDA x, block : MCEncrypt(Crypto!Mixed(block, x)), Crypto!Zeros(16),
               Append(Crypto!Blocks(SubSeq(s, 1, before), 16), last))

\* The CMAC is the standard's however the text is cut; one that is longer than a
\* block is refused.
ASSUME CmacIsOfTheText ==
  \A n \in MCAesSizes : \A c \in Cuts(MCAesSizes, n) : \A size \in {16, 17} :
    LET mac == Crypto!atcab_aes_cmac_finish(
                 FoldLeft(Crypto!atcab_aes_cmac_update, Crypto!CmacInit,
                          Pieces(MCText(n), c[1], c[2])), size)
    IN  IF size = 16 THEN mac.cmac = Cmac(MCText(n)) ELSE mac.status = "BAD_PARAM"

MCIv(n) == [i \in 1..n |-> 250 + (i % 6)]
Gcm(iv, aad, pieces, encrypt) ==
  LET Update(o, piece) ==
        LET u == Crypto!atcab_aes_gcm_update(o.ctx, piece, encrypt)
        IN  [out |-> o.out \o u.out, ctx |-> u.ctx]
      begun == FoldLeft(Crypto!atcab_aes_gcm_aad_update, Crypto!atcab_aes_gcm_init(iv), aad)
  IN  FoldLeft(Update, [out |-> <<>>, ctx |-> begun], pieces)

\* GCM gives the same text and tag however the data and the text are cut, the tag
\* is the standard's, the text comes back, and no other tag is verified: not
\* one with another byte, nor the first half of it.
ASSUME GcmIsOfTheText ==
  \A ivsize \in {12, 13, 16} : \A n, m \in {0, 1, 16, 17, 32} :
    \A c \in Cuts({0, 1, 16, 17}, n) :
      LET iv == MCIv(ivsize)
          whole == Gcm(iv, <<MCText(m)>>, <<MCText(n)>>, TRUE)
          cut == Gcm(iv, Pieces(MCText(m), 0, m \div 2), Pieces(MCText(n), c[1], c[2]), TRUE)
          tag == Crypto!atcab_aes_gcm_encrypt_finish(whole.ctx, 16).tag
          back == Gcm(iv, <<MCText(m)>>, Pieces(whole.out, c[1], c[2]), FALSE)
          hashed == Crypto!Pad16(MCText(m)) \o Crypto!Pad16(whole.out)
                      \o Crypto!Length(m) \o Crypto!Length(n)
          ghash == FoldLeft(LAMBDA y, block :
                              MCMul(MCEncrypt(Crypto!Zeros(16)), Crypto!Mixed(y, block)),
                            Crypto!Zeros(16), Crypto!Blocks(hashed, 16))
          Verified(t) == Crypto!atcab_aes_gcm_decrypt_finish(back.ctx, t).is_verified
      IN  /\ cut.out = whole.out
          /\ Crypto!atcab_aes_gcm_encrypt_finish(cut.ctx, 16).tag = tag
          /\ tag = Crypto!Mixed(MCEncrypt(Crypto!atcab_aes_gcm_init(iv).j0), ghash)
          /\ back.out = MCText(n)
          /\ Verified(tag)
          /\ ~Verified([tag EXCEPT ![3] = (@ + 1) % 256])
          /\ ~Verified(SubSeq(tag, 1, 8))
=============================================================================
