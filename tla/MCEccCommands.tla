--------------------------- MODULE MCEccCommands ----------------------------
(* Instances of EccCommands for TLC.                                       *)
EXTENDS EccCommands, TLC, SequencesExt

\* A slot that is too small for a public key, and one that is not.
MCZoneSize == 0 :> 2 @@ 1 :> 6

\* Slot numbers up to one past the last; lengths that fit in a slot or an
\* area, that do not, that are not a whole number of words, and 18, which
\* doubles to 4 modulo 32.  Digests of 2 bytes have 4 or 3 digits, or 11: that
\* is 6 bytes, which is 2 modulo 4.
MCArgLists ==
  {<<>>, <<0>>, <<1>>, <<2>>, <<Malformed>>, <<6>>, <<32>>,
   <<1, 0>>, <<1, 6>>, <<0, 18>>, <<2, 4>>, <<1, Malformed>>,
   <<0, 8>>, <<1, 8>>,
   <<0, 4>>, <<0, 3>>, <<0, 5>>, <<0, 11>>,
   <<0, 2, 4>>, <<0, 4, 8>>, <<1, 4, 4>>, <<0, 18, 4>>, <<1, 3, 6>>,
   <<1, 2, 36>>, <<1, 6, 12>>, <<1, 16, 32>>,
   <<2, 2, 4>>, <<1, Malformed, 4>>, <<1, 0, 4>>, <<0, 1, 2, 4>>}
-----------------------------------------------------------------------------
(* The conversions and the argument parser, on small inputs.               *)
Hex == INSTANCE Conversions
Args == INSTANCE ArgParser WITH Word16 <- 32, Word32 <- 512

\* '0', 'A', 'f', and a character that is not a digit.
MCChars == {48, 65, 102, 45}
MCBytes == {0, 175, 250}
MCMemories == UNION {[1..n -> MCChars] : n \in 1..5}
MCRaw == UNION {[1..n -> MCBytes] : n \in 1..4}

\* Digits of both cases are understood, and only upper case is written.
ASSUME Digits ==
  /\ \A n \in 0..15 : Hex!hex2nibble(Hex!nibble2hex(n)) = n
  /\ \A n \in 10..15 : Hex!hex2nibble(Hex!nibble2hex(n) + 32) = n
  /\ \A c \in 0..255 : Hex!hex2nibble(c) # 0
                        => c \in Hex!Digits \cup Hex!UpperHex \cup Hex!LowerHex

\* Decoding in place gives what decoding to another buffer would, and leaves
\* what is behind the decoded bytes alone.
ASSUME DecodesInPlace ==
  \A memory \in MCMemories : \A length \in {0, 2, 4} :
    length <= Len(memory) =>
      Hex!convert_hex2bin(length, memory)
        = Hex!Decoded(SubSeq(memory, 1, length))
            \o SubSeq(memory, length \div 2 + 1, Len(memory))

\* An odd length takes one character more than it says.
ASSUME OddLengthReadsOn ==
  \A memory \in MCMemories : \A length \in {3} :
    length < Len(memory) =>
      Hex!convert_hex2bin(length, memory)
        = Hex!convert_hex2bin(length + 1, memory)

\* Encoding in place is right whatever the bytes if they start at their own
\* number, where the handlers put them, and not if they start one earlier.
EncodesInPlace(from, raw) ==
  LET memory == [i \in 1..(2 * Len(raw) + 1) |->
                   IF i \in (from + 1)..(from + Len(raw))
                   THEN raw[i - from] ELSE 1]
  IN  SubSeq(Hex!convert_bin2hex(Len(raw), from, memory), 1, 2 * Len(raw))
        = Hex!Encoded(raw)
ASSUME HandlersEncodeInPlace ==
  /\ \A raw \in MCRaw : EncodesInPlace(Len(raw), raw)
  /\ \A n \in 1..4 : \E raw \in [1..n -> MCBytes] : ~EncodesInPlace(n - 1, raw)

\* What is encoded is decoded again, and the 16-bit status is written as four
\* digits like its two bytes.
ASSUME RoundTrip ==
  /\ \A raw \in MCRaw : Hex!Decoded(Hex!Encoded(raw)) = raw
  /\ \A num \in {0, 1, 4660, 43981, 65535} :
       Hex!convert_itohex(num) = Hex!Encoded(<<num \div 256, num % 256>>)

\* The handlers are modelled with the lengths of the conversions.
ASSUME LengthsAgree == \A n \in 0..64 : Hex!BinLength(n) = convert_hex2bin(n)

\* Each number in range is understood in each notation, and one out of range is
\* refused where 16 bits are asked for.
ASSUME NumeralsAreUnderstood ==
  \A value \in 0..600 : \A text \in {Args!Decimal(value), Args!Octal(value),
                                    Args!Hexadecimal(value)} :
    /\ Args!parse_arg_uint16(text).ok <=> value < 32
    /\ value < 32 => Args!parse_arg_uint16(text).value = value
    /\ Args!parse_arg_uint32(text) = [ok |-> TRUE,
                                      value |-> IF value < 512 THEN value ELSE 511]

\* '0', '7', '9', 'A', 'X', '-' and a blank.
MCTexts == UNION {[1..n -> {48, 55, 57, 65, 88, 45, 32}] : n \in 0..4}
Unsigned(text) == \A i \in DOMAIN text : text[i] \notin {45, 32}

\* Without a sign and blanks nothing but a numeral, with zeros in front of it
\* or not, is accepted; a negative number is one modulo 2^32, which only 16
\* bits refuse.
ASSUME OnlyNumeralsAreAccepted ==
  \A text \in MCTexts :
    /\ Args!parse_arg_uint32(text).ok /\ Unsigned(text) =>
         \/ \A i \in DOMAIN text : text[i] \in {48, 55, 57}
         \/ SubSeq(text, 1, 2) = <<48, 88>> /\ Len(text) > 2
    /\ Args!parse_arg_uint32(text).ok
         => Args!parse_arg_uint32(text).value \in 0..511
    /\ Args!parse_arg_uint16(text).ok /\ 45 \in {text[i] : i \in DOMAIN text}
         => Args!parse_arg_uint16(text).value = 0
-----------------------------------------------------------------------------
(* Certificates: dates, DER, texts and their templates.                    *)
MCSum(t) == FoldLeft(LAMBDA a, c : (7 * a + c) % 65521, 1, t)
MCHash(n, t) == LET sum == MCSum(t) IN [i \in 1..n |-> ((sum \div i) + n) % 256]
MCSha1(t) == MCHash(20, t)
MCSha256(t) == MCHash(32, t)
MCSign(key, digest) == [i \in 1..64 |-> (digest[1 + (i % 32)] + key) % 256]
MCData(n, s) == [i \in 1..n |-> ((i * i * 37) + (i * s) + s) % 256]

Dates == INSTANCE CertDates
Der == INSTANCE CertDer WITH LengthSize <- 2, Half <- 2
Text == INSTANCE TextEncodings WITH Digest <- MCSha256, Sign <- MCSign
Cert == INSTANCE CertDef WITH Sha1 <- MCSha1, Sha2_256 <- MCSha256, Sign <- MCSign

MCDates ==
  {Dates!Date(y, m, d, t[1], t[2], t[3]) :
     y \in {1949, 1950, 1970, 2000, 2024, 2031, 2049, 2050, 2106, 9999},
     m \in {1, 2, 3, 12}, d \in {1, 7, 28, 29, 31},
     t \in {<<0, 0, 0>>, <<6, 28, 15>>, <<23, 59, 59>>}}
Exists(tm) == /\ Dates!InRange(tm)
              /\ tm.tm_mday <= Dates!MonthDays(Dates!Year(tm), tm.tm_mon)

\* A date that can be written in a format is read back, and is of its size.
ASSUME DatesAreRead ==
  \A format \in Dates!Formats : \A tm \in MCDates :
    LET date == Dates!atcacert_date_enc(format, tm, TRUE, 20)
    IN  date.status = "SUCCESS" /\ Exists(tm) =>
          /\ Dates!atcacert_date_dec(format, date.value) = Dates!Success(tm)
          /\ Len(date.value) = Dates!SizeOf(format)

\* The latest date of a format can be written, but for those that count
\* seconds: the year 2106 is refused, though a part of it fits.
ASSUME LatestDates ==
  \A format \in Dates!Formats :
    LET latest == Dates!atcacert_date_get_max_date(format)
    IN  Dates!atcacert_date_enc(format, latest, TRUE, 20).status = "SUCCESS"
          <=> format \in Dates!Texts

\* A count of seconds is read as a date that exists, and each second is another
\* one.
ASSUME SecondsAreDates ==
  \A a, b, c, d \in {0, 127, 128, 255} :
    /\ Dates!BigEndian(Dates!TimeOf(<<a, b, c, d>>)) = <<a, b, c, d>>
    /\ Exists(Dates!atcacert_date_dec("POSIX_UINT32_BE", <<a, b, c, d>>).value)

\* The three bytes of a compressed certificate keep a date to the hour.
ASSUME CompressedDates ==
  \A tm \in MCDates : \A years \in {0, 1, 31, 32} :
    LET date == Dates!atcacert_date_enc_compcert(tm, years)
    IN  date.status = "SUCCESS" =>
          Dates!atcacert_date_dec_compcert(date.value, "RFC5280_UTC").issue
            = [tm EXCEPT !.tm_min = 0, !.tm_sec = 0]

MCEdges == {0, 1, 127, 128, 255}
MCRest == {<<>>, <<2>>, <<0, 0>>}

\* A length is written in its shortest form, which is the form that is read.
ASSUME DerLengths ==
  \A length \in 0..600 \cup {32768, 65535} :
    LET der == Der!DerLength(length)
    IN  /\ Der!atcacert_der_dec_length(der)
             = [status |-> "SUCCESS", size |-> Len(der), length |-> length]
        /\ Len(der) >= 2 => der[2] # 0

\* An integer is read with the value it had, signed or not.
ASSUME DerIntegers ==
  \A n \in 1..3 : \A data \in [1..n -> MCEdges] : \A unsigned \in BOOLEAN :
    LET der == Der!DerInteger(data, unsigned)
        read == Der!atcacert_der_dec_integer(der \o <<7>>, 100)
        signed(v) == Der!Unsigned(v) - (IF v[1] >= 128 THEN 256 ^ Len(v) ELSE 0)
    IN  /\ read.status = "SUCCESS" /\ read.size = Len(der)
        /\ IF unsigned
             THEN Der!Unsigned(read.value) = Der!Unsigned(data) /\ read.value[1] < 128
             ELSE signed(read.value) = signed(data)

\* A signature is read whatever follows it, and not if its end is missing; no
\* other tag, size or padding passes for the one that is right.
ASSUME DerSignatures ==
  \A sig \in [1..4 -> MCEdges] :
    LET der == Der!DerSignature(sig)
        read(bytes) == Der!atcacert_der_dec_ecdsa_sig_value(bytes)
    IN  /\ \A rest \in MCRest :
             read(der \o rest)
               = [status |-> "SUCCESS", size |-> Len(der), value |-> sig]
        /\ \A n \in 0..(Len(der) - 1) :
             read(SubSeq(der, 1, n)).status # "SUCCESS"
        /\ \A i \in 1..5 : \A byte \in {0, 2, 3, 48, 130, 255} \ {der[i]} :
             read([der EXCEPT ![i] = byte]).status # "SUCCESS"

\* A length that something was added to is the length of the sum, and none is
\* found for one below 0.
ASSUME DerLengthsAreAdjusted ==
  \A length \in {0, 1, 100, 127, 128, 255, 256, 65535} :
    \A delta \in {-128, -1, 0, 1, 100, 300} :
      LET new == Der!atcacert_der_adjust_length(Der!DerLength(length) \o <<9>>, delta)
      IN  new.status = "SUCCESS" =>
            /\ length + delta >= 0
            /\ length + delta < 65536 =>
                 new.value = Der!DerLength(length + delta) \o <<9>>

MCRules == {Text!atcab_b64rules_default, Text!atcab_b64rules_mime,
            Text!atcab_b64rules_urlsafe}

\* Base64 of any length and rules, lines of them or not, is decoded into a buffer
\* of just the size of the data; a smaller one is refused (as a bad parameter,
\* not as a small buffer), and so is a text that ends within a group.
ASSUME Base64IsRead ==
  \A rules \in MCRules : \A n \in 0..20 \cup {46, 47, 48, 49, 95, 96, 97} :
    LET data == MCData(n, 1)
        text == Text!atcab_base64encode_(data, 1000, rules).value
    IN  /\ Text!atcab_base64decode_(text, n, rules) = Text!Success(data)
        /\ n > 0 => Text!atcab_base64decode_(text, n - 1, rules).status = "BAD_PARAM"
        /\ Text!EncodedRoom(n, rules) > Len(text)
        /\ \A k \in 1..3 : 4 * k < Len(text) =>
             Text!atcab_base64decode_(SubSeq(text, 1, 4 * k - 3), n, rules).status
               = "BAD_PARAM"

\* Hexadecimal digits are read with the separators they are written with.
ASSUME HexIsRead ==
  \A n \in 0..20 : \A pretty, spaces, upper \in BOOLEAN :
    LET data == MCData(n, 3)
        text == Text!atcab_bin2hex_(data, 1000, pretty, spaces, upper).value
    IN  /\ Text!atcab_hex2bin_(text, n, FALSE) = Text!Success(data)
        /\ n > 0 => Text!atcab_hex2bin_(text, n - 1, FALSE).status = "SMALL_BUFFER"
        /\ spaces /\ ~pretty => Text!atcab_hex2bin_(text, n, TRUE) = Text!Success(data)
        /\ Len(Text!packHex(text, 2 * n)) = 2 * n

MCHeader == [i \in 1..37 |-> 45]
MCFooter == [i \in 1..35 |-> 45] \o <<1>>

\* A certificate in PEM is decoded again, from the buffer it fits in.
ASSUME PemIsRead ==
  \A n \in {1, 47, 48, 49, 97} : \A slack \in {29, 30, 31, 32, 36} :
    LET data == MCData(n, 5)
        room == 39 + Text!EncodedRoom(n, Text!atcab_b64rules_default) + slack
        pem == Text!atcacert_encode_pem(data, room, MCHeader, MCFooter)
    IN  pem.status = "SUCCESS" =>
          /\ Len(pem.value) < room
          /\ Text!atcacert_decode_pem(pem.value, n, MCHeader, MCFooter)
               = Text!Success(data)

MCToken(buflen, sizes) ==
  FoldLeft(LAMBDA jwt, n : Text!atca_jwt_add_claim(jwt, [i \in 1..n |-> 99]).jwt,
           Text!atca_jwt_init(buflen).value, sizes)

\* A token that could be finished fits in its buffer and is verified, although
\* its payload is encoded in place.
ASSUME TokensVerify ==
  \A a, b \in {1, 6, 50} : \A buflen \in 160..300 :
    buflen % 4 = a % 4 =>
      LET token == Text!atca_jwt_finalize(MCToken(buflen, <<a, b>>), 3)
      IN  token.status = "SUCCESS" =>
            /\ Len(token.value) < buflen
            /\ Text!atca_jwt_verify(token.value, 3) = token

\* A template of 376 bytes: serial number, signer, dates, key, key identifiers,
\* an element of its own, and a signature of the largest size.
At(offset, count) == [offset |-> offset, count |-> count]
MCTbs == <<48, 130, 1, 34, 5, 64, 1, 2, 3, 4>> \o MCData(4, 9)
           \o [i \in 1..17 |-> 48] \o [i \in 1..13 |-> 49]
           \o [i \in 1..104 |-> 0] \o [i \in 1..16 |-> 7] \o MCData(130, 6)
MCTemplate ==
  LET body == MCTbs \o Cert!Der!DerSignature([i \in 1..64 |-> 255])
  IN  <<48, 130, Len(body) \div 256, Len(body) % 256>> \o body
MCPlacesInCert ==
  "PUBLIC_KEY" :> At(48, 64) @@ "SIGNATURE" :> At(298, 74)
    @@ "ISSUE_DATE" :> At(22, 13) @@ "EXPIRE_DATE" :> At(35, 13)
    @@ "SIGNER_ID" :> At(18, 4) @@ "CERT_SN" :> At(8, 6)
    @@ "AUTH_KEY_ID" :> At(132, 20) @@ "SUBJ_KEY_ID" :> At(112, 20)
MCDef(source, sn_loc, key_loc, elements) ==
  [type |-> "X509", template_id |-> 2, chain_id |-> 1, private_key_slot |-> 0,
   sn_source |-> source, cert_sn_dev_loc |-> sn_loc,
   issue_date_format |-> "RFC5280_UTC", expire_date_format |-> "RFC5280_UTC",
   tbs_cert_loc |-> At(4, 294), expire_years |-> 10,
   public_key_dev_loc |-> key_loc,
   comp_cert_dev_loc |-> Cert!Loc("DATA", 10, FALSE, 0, 72),
   std |-> MCPlacesInCert, cert_elements |-> elements,
   cert_template |-> MCTemplate]
MCElement == [device_loc |-> Cert!Loc("DATA", 8, FALSE, 40, 16),
              cert_loc |-> At(152, 16), transforms |-> <<"NONE", "NONE">>]
MCKeySlot == Cert!Loc("DATA", 11, FALSE, 0, 72)
MCSnAt(offset) == Cert!Loc("DATA", 8, FALSE, offset, 6)
MCDefs ==
  {MCDef("STORED", MCSnAt(32), MCKeySlot, <<>>),
   MCDef("STORED_DYNAMIC", MCSnAt(32), MCKeySlot, <<>>),
   MCDef("STORED", MCSnAt(0), MCKeySlot, <<MCElement>>),
   MCDef("DEVICE_SN_HASH", Cert!NoLoc, MCKeySlot, <<>>),
   MCDef("PUB_KEY_HASH", Cert!NoLoc, Cert!Loc("DATA", 0, TRUE, 0, 64), <<>>),
   [MCDef("SIGNER_ID", Cert!NoLoc, MCKeySlot, <<>>) EXCEPT !.std["CERT_SN"] = At(8, 3)]}

MCConfig == MCData(128, 3)
MCDevice(key) ==
  [zones |-> "CONFIG" :> MCConfig @@ "OTP" :> MCData(64, 4),
   slots |-> [s \in 0..15 |-> Cert!Zeros(IF s < 8 THEN 36 ELSE IF s = 8 THEN 416 ELSE 72)],
   keys |-> [s \in 0..15 |-> key]]
MCAuthority == MCData(64, 77)
MCSn == SubSeq(MCConfig, 1, 4) \o SubSeq(MCConfig, 9, 13)

\* A certificate with every part set, the serial number stored or made up.
MCCert(def, key, sig, date) ==
  LET Built == Cert!atcacert_cert_build_start(def, 400, MCAuthority)
      Keyed == Cert!atcacert_set_subj_public_key(def, Built, key)
      Issued == Cert!atcacert_set_issue_date(def, Keyed, date)
      Dated == Cert!atcacert_set_expire_date(def, Issued, [date EXCEPT !.tm_year = @ + 10])
      Named == Cert!atcacert_set_signer_id(def, Dated, <<18, 171>>)
      Numbered == IF def.sn_source \in {"STORED", "STORED_DYNAMIC"}
                  THEN Cert!atcacert_set_cert_sn(def, Named, 400, <<5, 9, 8, 7, 6, 5>>)
                  ELSE Named
  IN  Cert!atcacert_set_signature(
        def, Cert!atcacert_gen_cert_sn(def, Numbered, MCSn), 400, sig)

\* What is written to the device of a certificate is enough to build the same
\* certificate from the template, whatever the size of its signature, and no
\* certificate is larger than the largest size that is reported.
ASSUME CertificatesAreRebuilt ==
  \A def \in MCDefs :
    \A sig \in {[i \in 1..64 |-> v] : v \in {1, 255}} \cup {MCData(64, 5)} :
      LET key == MCData(64, 3)
          cert == MCCert(def, key, sig, Dates!Date(2024, 2, 29, 13, 0, 0))
          written == Cert!atcacert_write_cert(def, cert.cert)
          holder == FoldLeft(Cert!Apply, MCDevice(key), written.writes)
          read == Cert!atcacert_read_cert(def, MCAuthority, 400, holder)
      IN  /\ cert.status = "SUCCESS" /\ written.status = "SUCCESS"
          /\ read.status = "SUCCESS" /\ read.cert = cert.cert
          /\ Len(cert.cert) <= Cert!atcacert_max_cert_size(def).value

\* A request that the device signs is one that its key verifies.
ASSUME RequestsVerify ==
  \A def \in MCDefs :
    LET request == Cert!atcacert_create_csr(def, 400, MCDevice(MCData(64, 4)))
    IN  /\ request.status = "SUCCESS"
        /\ Cert!atcacert_verify_cert(def, request.cert, 0).status = "SUCCESS"
=============================================================================
