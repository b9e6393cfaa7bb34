------------------------------ MODULE CertDef -------------------------------
(***************************************************************************)
(* atcacert_def.c and atcacert_client.c as functions: a certificate is      *)
(* rebuilt from its template and from what a device stores of it.          *)
(*                                                                         *)
(* A certificate is a sequence of bytes.  What changes one takes and returns*)
(* an outcome: a status and the certificate as far as it got; nothing       *)
(* follows an error.  Null pointers are left out.                          *)
(***************************************************************************)
EXTENDS Integers, Sequences, SequencesExt, FiniteSetsExt

CONSTANTS
  Sha1(_),      \* the hash functions, external: 20 bytes ...
  Sha2_256(_),  \* ... and 32 bytes
  Sign(_, _)    \* a slot's signature of a digest, external: 64 bytes

Dates == INSTANCE CertDates
Der == INSTANCE CertDer WITH LengthSize <- 2, Half <- 32
Text == INSTANCE TextEncodings WITH Digest <- Sha2_256

Outcome(status, cert) == [status |-> status, cert |-> cert]
Fail(r, status) == [r EXCEPT !.status = status]
Success(value) == [status |-> "SUCCESS", value |-> value]
Failure(status) == [status |-> status]

\* The bytes of data from offset on, put in the place of those of cert.
Put(cert, offset, data) ==
  [i \in DOMAIN cert |->
     IF i \in (offset + 1)..(offset + Len(data)) THEN data[i - offset] ELSE cert[i]]
Slice(bytes, offset, count) == SubSeq(bytes, offset + 1, offset + count)
Zeros(count) == [i \in 1..count |-> 0]
-----------------------------------------------------------------------------
(* Locations in the device.                                                *)

Loc(zone, slot, is_genkey, offset, count) ==
  [zone |-> zone, slot |-> slot, is_genkey |-> is_genkey, offset |-> offset,
   count |-> count]
NoLoc == Loc("NONE", 0, FALSE, 0, 0)
IsNone(loc) == loc.zone = "NONE" \/ loc.count = 0
End(loc) == loc.offset + loc.count

\* Bytes 0 to 3 and 8 to 12 of the configuration are the serial number.
DeviceSnLoc == Loc("CONFIG", 0, FALSE, 0, 13)

SamePlace(a, b) ==
  /\ a.zone = b.zone
  /\ a.zone = "DATA" => a.slot = b.slot /\ a.is_genkey = b.is_genkey

\* A location joins the first one that it touches when rounded to blocks.  The
\* offset of what comes of it is not rounded.
atcacert_merge_device_loc(r, max_count, loc, block_size) ==
  LET new_offset == (loc.offset \div block_size) * block_size
      new_end == ((End(loc) + block_size - 1) \div block_size) * block_size
      Touches(cur) == /\ SamePlace(loc, cur)
                      /\ new_end >= cur.offset /\ new_offset <= End(cur)
      places == {i \in DOMAIN r.locs : Touches(r.locs[i])}
      old == r.locs[Min(places)]
      offset == Min({loc.offset, old.offset})
      joined == [old EXCEPT !.offset = offset,
                            !.count = Max({new_end, End(old)}) - offset]
  IN  CASE r.status # "SUCCESS" \/ IsNone(loc) -> r
        [] r.status = "SUCCESS" /\ ~IsNone(loc) /\ places # {} ->
             [r EXCEPT !.locs[Min(places)] = joined]
        [] r.status = "SUCCESS" /\ ~IsNone(loc) /\ places = {} ->
             IF Len(r.locs) >= max_count THEN Fail(r, "BUFFER_TOO_SMALL")
             ELSE [r EXCEPT !.locs = Append(@,
                     [loc EXCEPT !.offset = new_offset,
                                 !.count = new_end - new_offset])]

UsesDeviceSn(def) ==
  def.sn_source \in {"DEVICE_SN", "DEVICE_SN_HASH", "DEVICE_SN_HASH_POS",
                     "DEVICE_SN_HASH_RAW"}

atcacert_get_device_locs(def, max_count, block_size) ==
  LET wanted == <<def.comp_cert_dev_loc, def.cert_sn_dev_loc, def.public_key_dev_loc>>
                  \o [i \in DOMAIN def.cert_elements |-> def.cert_elements[i].device_loc]
                  \o (IF UsesDeviceSn(def) THEN <<DeviceSnLoc>> ELSE <<>>)
      Merge(r, loc) == atcacert_merge_device_loc(r, max_count, loc, block_size)
  IN  FoldLeft(Merge, [status |-> "SUCCESS", locs |-> <<>>], wanted)

\* The bytes of dest in the data of src; none unless src has them all.
atcacert_is_device_loc_match(dest, src, src_data) ==
  IF /\ ~IsNone(dest) /\ ~IsNone(src) /\ SamePlace(dest, src)
     /\ dest.offset >= src.offset /\ End(dest) <= End(src)
  THEN Slice(src_data, dest.offset - src.offset, dest.count) ELSE <<>>

atcacert_is_device_loc_overlap(a, b) ==
  SamePlace(a, b) /\ ~(End(a) <= b.offset \/ a.offset >= End(b))

atcacert_copy_device_loc_data(src, data_src, dest, data_dest) ==
  [i \in DOMAIN data_dest |->
     LET at == dest.offset + i
     IN  IF at \in (src.offset + 1)..End(src) THEN data_src[at - src.offset]
         ELSE data_dest[i]]
-----------------------------------------------------------------------------
(* Elements of a certificate.                                              *)

Dynamic(def) == def.type = "X509" /\ def.sn_source = "STORED_DYNAMIC"

\* How far the serial number's length moves what comes after it.
get_effective_offset(def, cert, ref_offset) ==
  LET sn == def.std["CERT_SN"].offset
  IN  IF ~Dynamic(def) \/ ref_offset <= sn THEN 0
      ELSE cert[sn + 1] - def.cert_template[sn + 1]

Inside(from, count, cert) == from + count \in 0..Len(cert)

atcacert_set_cert_element(def, r, loc, data) ==
  LET from == loc.offset + get_effective_offset(def, r.cert, loc.offset)
      isSn == Dynamic(def) /\ loc.offset = def.std["CERT_SN"].offset
  IN  IF r.status # "SUCCESS" \/ loc.count = 0 THEN r
      ELSE IF ~isSn /\ Len(data) # loc.count THEN Fail(r, "UNEXPECTED_ELEM_SIZE")
      ELSE IF ~Inside(from, Len(data), r.cert) THEN Fail(r, "ELEM_OUT_OF_BOUNDS")
      ELSE [r EXCEPT !.cert = Put(@, from, data)]

atcacert_get_cert_element(def, loc, cert, data_size) ==
  LET from == loc.offset + get_effective_offset(def, cert, loc.offset)
  IN  IF loc.count = 0 THEN Failure("ELEM_MISSING")
      ELSE IF loc.count # data_size THEN Failure("UNEXPECTED_ELEM_SIZE")
      ELSE IF ~Inside(from, loc.count, cert) THEN Failure("ELEM_OUT_OF_BOUNDS")
      ELSE Success(Slice(cert, from, loc.count))

SetStd(def, r, element, data) ==
  atcacert_set_cert_element(def, r, def.std[element], data)
GetStd(def, cert, element, data_size) ==
  atcacert_get_cert_element(def, def.std[element], cert, data_size)

atcacert_get_key_id(public_key) == Sha1(<<4>> \o public_key)

atcacert_set_subj_public_key(def, r, key) ==
  SetStd(def, SetStd(def, r, "PUBLIC_KEY", key), "SUBJ_KEY_ID",
         atcacert_get_key_id(key))
atcacert_get_subj_public_key(def, cert) == GetStd(def, cert, "PUBLIC_KEY", 64)
atcacert_get_subj_key_id(def, cert) == GetStd(def, cert, "SUBJ_KEY_ID", 20)

atcacert_set_auth_key_id(def, r, key) ==
  SetStd(def, r, "AUTH_KEY_ID", atcacert_get_key_id(key))
atcacert_get_auth_key_id(def, cert) == GetStd(def, cert, "AUTH_KEY_ID", 20)

\* 4 zeros in front of each half of the key.
atcacert_public_key_add_padding(key) ==
  Zeros(4) \o Slice(key, 0, 32) \o Zeros(4) \o Slice(key, 32, 32)
atcacert_public_key_remove_padding(key) == Slice(key, 4, 32) \o Slice(key, 40, 32)

atcacert_set_issue_date(def, r, tm) ==
  LET date == Dates!atcacert_date_enc(def.issue_date_format, tm, TRUE, 20)
  IN  IF r.status # "SUCCESS" \/ def.std["ISSUE_DATE"].count = 0 THEN r
      ELSE IF date.status # "SUCCESS" THEN Fail(r, date.status)
      ELSE SetStd(def, r, "ISSUE_DATE", date.value)
atcacert_set_expire_date(def, r, tm) ==
  LET date == Dates!atcacert_date_enc(def.expire_date_format, tm, TRUE, 20)
  IN  IF r.status # "SUCCESS" \/ def.std["EXPIRE_DATE"].count = 0 THEN r
      ELSE IF date.status # "SUCCESS" THEN Fail(r, date.status)
      ELSE SetStd(def, r, "EXPIRE_DATE", date.value)

DecodedDate(date, format) ==
  IF date.status # "SUCCESS" THEN date
  ELSE Dates!atcacert_date_dec(format, date.value)
atcacert_get_issue_date(def, cert) ==
  DecodedDate(GetStd(def, cert, "ISSUE_DATE", Dates!SizeOf(def.issue_date_format)),
              def.issue_date_format)
atcacert_get_expire_date(def, cert) ==
  DecodedDate(GetStd(def, cert, "EXPIRE_DATE", Dates!SizeOf(def.expire_date_format)),
              def.expire_date_format)

\* Two bytes as four capital digits, and back from digits of either case.
atcacert_set_signer_id(def, r, signer_id) ==
  SetStd(def, r, "SIGNER_ID",
         Text!atcab_bin2hex_(signer_id, 4, FALSE, FALSE, TRUE).value)
atcacert_get_signer_id(def, cert) ==
  LET hex == GetStd(def, cert, "SIGNER_ID", 4)
  IN  IF hex.status # "SUCCESS" THEN hex
      ELSE IF \E i \in 1..4 : ~Text!isHexDigit(hex.value[i])
        THEN Failure("DECODING_ERROR")
      ELSE Text!atcab_hex2bin_(hex.value, 2, FALSE)
-----------------------------------------------------------------------------
(* Signatures and the lengths around them.                                 *)

SigOffset(def, cert) ==
  def.std["SIGNATURE"].offset
    + get_effective_offset(def, cert, def.std["SIGNATURE"].offset)

\* The length of an element after before bytes changes by delta.
AdjustLength(r, before, delta) ==
  LET length == Der!atcacert_der_adjust_length(
                  SubSeq(r.cert, before + 1, Len(r.cert)), delta)
  IN  IF r.status # "SUCCESS" THEN r
      ELSE IF length.status # "SUCCESS" THEN Fail(r, length.status)
      ELSE [r EXCEPT !.cert = SubSeq(@, 1, before) \o length.value]

\* The certificate's own length, which must say where the certificate ends.
CertLength(r) == Der!atcacert_der_dec_length(Tail(r.cert))
AdjustCertLength(r, delta) ==
  LET s == AdjustLength(r, 1, delta)
  IN  IF s.status # "SUCCESS" THEN s
      ELSE IF 1 + CertLength(s).size + CertLength(s).length # Len(s.cert)
        THEN Fail(s, "BAD_CERT")
      ELSE s

\* The signature is the end of an X.509 certificate.
atcacert_set_signature(def, r, max_cert_size, signature) ==
  LET from == SigOffset(def, r.cert)
      der == Der!atcacert_der_enc_ecdsa_sig_value(signature, max_cert_size - from)
      cert == SubSeq(r.cert, 1, from) \o der.value
  IN  IF r.status # "SUCCESS" THEN r
      ELSE IF def.type # "X509" THEN SetStd(def, r, "SIGNATURE", signature)
      ELSE IF from >= Len(r.cert) THEN Fail(r, "ELEM_OUT_OF_BOUNDS")
      ELSE IF der.status # "SUCCESS" THEN Fail(r, der.status)
      ELSE AdjustCertLength([r EXCEPT !.cert = cert], Len(cert) - Len(r.cert))

atcacert_get_signature(def, cert) ==
  LET from == SigOffset(def, cert)
  IN  IF def.type # "X509" THEN GetStd(def, cert, "SIGNATURE", 64)
      ELSE IF from >= Len(cert) THEN Failure("ELEM_OUT_OF_BOUNDS")
      ELSE Der!atcacert_der_dec_ecdsa_sig_value(SubSeq(cert, from + 1, Len(cert)))

\* A serial number with its length in front.  The certificate's size changes by
\* what the length already in the certificate differs from the template's, not
\* by what the new one does; bytes after the end are unknown (0).
atcacert_set_cert_sn(def, r, max_cert_size, cert_sn) ==
  LET loc == def.std["CERT_SN"]
      delta == r.cert[loc.offset + 1] - def.cert_template[loc.offset + 1]
      end == loc.offset + loc.count
      moved == SubSeq(r.cert, 1, end)
                 \o Slice(r.cert \o Zeros(256), end + delta, Len(r.cert) - end + delta)
      whole == AdjustCertLength([r EXCEPT !.cert = moved], delta)
      sized == IF delta = 0 THEN r
               ELSE IF whole.status # "SUCCESS" THEN whole
               ELSE AdjustLength(whole, 1 + CertLength(whole).size + 1, delta)
      size == sized.cert[loc.offset + 1] + 1
  IN  IF r.status # "SUCCESS" THEN r
      ELSE IF ~Dynamic(def) THEN SetStd(def, r, "CERT_SN", cert_sn)
      ELSE IF delta # 0 /\ Len(r.cert) + delta > max_cert_size
        THEN Fail(r, "BUFFER_TOO_SMALL")
      ELSE IF sized.status # "SUCCESS" THEN sized
      ELSE IF size > Len(cert_sn) THEN Fail(sized, "BAD_PARAMS")
      ELSE SetStd(def, sized, "CERT_SN", SubSeq(cert_sn, 1, size))

atcacert_get_cert_sn(def, cert, room) ==
  IF room < def.std["CERT_SN"].count THEN Failure("BUFFER_TOO_SMALL")
  ELSE GetStd(def, cert, "CERT_SN", def.std["CERT_SN"].count)

\* A hash as a number that is positive, or that has no byte to trim as well.
Positive(sn) == [sn EXCEPT ![1] = @ % 128]
NoTrim(sn) == [sn EXCEPT ![1] = IF @ \div 64 = 0 THEN @ + 64 ELSE @]

\* A serial number that is made of the rest of the certificate.
atcacert_gen_cert_sn(def, r, device_sn) ==
  LET source == def.sn_source
      count == def.std["CERT_SN"].count
      ofKey == source \in {"PUB_KEY_HASH", "PUB_KEY_HASH_POS", "PUB_KEY_HASH_RAW"}
      key == IF ofKey THEN atcacert_get_subj_public_key(def, r.cert)
             ELSE Success(device_sn)
      issue == atcacert_get_issue_date(def, r.cert)
      dates == Dates!atcacert_date_enc_compcert(issue.value, def.expire_years)
      hash == SubSeq(Sha2_256(key.value \o dates.value), 1, count)
      id == atcacert_get_signer_id(def, r.cert)
  IN  IF \/ r.status # "SUCCESS" \/ count = 0
         \/ source \in {"STORED", "STORED_DYNAMIC"} THEN r
      ELSE IF UsesDeviceSn(def) /\ device_sn = <<>> THEN Fail(r, "BAD_PARAMS")
      ELSE IF source = "DEVICE_SN" THEN SetStd(def, r, "CERT_SN", <<64>> \o device_sn)
      ELSE IF source = "SIGNER_ID"
        THEN IF id.status # "SUCCESS" THEN Fail(r, id.status)
             ELSE SetStd(def, r, "CERT_SN", <<64>> \o id.value)
      ELSE IF count > 32 THEN Fail(r, "UNEXPECTED_ELEM_SIZE")
      ELSE IF key.status # "SUCCESS" THEN Fail(r, key.status)
      ELSE IF issue.status # "SUCCESS" THEN Fail(r, issue.status)
      ELSE IF dates.status # "SUCCESS" THEN Fail(r, dates.status)
      ELSE SetStd(def, r, "CERT_SN",
             CASE source \in {"PUB_KEY_HASH_RAW", "DEVICE_SN_HASH_RAW"} -> hash
               [] source \in {"PUB_KEY_HASH_POS", "DEVICE_SN_HASH_POS"} -> Positive(hash)
               [] OTHER -> NoTrim(Positive(hash)))

atcacert_get_tbs(def, cert) ==
  LET end == def.tbs_cert_loc.offset + def.tbs_cert_loc.count
      extra == get_effective_offset(def, cert, end)
  IN  IF end + extra > Len(cert) THEN Failure("BAD_CERT")
      ELSE Success(Slice(cert, def.tbs_cert_loc.offset, def.tbs_cert_loc.count + extra))

atcacert_max_cert_size(def) ==
  LET sn == def.cert_template[def.std["CERT_SN"].offset + 1]
  IN  IF def.type # "X509" THEN Success(Len(def.cert_template))
      ELSE IF ~Dynamic(def) THEN Success(def.std["SIGNATURE"].offset + 75)
      ELSE IF sn > 127 THEN Failure("BAD_CERT")
      ELSE Success(def.std["SIGNATURE"].offset + 75 + 128 - sn)
-----------------------------------------------------------------------------
(* Compressed certificates: the signature, the dates, the signer's ID and   *)
(* what identifies the definition.                                         *)

\* The four bits a serial number's source is given.
SourceBits(source) ==
  CASE source = "STORED" -> 0          [] source = "STORED_DYNAMIC" -> 7
    [] source = "DEVICE_SN" -> 8       [] source = "SIGNER_ID" -> 9
    [] source = "PUB_KEY_HASH" -> 10   [] source = "DEVICE_SN_HASH" -> 11
    [] source = "PUB_KEY_HASH_POS" -> 12 [] source = "DEVICE_SN_HASH_POS" -> 13
    [] source = "PUB_KEY_HASH_RAW" -> 14 [] source = "DEVICE_SN_HASH_RAW" -> 15

atcacert_set_comp_cert(def, r, max_cert_size, comp_cert) ==
  LET dates == Dates!atcacert_date_dec_compcert(Slice(comp_cert, 64, 3),
                                                def.expire_date_format)
      signed == atcacert_set_signature(def, r, max_cert_size, Slice(comp_cert, 0, 64))
      dated == atcacert_set_expire_date(def,
                 atcacert_set_issue_date(def, signed, dates.issue), dates.expire)
  IN  IF r.status # "SUCCESS" THEN r
      ELSE IF comp_cert[71] % 16 # 0 THEN Fail(r, "DECODING_ERROR")
      ELSE IF \/ comp_cert[70] # def.template_id * 16 + def.chain_id
              \/ comp_cert[71] \div 16 # SourceBits(def.sn_source)
        THEN Fail(r, "WRONG_CERT_DEF")
      ELSE atcacert_set_signer_id(def, dated, Slice(comp_cert, 67, 2))

\* A date or an ID that the certificate has not stands at its lowest.
OrElse(result, value) ==
  IF result.status = "ELEM_MISSING" THEN Success(value) ELSE result

atcacert_get_comp_cert(def, cert) ==
  LET signature == atcacert_get_signature(def, cert)
      issue == OrElse(atcacert_get_issue_date(def, cert),
                      Dates!Date(2000, 1, 1, 0, 0, 0))
      dates == Dates!atcacert_date_enc_compcert(issue.value, def.expire_years)
      id == OrElse(atcacert_get_signer_id(def, cert), <<0, 0>>)
  IN  IF signature.status # "SUCCESS" THEN signature
      ELSE IF issue.status # "SUCCESS" THEN issue
      ELSE IF dates.status # "SUCCESS" THEN dates
      ELSE IF id.status # "SUCCESS" THEN id
      ELSE Success(signature.value \o dates.value \o id.value
                     \o <<def.template_id * 16 + def.chain_id,
                          SourceBits(def.sn_source) * 16, 0>>)
-----------------------------------------------------------------------------
(* Rebuilding a certificate.                                               *)

\* TF_NONE copies the data and reports an error all the same.
atcacert_transform_data(transform, data, room) ==
  CASE transform = "NONE" ->
         Failure(IF room >= Len(data) THEN "INVALID_TRANSFORM" ELSE "SMALL_BUFFER")
    [] transform = "REVERSE" -> Text!atcab_reversal(data, room)
    [] transform \in {"BIN2HEX_UC", "BIN2HEX_LC"} ->
         Text!atcab_bin2hex_(data, room, FALSE, FALSE, transform = "BIN2HEX_UC")
    [] transform \in {"BIN2HEX_SPACE_UC", "BIN2HEX_SPACE_LC"} ->
         Text!atcab_bin2hex_(data, room, FALSE, TRUE, transform = "BIN2HEX_SPACE_UC")
    [] transform \in {"HEX2BIN_UC", "HEX2BIN_LC"} ->
         Text!atcab_hex2bin_(data, room, FALSE)
    [] transform \in {"HEX2BIN_SPACE_UC", "HEX2BIN_SPACE_LC"} ->
         Text!atcab_hex2bin_(data, room, TRUE)

\* Up to the first TF_NONE.  Without a transform the certificate's size is read.
Transformed(element, data) ==
  LET nones == {j \in DOMAIN element.transforms : element.transforms[j] = "NONE"}
      used == SubSeq(element.transforms, 1,
                     Min(nones \cup {Len(element.transforms) + 1}) - 1)
      Next(d, t) == IF d.status # "SUCCESS" THEN d
                    ELSE atcacert_transform_data(t, d.value, 256)
  IN  IF used = <<>> THEN Success(SubSeq(data, 1, element.cert_loc.count))
      ELSE FoldLeft(Next, Success(SubSeq(data, 1, element.device_loc.count)), used)

\* A build: an outcome with the device's serial number once it was seen.
atcacert_cert_build_start(def, room, ca_public_key) ==
  LET template == Outcome("SUCCESS", def.cert_template)
      signed == IF def.type # "X509" THEN template
                ELSE atcacert_set_signature(def, template, room, [i \in 1..64 |-> 255])
      outcome == IF room < Len(def.cert_template)
                   THEN Fail(template, "BUFFER_TOO_SMALL")
                 ELSE IF ca_public_key = <<>> THEN signed
                 ELSE atcacert_set_auth_key_id(def, signed, ca_public_key)
  IN  [status |-> outcome.status, cert |-> outcome.cert, device_sn |-> <<>>]

\* Each part is taken from the data if the data has all of it.
atcacert_cert_build_process(def, build, room, loc, data) ==
  LET Part(dest) == atcacert_is_device_loc_match(dest, loc, data)
      sn == Part(def.cert_sn_dev_loc)
      key == Part(def.public_key_dev_loc)
      comp == Part(def.comp_cert_dev_loc)
      deviceSn == Part(DeviceSnLoc)
      withSn == IF sn = <<>> THEN build ELSE atcacert_set_cert_sn(def, build, room, sn)
      withKey ==
        CASE key = <<>> \/ withSn.status # "SUCCESS" -> withSn
          [] withSn.status = "SUCCESS" /\ Len(key) = 72 ->
               atcacert_set_subj_public_key(def, withSn,
                 atcacert_public_key_remove_padding(key))
          [] withSn.status = "SUCCESS" /\ Len(key) = 64 ->
               atcacert_set_subj_public_key(def, withSn, key)
          [] OTHER -> Fail(withSn, "BAD_CERT")
      withComp == IF comp = <<>> \/ withKey.status # "SUCCESS" THEN withKey
                  ELSE IF Len(comp) # 72 THEN Fail(withKey, "BAD_CERT")
                  ELSE atcacert_set_comp_cert(def, withKey, room, comp)
      Add(r, element) ==
        LET part == Transformed(element, Slice(data, element.device_loc.offset - loc.offset,
                                               Len(data) - (element.device_loc.offset - loc.offset)))
        IN  IF r.status # "SUCCESS" \/ Part(element.device_loc) = <<>> THEN r
            ELSE IF part.status # "SUCCESS" THEN Fail(r, part.status)
            ELSE atcacert_set_cert_element(def, r, element.cert_loc, part.value)
      withAll == FoldLeft(Add, withComp, def.cert_elements)
  IN  IF withAll.status # "SUCCESS" \/ deviceSn = <<>> THEN withAll
      ELSE [withAll EXCEPT !.device_sn = Slice(deviceSn, 0, 4) \o Slice(deviceSn, 8, 5)]

atcacert_cert_build_finish(def, build) ==
  atcacert_gen_cert_sn(def, build, build.device_sn)

\* The parts of a location's data that the certificate has, over data.
atcacert_get_device_data(def, cert, loc, data) ==
  LET Over(r, part, src) ==
        IF r.status # "SUCCESS" \/ ~atcacert_is_device_loc_overlap(src, loc) THEN r
        ELSE IF part.status # "SUCCESS" THEN Fail(r, part.status)
        ELSE [r EXCEPT !.value = atcacert_copy_device_loc_data(src, part.value, loc, @)]
      rawKey == atcacert_get_subj_public_key(def, cert)
      size == def.public_key_dev_loc.count
      key == IF rawKey.status # "SUCCESS" \/ size = 64 THEN rawKey
             ELSE IF size = 72 THEN Success(atcacert_public_key_add_padding(rawKey.value))
             ELSE Failure("BAD_CERT")
      comp == IF def.comp_cert_dev_loc.count = 72 THEN atcacert_get_comp_cert(def, cert)
              ELSE Failure("BAD_CERT")
      parts == Over(Over(Over(Success(data),
                 atcacert_get_cert_sn(def, cert, 256), def.cert_sn_dev_loc),
                 key, def.public_key_dev_loc),
                 comp, def.comp_cert_dev_loc)
      Add(r, element) ==
        Over(r, IF element.device_loc.count > 256 THEN Failure("BUFFER_TOO_SMALL")
                ELSE atcacert_get_cert_element(def, element.cert_loc, cert,
                                               element.device_loc.count),
             element.device_loc)
  IN  FoldLeft(Add, parts, def.cert_elements)
-----------------------------------------------------------------------------
(* atcacert_client.c.  A device is its zones, its slots and the public keys *)
(* of its slots; its commands succeed.                                     *)

MaxLocs == 16
Block == 32

ZoneOf(device, loc) == IF loc.zone = "DATA" THEN device.slots[loc.slot]
                       ELSE device.zones[loc.zone]

\* What the buffer holds beyond the zone's end is left from an earlier call (0).
atcacert_read_device_loc(device, loc) ==
  LET key == device.keys[loc.slot]
      zone == ZoneOf(device, loc)
  IN  IF loc.zone = "DATA" /\ loc.is_genkey
        THEN IF End(loc) > 64 THEN Failure("BAD_PARAMS")
             ELSE Success(Slice(key, loc.offset, loc.count))
      ELSE IF loc.offset > Len(zone) THEN Failure("BAD_PARAMS")
      ELSE Success(Slice(zone \o Zeros(loc.count), loc.offset, loc.count))

atcacert_read_cert(def, ca_public_key, room, device) ==
  LET locs == atcacert_get_device_locs(def, MaxLocs, Block)
      Process(build, loc) ==
        LET data == atcacert_read_device_loc(device, loc)
        IN  IF build.status # "SUCCESS" THEN build
            ELSE IF data.status # "SUCCESS" THEN Fail(build, data.status)
            ELSE atcacert_cert_build_process(def, build, room, loc, data.value)
  IN  IF locs.status # "SUCCESS" THEN Outcome(locs.status, <<>>)
      ELSE atcacert_cert_build_finish(def,
             FoldLeft(Process, atcacert_cert_build_start(def, room, ca_public_key),
                      locs.locs))

\* The writes of whole blocks, up to the first error.
Writes(loc, data) ==
  LET start == loc.offset \div Block
      end == (End(loc) - 1) \div Block
  IN  [b \in 1..(end - start + 1) |->
         [zone |-> loc.zone, slot |-> loc.slot, block |-> start + b - 1,
          data |-> Slice(data \o Zeros(Block), (b - 1) * Block, Block)]]

atcacert_write_cert(def, cert) ==
  LET locs == atcacert_get_device_locs(def, MaxLocs, Block)
      Written(loc) == loc.zone # "CONFIG" /\ ~(loc.zone = "DATA" /\ loc.is_genkey)
      Write(r, loc) ==
        LET data == atcacert_get_device_data(def, cert, loc, Zeros(loc.count))
        IN  IF r.status # "SUCCESS" THEN r
            ELSE IF data.status # "SUCCESS" THEN Fail(r, data.status)
            ELSE [r EXCEPT !.writes = @ \o Writes(loc, data.value)]
  IN  IF locs.status # "SUCCESS" THEN [status |-> locs.status, writes |-> <<>>]
      ELSE FoldLeft(Write, [status |-> "SUCCESS", writes |-> <<>>],
                    SelectSeq(locs.locs, Written))

\* atcab_write_zone() for a block, external: what does not fit is not written.
Apply(device, write) ==
  LET from == write.block * Block
  IN  IF write.zone = "DATA"
      THEN [device EXCEPT !.slots[write.slot] = Put(@, from, write.data)]
      ELSE [device EXCEPT !.zones[write.zone] = Put(@, from, write.data)]

\* Signed over the template with the device's key in it.
atcacert_create_csr(def, room, device) ==
  LET loc == def.public_key_dev_loc
      key == IF loc.is_genkey THEN device.keys[loc.slot]
             ELSE atcacert_public_key_remove_padding(device.slots[loc.slot])
      keyed == SetStd(def, Outcome("SUCCESS", def.cert_template), "PUBLIC_KEY", key)
      tbs == atcacert_get_tbs(def, keyed.cert)
  IN  IF room < Len(def.cert_template) THEN Outcome("BUFFER_TOO_SMALL", <<>>)
      ELSE IF keyed.status # "SUCCESS" THEN keyed
      ELSE IF tbs.status # "SUCCESS" THEN Fail(keyed, tbs.status)
      ELSE atcacert_set_signature(def, keyed, room,
             Sign(def.private_key_slot, Sha2_256(tbs.value)))

\* atcacert_host_hw.c, atcacert_host_sw.c: a signature verifies if the owner of
\* the key made it.
atcacert_verify_cert(def, cert, slot) ==
  LET tbs == atcacert_get_tbs(def, cert)
      signature == atcacert_get_signature(def, cert)
  IN  IF tbs.status # "SUCCESS" THEN tbs
      ELSE IF signature.status # "SUCCESS" THEN signature
      ELSE IF signature.value # Sign(slot, Sha2_256(tbs.value))
        THEN Failure("VERIFY_FAILED")
      ELSE Success(cert)
=============================================================================
