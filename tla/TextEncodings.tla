--------------------------- MODULE TextEncodings ---------------------------
(***************************************************************************)
(* basic/atca_helpers.c, atcacert_pem.c and jwt/atca_jwt.c as functions:    *)
(* hexadecimal digits, Base64, PEM files and JSON web tokens.              *)
(*                                                                         *)
(* Texts and data are sequences of bytes; room is the size of the buffer a  *)
(* result is written to.                                                   *)
(***************************************************************************)
EXTENDS Integers, Sequences, SequencesExt, FiniteSetsExt

CONSTANTS
  Digest(_),   \* SHA-256 of a text, external: 32 bytes
  Sign(_, _)   \* a slot's signature of a digest, external: 64 bytes

Success(value) == [status |-> "SUCCESS", value |-> value]
Failure(status) == [status |-> status]

Digits == 48..57
Capitals == 65..90
Letters == 97..122
HexLetters == 65..70 \cup 97..102
Space == 32
CrLf == <<13, 10>>

isWhiteSpace(c) == c \in {10, 13, 9, Space}
isHexDigit(c) == c \in Digits \cup HexLetters
-----------------------------------------------------------------------------
(* Hexadecimal digits.                                                     *)

HexDigit(nibble, is_upper) ==
  CASE nibble < 10               -> 48 + nibble
    [] nibble >= 10 /\ is_upper  -> 55 + nibble
    [] nibble >= 10 /\ ~is_upper -> 87 + nibble

\* What is put in front of the i-th byte.
Separator(i, is_pretty, is_space) ==
  CASE i = 1                               -> <<>>
    [] i > 1 /\ is_pretty /\ i % 16 = 1    -> CrLf
    [] i > 1 /\ ~(is_pretty /\ i % 16 = 1) -> IF is_space THEN <<Space>> ELSE <<>>

atcab_bin2hex_(bin, room, is_pretty, is_space, is_upper) ==
  LET hex == FlattenSeq([i \in DOMAIN bin |->
               Separator(i, is_pretty, is_space)
                 \o <<HexDigit(bin[i] \div 16, is_upper),
                      HexDigit(bin[i] % 16, is_upper)>>])
  IN  IF Len(hex) > room THEN Failure("SMALL_BUFFER") ELSE Success(hex)

atcab_reversal(bin, room) ==
  IF room < Len(bin) THEN Failure("SMALL_BUFFER") ELSE Success(Reverse(bin))

HexValue(c) == CASE c \in Digits  -> c - 48
                 [] c \in 97..102 -> c - 87
                 [] c \in 65..70  -> c - 55

\* Whatever is no digit is skipped, but for what stands where a space should.
atcab_hex2bin_(hex, room, is_space) ==
  LET digits == SelectSeq(hex, isHexDigit)
      noSpace == {i \in DOMAIN hex : is_space /\ i % 3 = 0 /\ hex[i] # Space
                                              /\ ~isHexDigit(hex[i])}
      noRoom == {i \in DOMAIN hex :
                   /\ isHexDigit(hex[i])
                   /\ Len(SelectSeq(SubSeq(hex, 1, i), isHexDigit)) > 2 * room}
  IN  IF noSpace \cup noRoom # {}
        THEN Failure(IF Min(noSpace \cup noRoom) \in noSpace THEN "BAD_PARAM"
                     ELSE "SMALL_BUFFER")
      ELSE IF Len(digits) % 2 = 1 THEN Failure("BAD_PARAM")
      ELSE Success([i \in 1..(Len(digits) \div 2) |->
                      HexValue(digits[2 * i - 1]) * 16 + HexValue(digits[2 * i])])

\* Digits are copied while their number is not above packed_len: one more than
\* the buffer holds.
packHex(ascii_hex, packed_len) ==
  LET digits == SelectSeq(ascii_hex, isHexDigit)
  IN  SubSeq(digits, 1, Min({Len(digits), packed_len + 1}))
-----------------------------------------------------------------------------
(* Base64.  A set of rules names the characters 62 and 63, the one that pads *)
(* (0: none) and the length of a line (0: one line).                       *)

Rules(c62, c63, pad, line) == [c62 |-> c62, c63 |-> c63, pad |-> pad, line |-> line]
atcab_b64rules_default == Rules(43, 47, 61, 64)
atcab_b64rules_mime == Rules(43, 47, 61, 76)
atcab_b64rules_urlsafe == Rules(45, 95, 0, 0)

B64_IS_EQUAL == 64

isBase64Digit(c, rules) ==
  c \in Digits \cup Capitals \cup Letters \cup {rules.c62, rules.c63, rules.pad}

base64Index(c, rules) ==
  CASE c \in Capitals -> c - 65
    [] c \in Letters  -> 26 + c - 97
    [] c \in Digits   -> 52 + c - 48
    [] c = rules.c62  -> 62
    [] c = rules.c63  -> 63
    [] c = rules.pad  -> B64_IS_EQUAL

base64Char(id, rules) ==
  CASE id \in 0..25  -> 65 + id
    [] id \in 26..51 -> 97 + id - 26
    [] id \in 52..61 -> 48 + id - 52
    [] id = 62       -> rules.c62
    [] id = 63       -> rules.c63
    [] id = B64_IS_EQUAL -> rules.pad

\* The four indices of one to three bytes.
Indices(bytes) ==
  LET b == bytes \o <<0, 0>>
      ids == <<b[1] \div 4, (b[1] % 4) * 16 + b[2] \div 16,
               (b[2] % 16) * 4 + b[3] \div 64, b[3] % 64>>
  IN  [i \in 1..4 |-> IF i > Len(bytes) + 1 THEN B64_IS_EQUAL ELSE ids[i]]

\* The g-th three bytes of data, with the end of the line before them.
EncodedGroup(data, g, rules) ==
  LET bytes == SubSeq(data, 3 * g - 2, Min({3 * g, Len(data)}))
      ids == Indices(bytes)
      newLine == rules.line # 0 /\ g > 1 /\ (4 * (g - 1)) % rules.line = 0
  IN  (IF newLine THEN CrLf ELSE <<>>)
        \o [i \in 1..4 |-> base64Char(ids[i], rules)]

\* The room asked for: the text, ends of lines and a final 0.
EncodedRoom(size, rules) ==
  LET chars == ((size + 2) \div 3) * 4
  IN  chars + 1 + (IF rules.line = 0 THEN 0 ELSE (chars \div rules.line) * 2)

Encoded(data, rules) ==
  LET text == FlattenSeq([g \in 1..((Len(data) + 2) \div 3) |->
                            EncodedGroup(data, g, rules)])
  IN  SelectSeq(text, LAMBDA c : c # 0)

atcab_base64encode_(data, room, rules) ==
  IF rules.line % 4 # 0 THEN Failure("BAD_PARAM")
  ELSE IF room < EncodedRoom(Len(data), rules) THEN Failure("SMALL_BUFFER")
  ELSE Success(Encoded(data, rules))

\* One to three bytes of four indices.
atcab_base64decode_block(id) ==
  LET bytes == <<id[1] * 4 + id[2] \div 16,
                 (id[2] % 16) * 16 + id[3] \div 4,
                 (id[3] % 4) * 64 + id[4]>>
  IN  SubSeq(bytes, 1, IF id[3] = B64_IS_EQUAL THEN 1
                       ELSE IF id[4] = B64_IS_EQUAL THEN 2 ELSE 3)

\* A last group of two or three characters is filled up; nothing follows a
\* group that is padded.
atcab_base64decode_(encoded, room, rules) ==
  LET text == SelectSeq(encoded, LAMBDA c : ~isWhiteSpace(c))
      groups == (Len(text) + 3) \div 4
      Id(g, i) == IF 4 * (g - 1) + i > Len(text) THEN B64_IS_EQUAL
                  ELSE base64Index(text[4 * (g - 1) + i], rules)
      blocks == [g \in 1..groups |-> [i \in 1..4 |-> Id(g, i)]]
      Padding(b) == /\ b[1] # B64_IS_EQUAL /\ b[2] # B64_IS_EQUAL
                    /\ b[3] = B64_IS_EQUAL => b[4] = B64_IS_EQUAL
      bytes == FlattenSeq([g \in 1..groups |-> atcab_base64decode_block(blocks[g])])
  IN  IF \A i \in DOMAIN text : isBase64Digit(text[i], rules)
      THEN IF /\ Len(text) % 4 # 1
              /\ \A g \in 1..groups : /\ Padding(blocks[g])
                                      /\ blocks[g][4] = B64_IS_EQUAL => g = groups
              /\ Len(bytes) <= room
           THEN Success(bytes) ELSE Failure("BAD_PARAM")
      ELSE Failure("BAD_PARAM")
-----------------------------------------------------------------------------
(* PEM: Base64 between a header and a footer.                              *)

atcacert_encode_pem(der, room, header, footer) ==
  LET before == Len(header) + 2
      body == atcab_base64encode_(der, room - before, atcab_b64rules_default)
      size == before + Len(body.value) + 2 + Len(footer) + 2
  IN  IF before > room THEN Failure("BUFFER_TOO_SMALL")
      ELSE IF body.status = "SMALL_BUFFER" THEN Failure("BUFFER_TOO_SMALL")
      ELSE IF size + 1 > room THEN Failure("BUFFER_TOO_SMALL")
      ELSE Success(header \o CrLf \o body.value \o CrLf \o footer \o CrLf)

\* strstr(): the places where a text is found in another one.
Places(text, part) ==
  {i \in 1..(Len(text) - Len(part) + 1) :
     SubSeq(text, i, i + Len(part) - 1) = part}

\* A room that is too small is no SMALL_BUFFER to atcab_base64decode().
atcacert_decode_pem(pem, room, header, footer) ==
  LET data == Min(Places(pem, header)) + Len(header)
      end == Min(Places(pem, footer))
  IN  IF Places(pem, header) = {} \/ Places(pem, footer) = {}
        THEN Failure("DECODING_ERROR")
      ELSE IF end < data THEN Failure("DECODING_ERROR")
      ELSE atcab_base64decode_(SubSeq(pem, data, end - 1), room,
                               atcab_b64rules_default)

\* Base64 within a buffer, from the size bytes after from to what follows to:
\* each group is read from the buffer as the groups before it have left it.
EncodedInPlace(buffer, from, size, to, rules) ==
  LET Put(b, at, text) ==
        [i \in DOMAIN b |-> IF i \in (at + 1)..(at + Len(text)) THEN text[i - at]
                            ELSE b[i]]
      Step(s, g) ==
        LET data == SubSeq(s.buffer, from + 1, from + size)
            text == EncodedGroup(data, g, rules)
        IN  [buffer |-> Put(s.buffer, s.at, text), at |-> s.at + Len(text)]
      end == FoldLeft(Step, [buffer |-> buffer, at |-> to],
                      [g \in 1..((size + 2) \div 3) |-> g])
  IN  SelectSeq(SubSeq(end.buffer, to + 1, end.at), LAMBDA c : c # 0)

\* atcacert_create_csr_pem(): the request is moved to the end of the buffer and
\* encoded towards its start.
CsrPemBody(der, room, header) ==
  EncodedInPlace([i \in 1..(room - Len(der)) |-> 0] \o der, room - Len(der),
                 Len(der), Len(header) + 2, atcab_b64rules_default)
-----------------------------------------------------------------------------
(* JSON web tokens: a context is the text so far, and the buffer's length.  *)

Dot == 46
Open == 123
Close == 125
Comma == 44
SignatureSize == 64

\* {"alg":"ES256","typ":"JWT"}: only its 27 bytes matter here.
g_jwt_header == [i \in 1..27 |-> 100 + (i % 20)]

atca_jwt_init(buflen) ==
  LET header == atcab_base64encode_(g_jwt_header, buflen, atcab_b64rules_urlsafe)
  IN  IF buflen = 0 THEN Failure("BAD_PARAM")
      ELSE IF header.status # "SUCCESS" THEN header
      ELSE IF Len(header.value) >= buflen - 1 THEN Failure("INVALID_SIZE")
      ELSE Success([buf |-> Append(header.value, Dot), buflen |-> buflen])

\* After a dot the claims open; after anything but that a comma is due.
atca_jwt_check_payload_start(jwt) ==
  LET last == jwt.buf[Len(jwt.buf)]
  IN  IF jwt.buf = <<>> \/ Len(jwt.buf) >= jwt.buflen - 1 THEN jwt
      ELSE IF last = Dot THEN [jwt EXCEPT !.buf = Append(@, Open)]
      ELSE IF last # Open THEN [jwt EXCEPT !.buf = Append(@, Comma)]
      ELSE jwt

\* A claim is its text.  What was put in front of it stays when it does not fit.
atca_jwt_add_claim(jwt, claim) ==
  LET started == atca_jwt_check_payload_start(jwt)
  IN  IF Len(claim) \in 1..(jwt.buflen - Len(started.buf) - 1)
      THEN [status |-> "SUCCESS", jwt |-> [started EXCEPT !.buf = @ \o claim]]
      ELSE [status |-> "GEN_FAIL", jwt |-> started]

\* The room is checked three times: for the estimate, for the separator and the
\* signature, and for what was written.
atca_jwt_finalize(jwt, key_id) ==
  LET closed == IF jwt.buf[Len(jwt.buf)] = Close THEN jwt.buf
                ELSE Append(jwt.buf, Close)
      cur == Len(closed)
      start == Min({i \in 1..cur : closed[i] = Dot} \cup {cur})
      size == cur - start
      estimate == ((size + SignatureSize) * 4) \div 3 + 3
      moved == [i \in 1..jwt.buflen |->
                  IF i \in (jwt.buflen - cur + 1)..(jwt.buflen - cur + size)
                    THEN closed[start + i - (jwt.buflen - cur)]
                  ELSE IF i <= cur THEN closed[i] ELSE 0]
      message == SubSeq(closed, 1, start)
                   \o EncodedInPlace(moved, jwt.buflen - cur, size, start,
                                     atcab_b64rules_urlsafe)
      sig == atcab_base64encode_(Sign(key_id, Digest(message)),
                                 jwt.buflen - Len(message) - 1,
                                 atcab_b64rules_urlsafe)
  IN  IF jwt.buf = <<>> THEN Failure("BAD_PARAM")
      ELSE IF estimate > jwt.buflen - cur THEN Failure("INVALID_SIZE")
      ELSE IF jwt.buflen < EncodedRoom(size, atcab_b64rules_urlsafe)
        THEN Failure("SMALL_BUFFER")
      ELSE IF Len(message) >= jwt.buflen - 88 THEN Failure("INVALID_SIZE")
      ELSE IF sig.status # "SUCCESS" THEN Failure("INVALID_SIZE")
      ELSE Success(Append(message, Dot) \o sig.value)

\* Both dots must be there: the check of what strchr() returns comes after 1
\* was added.  What verifies is what the slot of the key signs.
atca_jwt_verify(buf, key_id) ==
  LET dots == {i \in DOMAIN buf : buf[i] = Dot}
      second == Min(dots \ {Min(dots)})
      signature == atcab_base64decode_(SubSeq(buf, second + 1, Len(buf)), SignatureSize,
                                       atcab_b64rules_urlsafe)
  IN  IF signature.status # "SUCCESS" THEN signature
      ELSE IF signature.value = Sign(key_id, Digest(SubSeq(buf, 1, second - 1)))
      THEN Success(buf) ELSE Failure("CHECKMAC_VERIFY_FAILED")
=============================================================================
