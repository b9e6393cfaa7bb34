------------------------------ MODULE CertDer -------------------------------
(***************************************************************************)
(* atcacert_der.c as functions: lengths, integers and ECDSA signatures in   *)
(* DER.  Encodings and data are sequences of bytes.                        *)
(***************************************************************************)
EXTENDS Integers, Sequences, SequencesExt

CONSTANTS
  LengthSize,  \* sizeof(uint32_t), the bytes of a length
  Half         \* 32, the bytes of each half of a signature

Integer == 2     \* the tags
BitString == 3
Sequence == 48

Word == 256 ^ LengthSize

Failure(status) == [status |-> status]

\* What a function that may only be asked for the size does with its result.
\* Without a buffer room is -1.
Returned(bytes, room) ==
  IF room # -1 /\ room < Len(bytes)
    THEN [status |-> "BUFFER_TOO_SMALL", size |-> Len(bytes)]
  ELSE IF room = -1 THEN [status |-> "SUCCESS", size |-> Len(bytes)]
  ELSE [status |-> "SUCCESS", size |-> Len(bytes), value |-> bytes]
-----------------------------------------------------------------------------
(* Lengths: one byte up to 127, else the number of bytes and the bytes.     *)

BigEndian(num, size) == [i \in 1..size |-> (num \div 256 ^ (size - i)) % 256]
Unsigned(bytes) == FoldLeft(LAMBDA num, byte : 256 * num + byte, 0, bytes)

DerLength(length) ==
  LET exp == CHOOSE e \in 0..(LengthSize - 1) :
               /\ length \div 256 ^ e # 0
               /\ length \div 256 ^ (e + 1) = 0
  IN  IF length < 128 THEN <<length>>
      ELSE <<128 + exp + 1>> \o BigEndian(length, exp + 1)

atcacert_der_enc_length(length, room) == Returned(DerLength(length), room)

\* size is the number of bytes that the length takes, the smallest encoding or
\* not.
atcacert_der_dec_length(bytes) ==
  LET num_bytes == bytes[1] - 128
  IN  CASE bytes = <<>>              -> Failure("DECODING_ERROR")
        [] bytes # <<>> /\ bytes[1] < 128
             -> [status |-> "SUCCESS", size |-> 1, length |-> bytes[1]]
        [] bytes # <<>> /\ bytes[1] >= 128 ->
             IF num_bytes \in 1..LengthSize /\ Len(bytes) > num_bytes
             THEN [status |-> "SUCCESS", size |-> num_bytes + 1,
                   length |-> Unsigned(SubSeq(bytes, 2, num_bytes + 1))]
             ELSE Failure("DECODING_ERROR")

\* A length is changed in place, if its new encoding takes as many bytes.
atcacert_der_adjust_length(bytes, delta) ==
  LET old == atcacert_der_dec_length(bytes)
      new == DerLength((old.length + delta) % Word)
  IN  IF old.status # "SUCCESS" THEN old
      ELSE IF old.length + delta < 0 THEN Failure("ERROR")
      ELSE IF Len(new) # old.size THEN Failure("BAD_CERT")
      ELSE [status |-> "SUCCESS", size |-> old.size,
            length |-> (old.length + delta) % Word,
            value |-> new \o SubSeq(bytes, old.size + 1, Len(bytes))]
-----------------------------------------------------------------------------
(* Integers, in two's complement.                                          *)

\* Bytes at the front that repeat the sign; the last byte stays.
Trim(data) ==
  CHOOSE trim \in 0..(Len(data) - 1) :
    /\ \A i \in 1..trim : \/ data[i] = 0 /\ data[i + 1] < 128
                          \/ data[i] = 255 /\ data[i + 1] >= 128
    /\ trim < Len(data) - 1 =>
         ~(\/ data[trim + 1] = 0 /\ data[trim + 2] < 128
           \/ data[trim + 1] = 255 /\ data[trim + 2] >= 128)

\* An unsigned number whose first bit is set gets a zero in front of it.
DerInteger(data, is_unsigned) ==
  LET value == IF is_unsigned /\ data[1] >= 128 THEN <<0>> \o data
               ELSE SubSeq(data, Trim(data) + 1, Len(data))
  IN  <<Integer>> \o DerLength(Len(value)) \o value

atcacert_der_enc_integer(data, is_unsigned, room) ==
  IF data = <<>> THEN Failure("BAD_PARAMS")
  ELSE Returned(DerInteger(data, is_unsigned), room)

\* The sum of the sizes is taken modulo Word.
atcacert_der_dec_integer(bytes, room) ==
  LET length == atcacert_der_dec_length(Tail(bytes))
      size == (1 + length.size + length.length) % Word
  IN  IF bytes = <<>> THEN Failure("DECODING_ERROR")
      ELSE IF bytes[1] # Integer THEN Failure("DECODING_ERROR")
      ELSE IF length.status # "SUCCESS" THEN length
      ELSE IF Len(bytes) < size THEN Failure("DECODING_ERROR")
      ELSE IF room < length.length
        THEN [status |-> "BUFFER_TOO_SMALL", size |-> length.length]
      ELSE [status |-> "SUCCESS", size |-> size,
            value |-> SubSeq(bytes, length.size + 2, size)]
-----------------------------------------------------------------------------
(* Signatures: a bit string of a sequence of two integers.                 *)

DerSignature(raw_sig) ==
  LET numbers == DerInteger(SubSeq(raw_sig, 1, Half), TRUE)
                   \o DerInteger(SubSeq(raw_sig, Half + 1, 2 * Half), TRUE)
      size == 5 + Len(numbers)
  IN  <<BitString, (size - 2) % 256, 0, Sequence, (size - 5) % 256>> \o numbers

atcacert_der_enc_ecdsa_sig_value(raw_sig, room) ==
  Returned(DerSignature(raw_sig), room)

\* A number of up to Half bytes, padded to Half; one more must be a zero.
Fits(number) == Len(number) <= Half \/ number[1] = 0
Padded(number) ==
  IF Len(number) > Half THEN Tail(number)
  ELSE [i \in 1..(Half - Len(number)) |-> 0] \o number

\* From the i-th byte on.
From(bytes, i) == SubSeq(bytes, i, Len(bytes))

\* The tag and length of an element that starts after before bytes, and whose
\* contents must end where the bytes do or earlier.
Header(bytes, tag, before) ==
  LET length == atcacert_der_dec_length(Tail(bytes))
  IN  IF bytes = <<>> THEN Failure("DECODING_ERROR")
      ELSE IF bytes[1] # tag THEN Failure("DECODING_ERROR")
      ELSE IF length.status # "SUCCESS" THEN length
      ELSE IF (before + 1 + length.size + length.length) % Word
                > before + Len(bytes)
        THEN Failure("DECODING_ERROR")
      ELSE [status |-> "SUCCESS", length |-> length.length,
            rest |-> From(bytes, length.size + 2)]

atcacert_der_dec_ecdsa_sig_value(der_sig) ==
  LET bits == Header(der_sig, BitString, 0)
      seq == Header(Tail(bits.rest), Sequence, Len(der_sig) - Len(bits.rest) + 1)
      r == atcacert_der_dec_integer(seq.rest, Half + 1)
      s == atcacert_der_dec_integer(From(seq.rest, r.size + 1), Half + 1)
  IN  IF bits.status # "SUCCESS" THEN bits
      ELSE IF bits.rest = <<>> THEN Failure("DECODING_ERROR")
      ELSE IF bits.rest[1] # 0 THEN Failure("DECODING_ERROR")
      ELSE IF seq.status # "SUCCESS" THEN seq
      ELSE IF r.status # "SUCCESS" THEN r
      ELSE IF ~Fits(r.value) THEN Failure("DECODING_ERROR")
      ELSE IF s.status # "SUCCESS" THEN s
      ELSE IF \/ ~Fits(s.value)
              \/ seq.length # r.size + s.size
              \/ bits.length # r.size + s.size + 3
        THEN Failure("DECODING_ERROR")
      ELSE [status |-> "SUCCESS",
            size |-> Len(der_sig) - Len(seq.rest) + r.size + s.size,
            value |-> Padded(r.value) \o Padded(s.value)]
=============================================================================
