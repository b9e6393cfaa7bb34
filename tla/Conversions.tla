---------------------------- MODULE Conversions -----------------------------
(***************************************************************************)
(* conversions.c as functions.                                             *)
(*                                                                         *)
(* A memory is a sequence of bytes whose first one has address 0.           *)
(* Characters are their ASCII codes.  The handlers convert in place: source *)
(* and target share a memory, so that the order in which the loops read and *)
(* write matters.                                                          *)
(***************************************************************************)
EXTENDS Naturals, Sequences

Digits   == 48..57    \* '0' to '9'
UpperHex == 65..70    \* 'A' to 'F'
LowerHex == 97..102   \* 'a' to 'f'

hex2nibble(hex) ==
  CASE hex \in Digits   -> hex - 48
    [] hex \in UpperHex -> hex - 55
    [] hex \in LowerHex -> hex - 87
    [] OTHER            -> 0

nibble2hex(nibble) ==
  LET low == nibble % 16
  IN  IF low <= 9 THEN low + 48 ELSE low + 55

\* What convert_hex2bin() returns: an odd length is rounded up.
BinLength(length) == IF length < 2 THEN 0 ELSE length \div 2 + (length % 2)

\* The memory once the text at its start is converted in place.  The last byte
\* of an odd length takes its low nibble from the character after the text.
convert_hex2bin(length, memory) ==
  LET after[i \in 0..BinLength(length)] ==
        IF i = 0 THEN memory
        ELSE [after[i - 1] EXCEPT
                ![i] = 16 * hex2nibble(after[i - 1][2 * i - 1])
                         + hex2nibble(after[i - 1][2 * i])]
  IN  after[BinLength(length)]

\* The memory once the length bytes at address from are text at its start.  A
\* byte is read for each of its digits, for the second one after the first has
\* been stored.
FirstDigit(memory, from, i) ==
  [memory EXCEPT ![2 * i - 1] = nibble2hex(memory[from + i] \div 16)]
SecondDigit(memory, from, i) ==
  [memory EXCEPT ![2 * i] = nibble2hex(memory[from + i])]
convert_bin2hex(length, from, memory) ==
  LET after[i \in 0..length] ==
        IF i = 0 THEN memory
        ELSE SecondDigit(FirstDigit(after[i - 1], from, i), from, i)
  IN  after[length]

\* The four digits of a 16-bit number, the highest first.
convert_itohex(num) ==
  [i \in 1..4 |-> nibble2hex(num \div 16 ^ (4 - i))]
-----------------------------------------------------------------------------
(* What the conversions are for, without a memory that changes.            *)

Encoded(bytes) ==
  [i \in 1..(2 * Len(bytes)) |->
     nibble2hex(IF i % 2 = 1 THEN bytes[(i + 1) \div 2] \div 16
                             ELSE bytes[i \div 2])]

Decoded(text) ==
  [i \in 1..(Len(text) \div 2) |->
     16 * hex2nibble(text[2 * i - 1]) + hex2nibble(text[2 * i])]
=============================================================================
