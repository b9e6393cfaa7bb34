----------------------------- MODULE ArgParser ------------------------------
(***************************************************************************)
(* mc_argparser.c as functions: the numeric arguments of commands.         *)
(*                                                                         *)
(* A text is a sequence of ASCII codes without the terminating zero.        *)
(***************************************************************************)
EXTENDS Naturals, Sequences

CONSTANTS
  Word16,  \* 2^16
  Word32   \* 2^32, which is one more than ULONG_MAX too

White == 9..13 \cup {32}
Plus  == 43
Minus == 45

DigitValue(char) ==
  CASE char \in 48..57  -> char - 48
    [] char \in 65..90  -> char - 55
    [] char \in 97..122 -> char - 87
    [] OTHER            -> 36

\* The first position from i on whose character is not in chars.
After(text, i, chars) ==
  CHOOSE n \in i..(Len(text) + 1) :
    /\ \A k \in i..(n - 1) : text[k] \in chars
    /\ n <= Len(text) => text[n] \notin chars

InBase(base) == {char \in 0..127 : DigitValue(char) < base}

\* The number that text[i..n-1] denotes; it stops growing at Word32.
Magnitude(text, i, n, base) ==
  LET value[k \in i..n] ==
        IF k = i THEN 0
        ELSE LET v == value[k - 1] * base + DigitValue(text[k - 1])
             IN  IF v >= Word32 THEN Word32 ELSE v
  IN  value[n]

\* strtoul() of the C library with base 0: blanks, a sign, and the longest
\* numeral that is hexadecimal after 0x, octal after 0 and else decimal.  The
\* value saturates, or is negated modulo Word32.  end is where it stopped.
strtoul(text) ==
  LET first == After(text, 1, White)
      signed == first <= Len(text) /\ text[first] \in {Plus, Minus}
      start == IF signed THEN first + 1 ELSE first
      At(i, chars) == i <= Len(text) /\ text[i] \in chars
      isHex == /\ At(start, {48}) /\ At(start + 1, {88, 120})
               /\ At(start + 2, InBase(16))
      base == IF isHex THEN 16 ELSE IF At(start, {48}) THEN 8 ELSE 10
      digits == IF isHex THEN start + 2 ELSE start
      end == After(text, digits, InBase(base))
      value == Magnitude(text, digits, end, base)
  IN  [value |-> IF end > digits /\ value = Word32 THEN Word32 - 1
                 ELSE IF At(first, {Minus}) THEN (Word32 - value) % Word32
                 ELSE value,
       end |-> IF end = digits THEN 1 ELSE end]

parse_arg_ulong(text) ==
  LET parsed == strtoul(text)
  IN  [ok |-> text # <<>> /\ parsed.end = Len(text) + 1, value |-> parsed.value]

\* A number in range, or none.
parse_arg_uint16(text) ==
  LET arg == parse_arg_ulong(text)
  IN  [arg EXCEPT !.ok = arg.ok /\ arg.value < Word16]

\* argvalue <= UINT32_MAX always holds where unsigned long has 32 bits.
parse_arg_uint32(text) ==
  LET arg == parse_arg_ulong(text)
  IN  [arg EXCEPT !.ok = arg.ok /\ arg.value < Word32]
-----------------------------------------------------------------------------
(* The numerals of a number, for comparison.                               *)

Numeral(value, base) ==
  LET Digit(d) == IF d < 10 THEN d + 48 ELSE d + 55
      text[v \in 0..value] ==
        IF v < base THEN <<Digit(v)>>
        ELSE Append(text[v \div base], Digit(v % base))
  IN  text[value]

Decimal(value) == Numeral(value, 10)
Octal(value) == <<48>> \o Numeral(value, 8)
Hexadecimal(value) == <<48, 88>> \o Numeral(value, 16)
=============================================================================
