----------------------------- MODULE CertDates ------------------------------
(***************************************************************************)
(* atcacert_date.c as functions: the date formats of certificates and of    *)
(* compressed certificates.                                                *)
(*                                                                         *)
(* A date is a record with the offsets of C's struct tm: years since 1900,  *)
(* months from 0.  A formatted date is a sequence of bytes.                 *)
(***************************************************************************)
EXTENDS Integers, Sequences, SequencesExt

Formats == {"ISO8601_SEP", "RFC5280_UTC", "POSIX_UINT32_BE", "POSIX_UINT32_LE",
            "RFC5280_GEN"}
Texts == {"ISO8601_SEP", "RFC5280_UTC", "RFC5280_GEN"}

\* ATCACERT_DATE_FORMAT_SIZES
SizeOf(format) == CASE format = "ISO8601_SEP" -> 20
                    [] format = "RFC5280_UTC" -> 13
                    [] format = "RFC5280_GEN" -> 15
                    [] OTHER                  -> 4

Date(year, month, mday, hour, min, sec) ==
  [tm_year |-> year - 1900, tm_mon |-> month - 1, tm_mday |-> mday,
   tm_hour |-> hour, tm_min |-> min, tm_sec |-> sec]
Year(tm) == tm.tm_year + 1900

Success(value) == [status |-> "SUCCESS", value |-> value]
Failure(status) == [status |-> status]
-----------------------------------------------------------------------------
(* Numbers in a text.                                                      *)

uint_to_str(num, width) ==
  [i \in 1..width |-> 48 + ((num \div 10 ^ (width - i)) % 10)]

\* (The widths are 2 and 4: the checks for an overflow have nothing to do.)
IsNumber(text) == \A i \in DOMAIN text : text[i] \in 48..57
str_to_int(text) == FoldLeft(LAMBDA num, char : 10 * num + char - 48, 0, text)

\* The mark after each of the six numbers, none where there are none.
Marks(format) == IF format = "ISO8601_SEP"
                 THEN <<<<45>>, <<45>>, <<84>>, <<58>>, <<58>>, <<90>>>>
                 ELSE <<<<>>, <<>>, <<>>, <<>>, <<>>, <<90>>>>
Width(format, field) ==
  IF field = 1 /\ format # "RFC5280_UTC" THEN 4 ELSE 2

\* The first byte of a number: those of the numbers and marks before it follow
\* each other.
Start(format, field) ==
  LET start[f \in 1..field] ==
        IF f = 1 THEN 1
        ELSE start[f - 1] + Width(format, f - 1) + Len(Marks(format)[f - 1])
  IN  start[field]
Number(format, date, field) ==
  SubSeq(date, Start(format, field),
         Start(format, field) + Width(format, field) - 1)
MarkAfter(format, date, field) ==
  LET next == Start(format, field) + Width(format, field)
  IN  SubSeq(date, next, next + Len(Marks(format)[field]) - 1)

\* The day need not exist in its month.
InRange(tm) == /\ tm.tm_mon \in 0..11
               /\ tm.tm_mday \in 1..31
               /\ tm.tm_hour \in 0..23
               /\ tm.tm_min \in 0..59
               /\ tm.tm_sec \in 0..59

enc_text(format, tm) ==
  LET years == IF format = "RFC5280_UTC" THEN 1950..2049 ELSE 0..9999
      numbers == <<IF format = "RFC5280_UTC" THEN Year(tm) % 100 ELSE Year(tm),
                   tm.tm_mon + 1, tm.tm_mday, tm.tm_hour, tm.tm_min, tm.tm_sec>>
  IN  IF Year(tm) \notin years \/ ~InRange(tm) THEN Failure("INVALID_DATE")
      ELSE Success(FlattenSeq(
             [f \in 1..6 |-> uint_to_str(numbers[f], Width(format, f))
                               \o Marks(format)[f]]))

\* What is read need not be a date: nothing is checked but digits and marks.
dec_text(format, date) ==
  LET num == [f \in 1..6 |-> str_to_int(Number(format, date, f))]
      year == IF format # "RFC5280_UTC" THEN num[1]
              ELSE num[1] + (IF num[1] < 50 THEN 2000 ELSE 1900)
  IN  IF \A f \in 1..6 : /\ IsNumber(Number(format, date, f))
                         /\ MarkAfter(format, date, f) = Marks(format)[f]
      THEN Success(Date(year, num[2], num[3], num[4], num[5], num[6]))
      ELSE Failure("DECODING_ERROR")

atcacert_date_enc_iso8601_sep(tm) == enc_text("ISO8601_SEP", tm)
atcacert_date_enc_rfc5280_utc(tm) == enc_text("RFC5280_UTC", tm)
atcacert_date_enc_rfc5280_gen(tm) == enc_text("RFC5280_GEN", tm)
atcacert_date_dec_iso8601_sep(date) == dec_text("ISO8601_SEP", date)
atcacert_date_dec_rfc5280_utc(date) == dec_text("RFC5280_UTC", date)
atcacert_date_dec_rfc5280_gen(date) == dec_text("RFC5280_GEN", date)
-----------------------------------------------------------------------------
(* POSIX time.  Seconds since 1970 are counted in days and the seconds of   *)
(* the last day, which fit in TLC's integers.                              *)

is_leap_year(year) ==
  year % 400 = 0 \/ (year % 4 = 0 /\ year % 100 # 0)
YearDays(year) == IF is_leap_year(year) THEN 366 ELSE 365
MonthDays(year, mon) ==
  CASE mon = 1 /\ is_leap_year(year) -> 29
    [] mon = 1                       -> 28
    [] mon \in {3, 5, 8, 10}         -> 30
    [] OTHER                         -> 31

\* The days before a year, and before a month of it.
DaysTo(year) ==
  LET days[y \in 1970..year] ==
        IF y = 1970 THEN 0 ELSE days[y - 1] + YearDays(y - 1)
  IN  days[year]
DaysToMonth(year, mon) ==
  LET days[m \in 0..mon] ==
        IF m = 0 THEN 0 ELSE days[m - 1] + MonthDays(year, m - 1)
  IN  days[mon]

\* Years and then months are taken off as long as they fit.
atcacert_gmtime32(time) ==
  LET year == CHOOSE y \in 1970..2106 : /\ DaysTo(y) <= time.days
                                        /\ time.days < DaysTo(y + 1)
      day == time.days - DaysTo(year)
      mon == CHOOSE m \in 0..11 : /\ DaysToMonth(year, m) <= day
                                  /\ day < DaysToMonth(year, m + 1)
  IN  Date(year, mon + 1, day - DaysToMonth(year, mon) + 1,
           time.secs \div 3600, (time.secs % 3600) \div 60, time.secs % 60)

atcacert_mkgmtime32(tm) ==
  [days |-> DaysTo(Year(tm)) + DaysToMonth(Year(tm), tm.tm_mon) + tm.tm_mday - 1,
   secs |-> tm.tm_hour * 3600 + tm.tm_min * 60 + tm.tm_sec]

\* The cascade of comparisons with 7 February 2106, 06:28:14.
PastEnd(tm) ==
  LET end == atcacert_mkgmtime32(Date(2106, 2, 7, 6, 28, 14))
      time == atcacert_mkgmtime32(tm)
  IN  \/ time.days > end.days
      \/ time.days = end.days /\ time.secs > end.secs

enc_posix_uint32(tm) ==
  IF Year(tm) \notin 1970..2106 \/ ~InRange(tm) THEN Failure("INVALID_DATE")
  ELSE IF PastEnd(tm) THEN Failure("INVALID_DATE")
  ELSE Success(atcacert_mkgmtime32(tm))

\* The four bytes of a time, and back.  A day is 2^16 + 20864 seconds and 675
\* times 2^7.
BigEndian(time) ==
  LET low == time.days * 20864 + time.secs
      high == time.days + low \div 65536
  IN  <<high \div 256, high % 256, (low \div 256) % 256, low % 256>>
TimeOf(bytes) ==
  LET units == bytes[1] * 131072 + bytes[2] * 512 + bytes[3] * 2
                 + bytes[4] \div 128
  IN  [days |-> units \div 675, secs |-> (units % 675) * 128 + (bytes[4] % 128)]

atcacert_date_enc_posix_uint32_be(tm) ==
  LET time == enc_posix_uint32(tm)
  IN  IF time.status # "SUCCESS" THEN time ELSE Success(BigEndian(time.value))
atcacert_date_enc_posix_uint32_le(tm) ==
  LET time == atcacert_date_enc_posix_uint32_be(tm)
  IN  IF time.status # "SUCCESS" THEN time ELSE Success(Reverse(time.value))

atcacert_date_dec_posix_uint32_be(date) == Success(atcacert_gmtime32(TimeOf(date)))
atcacert_date_dec_posix_uint32_le(date) ==
  atcacert_date_dec_posix_uint32_be(Reverse(date))
-----------------------------------------------------------------------------
(* The formats together.                                                   *)

\* The size is checked first; without a buffer it is all that is asked for.
atcacert_date_enc(format, tm, hasBuffer, size) ==
  IF hasBuffer /\ size < SizeOf(format)
    THEN [status |-> "BUFFER_TOO_SMALL", size |-> SizeOf(format)]
  ELSE IF ~hasBuffer THEN [status |-> "SUCCESS", size |-> SizeOf(format)]
  ELSE CASE format = "ISO8601_SEP"     -> atcacert_date_enc_iso8601_sep(tm)
         [] format = "RFC5280_UTC"     -> atcacert_date_enc_rfc5280_utc(tm)
         [] format = "POSIX_UINT32_BE" -> atcacert_date_enc_posix_uint32_be(tm)
         [] format = "POSIX_UINT32_LE" -> atcacert_date_enc_posix_uint32_le(tm)
         [] format = "RFC5280_GEN"     -> atcacert_date_enc_rfc5280_gen(tm)

atcacert_date_dec(format, date) ==
  IF Len(date) < SizeOf(format) THEN Failure("DECODING_ERROR")
  ELSE CASE format = "ISO8601_SEP"     -> atcacert_date_dec_iso8601_sep(date)
         [] format = "RFC5280_UTC"     -> atcacert_date_dec_rfc5280_utc(date)
         [] format = "POSIX_UINT32_BE" ->
              atcacert_date_dec_posix_uint32_be(SubSeq(date, 1, 4))
         [] format = "POSIX_UINT32_LE" ->
              atcacert_date_dec_posix_uint32_le(SubSeq(date, 1, 4))
         [] format = "RFC5280_GEN"     -> atcacert_date_dec_rfc5280_gen(date)

atcacert_date_get_max_date(format) ==
  CASE format = "RFC5280_UTC" -> Date(2049, 12, 31, 23, 59, 59)
    [] format \in Texts \ {"RFC5280_UTC"} -> Date(9999, 12, 31, 23, 59, 59)
    [] OTHER -> Date(2106, 2, 7, 6, 28, 15)
-----------------------------------------------------------------------------
(* Compressed certificates: 5 bits of the year, 4 of the month, 5 of the    *)
(* day, 5 of the hour, and 5 of the years to expiry.                       *)

atcacert_date_enc_compcert(tm, expire_years) ==
  LET mon == tm.tm_mon + 1
  IN  IF \/ Year(tm) \notin 2000..2031
         \/ tm.tm_mon \notin 0..11 \/ tm.tm_mday \notin 1..31
         \/ tm.tm_hour \notin 0..23 \/ expire_years > 31
      THEN Failure("INVALID_DATE")
      ELSE Success(<<(Year(tm) - 2000) * 8 + mon \div 2,
                     (mon % 2) * 128 + tm.tm_mday * 4 + tm.tm_hour \div 8,
                     (tm.tm_hour % 8) * 32 + expire_years>>)

\* No years to expiry stand for the last date of the format.
atcacert_date_dec_compcert(enc, format) ==
  LET issue == Date(2000 + enc[1] \div 8,
                    (enc[1] % 8) * 2 + enc[2] \div 128,
                    (enc[2] \div 4) % 32,
                    (enc[2] % 4) * 8 + enc[3] \div 32, 0, 0)
      years == enc[3] % 32
  IN  [issue |-> issue,
       expire |-> IF years = 0 THEN atcacert_date_get_max_date(format)
                  ELSE [issue EXCEPT !.tm_year = issue.tm_year + years]]
=============================================================================
