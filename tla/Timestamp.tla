----------------------------- MODULE Timestamp -----------------------------
(***************************************************************************)
(* _json_to_pqtimestamp of exports.c and hooks/jsonexport.c: a date such   *)
(* as 2019-11-05T11:31:34.25Z as microseconds since 2000-01-01, the way    *)
(* postgres stores it.  A date is a record of its numbers; fraction is the *)
(* sequence of digits after the decimal point.                             *)
(*                                                                         *)
(* All fields of struct tm but micro are uint32_t, and so is the sum of    *)
(* seconds.  2^32 is more than TLC can count to, so a number of seconds is *)
(* a pair <<u, v>> that stands for 128 * u + v: 86400 is 128 * 675 and     *)
(* 2^32 is 128 * 2^25.                                                     *)
(***************************************************************************)
EXTENDS Integers, Sequences, FiniteSets, FiniteSetsExt, SequencesExt

Seconds(days, secs) == <<675 * days + (secs \div 128), secs % 128>>
uint32(s) == <<s[1] % 2^25, s[2]>>

leap(year) == (year % 4 = 0 /\ year % 100 # 0) \/ year % 400 = 0

(* The table of leap days accumulated before each year.                    *)
leapyears == [year \in 0..2047 |-> Cardinality({i \in 0..(year - 1) : leap(i)})]

(* The range checks.  The hook takes leap seconds, the exports producer    *)
(* does not; a day is checked against its month only in February.          *)
in_range(tm, maxsecond) ==
  /\ tm.year \in 2000..4027
  /\ tm.month \in 1..12 /\ tm.day \in 0..31
  /\ tm.hour \in 0..23 /\ tm.minute \in 0..59 /\ tm.second \in 0..maxsecond
  /\ tm.month = 2 => tm.day <= 29

yday_no_swap(year, month, day) ==
  day + MapThenSumSet(LAMBDA i : IF i = 2 THEN IF leap(year) THEN 29 ELSE 28
                                 ELSE 30 + (i % 2),
                      1..(month - 1))

(* The day of the year: the loop over the months before this one.          *)
yday(year, month, day) ==
  day + MapThenSumSet(LAMBDA i : CASE i = 2 -> IF leap(year) THEN 29 ELSE 28
                                   [] i # 2 /\ i < 8 -> 30 + (i % 2)
                                   [] i >= 8 -> 30 + ((i + 1) % 2),
                      1..(month - 1))

(* Six digits after the point, padded with zeros; the others are cut off.  *)
micro(fraction) ==
  MapThenSumSet(LAMBDA i : (IF i <= Len(fraction) THEN fraction[i] ELSE 0) * 10^(6 - i), 1..6)

epoch(tm) ==
  LET year == tm.year - 2000 IN
  [seconds |-> uint32(Seconds((yday(year, tm.month, tm.day) - 1) + leapyears[year] + 365 * year,
                              tm.second + 60 * tm.minute + 3600 * tm.hour)),
   micro |-> micro(tm.fraction)]
-----------------------------------------------------------------------------
(***************************************************************************)
(* The reference: days since 2000-01-01 in the Gregorian calendar, counted *)
(* in years that begin in March, and the fraction as one number.           *)
(***************************************************************************)
DaysFromCivil(year, month, day) ==
  LET y == IF month <= 2 THEN year - 1 ELSE year
      m == IF month <= 2 THEN month + 9 ELSE month - 3
  IN 365 * y + (y \div 4) - (y \div 100) + (y \div 400)
       + ((153 * m + 2) \div 5) + day - 1 - 730425

DaysIn(year, month) ==
  CASE month = 2 -> IF leap(year) THEN 29 ELSE 28
    [] month \in {4, 6, 9, 11} -> 30
    [] OTHER -> 31

IsDate(tm) == tm.day \in 1..DaysIn(tm.year, tm.month)

Number(digits) == FoldLeft(LAMBDA n, digit : 10 * n + digit, 0, digits)

Exact(tm) ==
  [seconds |-> Seconds(DaysFromCivil(tm.year, tm.month, tm.day),
                       tm.second + 60 * tm.minute + 3600 * tm.hour),
   micro |-> IF Len(tm.fraction) <= 6
             THEN Number(tm.fraction) * 10^(6 - Len(tm.fraction))
             ELSE Number(tm.fraction) \div 10^(Len(tm.fraction) - 6)]
=============================================================================
