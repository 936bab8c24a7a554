----------------------------- MODULE MCExports -----------------------------
EXTENDS Exports

Substrings == {<<"a", "a">>, <<"ab", "a">>, <<"ab", "b">>, <<"ab", "ab">>}

Text(t) == [found |-> TRUE, text |-> t, tm |-> NoDate]
At(tm) == [found |-> TRUE, text |-> "date", tm |-> tm]
Day(y, m, d) == [year |-> y, month |-> m, day |-> d, hour |-> 0, minute |-> 0,
                 second |-> 0, fraction |-> <<>>]
Clock(tm, h, m, s, f) ==
  [tm EXCEPT !.hour = h, !.minute = m, !.second = s, !.fraction = f]

(* Two places in a message; a leap second, a date before 2000.             *)
Values == {Absent, Text("a"), Text("ab"),
           At(Clock(Day(2016, 12, 31), 23, 59, 59, <<2, 5>>)),
           At(Clock(Day(2016, 12, 31), 23, 59, 60, <<>>)),
           At(Day(1999, 12, 31))}
Mixed == [form : {"json"}, at : [{"/x", "/y"} -> Values]]
           \cup [form : {"garbage", "unterminated"}, at : {[p \in {"/x", "/y"} |-> Absent]}]

(* The ends of a month; and clock times and fractions around their limits. *)
Alone(tm) == [form |-> "json", at |-> [p \in {"/x"} |-> At(tm)]]
Month(y, m) == {Alone(Day(y, m, d)) : d \in {0, 1} \cup 27..32}
Clocks == {Alone(Clock(Day(2020, 2, 29), h, m, s, f)) :
             h \in {0, 23, 24}, m \in {0, 59, 60}, s \in {0, 59, 60, 61},
             f \in {<<>>, <<7>>, <<0, 0, 0, 0, 0, 1>>, <<1, 2, 3, 4, 5, 6, 7, 8>>}}

Name(y, m) == 12 * y + m - 1
Months(years) == {Name(y, m) : y \in years, m \in 1..12}
MixedDocs == 0
ClockDocs == 1

DocsOf(years) ==
  [d \in {MixedDocs, ClockDocs} \cup Months(years) |->
     IF d = MixedDocs THEN Mixed
     ELSE IF d = ClockDocs THEN Clocks
     ELSE Month(d \div 12, (d % 12) + 1)]

Needle(kind, jpointer, pqtype, act, filt, data) ==
  [kind |-> kind, jpointer |-> jpointer, pqtype |-> pqtype, action |-> act,
   filter |-> filt, data |-> data]
Bare(kind, jpointer) == Needle(kind, jpointer, Missing, Missing, Missing, Missing)

Elements ==
  {Bare("scalar", "/x"), Bare("array", "/y"), Bare("other", Missing), Bare("scalar", Missing),
   Needle("array", "/x", "timestamp", Missing, Missing, Missing),
   Needle("array", "/x", "integer", Missing, Missing, Missing),
   Needle("array", "/y", "timestamp", "discard_false", "exists", Missing),
   Needle("array", "/y", "text", "store_true", "match", "a"),
   Needle("array", "/y", "text", "discard_true", "substr", Missing),
   Needle("group", "/y", Missing, "discard_true", "substr", "a"),
   Needle("group", "/x", Missing, "discard_false", "match", "ab"),
   Needle("group", "/x", "timestamp", "store_meta", Missing, Missing),
   Needle("group", "/y", Missing, "store_meta", Missing, Missing),
   Needle("group", "/x", "text", "store_meta", "exists", "a")}

Lists == {<<>>} \cup [1..2 -> Elements]
Dated == <<Needle("array", "/x", "timestamp", Missing, Missing, Missing)>>

MixedSetups == [hook : BOOLEAN, jpointers : Lists, docs : {MixedDocs}, limit : {2}]
ClockSetups == [hook : BOOLEAN, jpointers : {Dated}, docs : {ClockDocs}, limit : {1}]
DaySetups(years) == [hook : {FALSE}, jpointers : {Dated}, docs : Months(years), limit : {1}]

(* Every month that 32 bits of seconds reach, and a few later years that   *)
(* are accepted, with the first one that is not.                           *)
Years == 1999..2136 \cup {2137, 2400, 4027, 4028}
AllSetups == MixedSetups \cup ClockSetups \cup DaySetups(Years)
AllDocs == DocsOf(Years)
=============================================================================
