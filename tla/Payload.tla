------------------------------ MODULE Payload ------------------------------
(***************************************************************************)
(* What becomes of the bytes of a message on their way into a text COPY:   *)
(* postgres_producer_produce repairs the escape \u0000, replaces what is   *)
(* not UTF-8, quotes the result as an SQL literal and sends it without its *)
(* quotes.  The last two definitions of the first part are libpq and the   *)
(* server as far as the producer relies on them.                           *)
(***************************************************************************)
EXTENDS Integers, Sequences, SequencesExt

NUL == 0
TAB == 9
NEWLINE == 10
RETURN == 13
SPACE == 32
QUOTE == 39
QUESTION == 63
LETTER_E == 69
BACKSLASH == 92
NULL_ESCAPE == <<BACKSLASH, 117, 48, 48, 48, 48>>  \* \u0000

IsAt(t, s, i) == SubSeq(s, i, i + Len(t) - 1) = t

(* In place, from left to right; strstr sees nothing behind a NUL.         *)
repair_null_escape(s) ==
  LET rest[i \in 1..Len(s)+1] ==
        IF i > Len(s) THEN <<>>
        ELSE IF s[i] = NUL THEN SubSeq(s, i, Len(s))
        ELSE IF i + 5 <= Len(s) /\ IsAt(NULL_ESCAPE, s, i)
             THEN [j \in 1..6 |-> QUESTION] \o rest[i+6]
        ELSE <<s[i]>> \o rest[i+1]
  IN rest[1]

seqlen(c0) ==
  CASE c0 \in 192..223 -> 2
    [] c0 \in 224..239 -> 3
    [] c0 \in 240..247 -> 4
    [] OTHER -> 0
continuation(c) == c \in 128..191

valid_no_surrogates(s, i) ==
  LET n == seqlen(s[i]) IN
  /\ n >= 2 /\ i + n - 1 <= Len(s)
  /\ \A j \in i+1..i+n-1 : continuation(s[j])
  /\ n = 2 => s[i] >= 194
  /\ n = 3 => ~(s[i] = 224 /\ s[i+1] < 160)
  /\ n = 4 => s[i] <= 244 /\ ~(s[i] = 240 /\ s[i+1] < 144) /\ ~(s[i] = 244 /\ s[i+1] > 143)

(* The sequence of two to four bytes at i is complete, made of             *)
(* continuation bytes, not overlong, no surrogate and not beyond U+10FFFF. *)
valid(s, i) ==
  LET n == seqlen(s[i]) IN
  /\ n >= 2 /\ i + n - 1 <= Len(s)
  /\ \A j \in i+1..i+n-1 : continuation(s[j])
  /\ n = 2 => s[i] >= 194
  /\ n = 3 => ~(s[i] = 224 /\ s[i+1] < 160) /\ ~(s[i] = 237 /\ s[i+1] > 159)
  /\ n = 4 => s[i] <= 244 /\ ~(s[i] = 240 /\ s[i+1] < 144) /\ ~(s[i] = 244 /\ s[i+1] > 143)

(* The buffer that is left; -1 is returned if there is a NUL anywhere.     *)
sanitize_utf8(s) ==
  LET rest[i \in 1..Len(s)+1] ==
        IF i > Len(s) THEN <<>>
        ELSE IF s[i] < 128 THEN <<s[i]>> \o rest[i+1]
        ELSE IF valid(s, i)
             THEN SubSeq(s, i, i + seqlen(s[i]) - 1) \o rest[i + seqlen(s[i])]
        ELSE <<QUESTION>> \o rest[i+1]
  IN rest[1]
embedded_nul(s) == NUL \in Range(s)

doubled(chars, s) ==
  LET rest[i \in 1..Len(s)+1] ==
        IF i > Len(s) THEN <<>>
        ELSE (IF s[i] \in chars THEN <<s[i], s[i]>> ELSE <<s[i]>>) \o rest[i+1]
  IN rest[1]

(* libpq: quotes and backslashes are doubled; with backslashes it is E''.  *)
PQescapeLiteral(s) ==
  (IF BACKSLASH \in Range(s) THEN <<SPACE, LETTER_E, QUOTE>> ELSE <<QUOTE>>)
    \o doubled({QUOTE, BACKSLASH}, s) \o <<QUOTE>>

(* What of the literal is sent, in front of a newline.                     *)
unquoted(lit) ==
  IF lit[1] = SPACE /\ lit[2] = LETTER_E THEN SubSeq(lit, 4, Len(lit) - 1)
  ELSE SubSeq(lit, 2, Len(lit) - 1)

row(s) == unquoted(PQescapeLiteral(sanitize_utf8(repair_null_escape(s))))

(* The server: a backslash makes the next character literal.               *)
copy_text(line) ==
  LET rest[i \in 1..Len(line)+1] ==
        IF i > Len(line) THEN <<>>
        ELSE IF line[i] = BACKSLASH /\ i < Len(line) THEN <<line[i+1]>> \o rest[i+2]
        ELSE <<line[i]>> \o rest[i+1]
  IN rest[1]
-----------------------------------------------------------------------------
(***************************************************************************)
(* UTF-8 as Unicode defines it: the shortest encoding of a scalar value.   *)
(***************************************************************************)
Low(u) == 128 + (u % 64)
Encode(u) ==
  IF u < 128 THEN <<u>>
  ELSE IF u < 2048 THEN <<192 + (u \div 64), Low(u)>>
  ELSE IF u < 65536 THEN <<224 + (u \div 4096), Low(u \div 64), Low(u)>>
  ELSE <<240 + (u \div 262144), Low(u \div 4096), Low(u \div 64), Low(u)>>

Decode(b) ==
  CASE Len(b) = 1 -> b[1]
    [] Len(b) = 2 -> (b[1] - 192) * 64 + b[2] - 128
    [] Len(b) = 3 -> (b[1] - 224) * 4096 + (b[2] - 128) * 64 + b[3] - 128
    [] Len(b) = 4 -> (b[1] - 240) * 262144 + (b[2] - 128) * 4096 + (b[3] - 128) * 64 + b[4] - 128

IsScalar(u) == u \in 0..1114111 /\ u \notin 55296..57343
IsCharacter(b) == IsScalar(Decode(b)) /\ Encode(Decode(b)) = b

(* Every byte of a character stays, unless it is part of a \u0000.         *)
Cleaned(s) ==
  [i \in 1..Len(s) |->
     IF /\ \E n \in 1..4, a \in 1..i : /\ i < a + n /\ a + n - 1 <= Len(s)
                                      /\ IsCharacter(SubSeq(s, a, a + n - 1))
        /\ ~\E a \in 1..i : i <= a + 5 /\ a + 5 <= Len(s) /\ IsAt(NULL_ESCAPE, s, a)
     THEN s[i] ELSE QUESTION]

(***************************************************************************)
(* JSON text that the server takes: every backslash that is not itself     *)
(* escaped begins one of JSON's escapes, and none of them is \u0000.       *)
(***************************************************************************)
JsonEscapes == {34, 47, BACKSLASH, 98, 102, 110, 114, 116, 117}
WellEscaped(s) ==
  LET rest[i \in 1..Len(s)+1] ==
        \/ i > Len(s)
        \/ i <= Len(s) /\ s[i] # BACKSLASH /\ rest[i+1]
        \/ i < Len(s) /\ s[i] = BACKSLASH /\ s[i+1] \in JsonEscapes /\ rest[i+2]
  IN rest[1]
(* The positions of \u0000, told apart by the backslashes before it.       *)
Backslashes(s, i) ==  \* how many stand immediately before i
  CHOOSE n \in 0..i-1 : /\ \A j \in i-n..i-1 : s[j] = BACKSLASH
                        /\ i - n - 1 >= 1 => s[i-n-1] # BACKSLASH
NullEscapes(s) == {i \in 1..Len(s)-5 : IsAt(NULL_ESCAPE, s, i) /\ Backslashes(s, i) % 2 = 0}
EscapedLookalikes(s) == {i \in 1..Len(s)-5 : IsAt(NULL_ESCAPE, s, i) /\ Backslashes(s, i) % 2 = 1}

Breaks == {TAB, NEWLINE, RETURN}
(* A row the server takes: one line of one column, whose text is JSON.     *)
Acceptable(line) ==
  /\ Range(line) \cap Breaks = {}
  /\ WellEscaped(copy_text(line))
  /\ NullEscapes(copy_text(line)) = {}
=============================================================================
