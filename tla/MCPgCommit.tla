----------------------------- MODULE MCPgCommit -----------------------------
(* A small instance of PgCommit.tla for TLC.                               *)
EXTENDS PgCommit

CONSTANTS m1, m2, m3, m4

Text == [replica |-> FALSE, binary |-> FALSE, exports |-> FALSE]
TextTwice == [replica |-> TRUE, binary |-> FALSE, exports |-> FALSE]
BinaryTwice == [replica |-> TRUE, binary |-> TRUE, exports |-> FALSE]
Exporter == [replica |-> FALSE, binary |-> TRUE, exports |-> TRUE]

Whole(s) == [terminated |-> TRUE, bytes |-> s, taken |-> Acceptable(row(s))]
Open(s) == [Whole(s) EXCEPT !.terminated = FALSE]
Letter == <<97>>

(* Four rows; among them one the server refuses, or one that is discarded. *)
Plain == [m \in Messages |-> Whole(Letter)]
Poisoned == [Plain EXCEPT ![m2] = Whole(<<97, NEWLINE>>)]
Unterminated == [Plain EXCEPT ![m3] = Open(Letter)]

(* One message of a few bytes at a time.  Bytes at the ends of the ranges  *)
(* that UTF-8 tells apart; characters of three and four bytes.             *)
Edges == {NUL, 65, 127, 128, 143, 144, 159, 160, 191, 192, 193, 194, 223, 224, 225,
          237, 238, 239, 240, 241, 244, 245, 247, 248, 255}
Trail == {127, 128, 191, 192}
Second == Trail \cup {143, 144, 159, 160}
Characters ==
  {<<a>> : a \in Edges} \cup {<<a, b>> : a \in Edges, b \in Edges}
    \cup {<<a, b, c>> : a \in {223, 224, 225, 237, 239, 240, 244}, b \in Second, c \in Trail}
    \cup {<<a, b, c, d>> : a \in {239, 240, 241, 244, 245}, b \in Second, c \in Trail, d \in Trail}
(* Escapes, quotes and line breaks around one another.                     *)
Pieces == {<<>>, Letter, <<QUOTE>>, <<BACKSLASH>>, <<BACKSLASH, BACKSLASH>>, NULL_ESCAPE,
           <<BACKSLASH, 110>>, <<TAB>>, <<NEWLINE>>, <<192>>}
Phrases == {a \o b \o c : a \in Pieces, b \in Pieces, c \in Pieces}

SomeCases ==
  {[setting |-> s, load |-> l] : s \in {TextTwice, BinaryTwice}, l \in {Plain}}
    \cup {[setting |-> s, load |-> l] : s \in {Text, Exporter}, l \in {Poisoned, Unterminated}}
    \cup {[setting |-> Text, load |-> [m \in {m1} |-> Whole(s)]] : s \in Characters \cup Phrases}
=============================================================================
