------------------------ MODULE RedisPipelineProofs ------------------------
(***************************************************************************)
(* Proofs about the redis producer and the redis consumer, for pipes of    *)
(* any length and any messages.                                            *)
(***************************************************************************)
EXTENDS RedisPipeline, SequenceTheorems, FiniteSetTheorems, TLAPS

(* An element appended.                                                    *)
LEMMA AppendFacts ==
  ASSUME NEW S, NEW s \in Seq(S), NEW e \in S
  PROVE  /\ Append(s, e) \in Seq(S)
         /\ Len(Append(s, e)) = Len(s) + 1
         /\ Range(Append(s, e)) = Range(s) \cup {e}
<1> DEFINE t == Append(s, e)
<1>1. /\ t \in Seq(S) /\ Len(t) = Len(s) + 1 /\ t[Len(s) + 1] = e
      /\ \A i \in 1..Len(s) : t[i] = s[i]
  OBVIOUS
<1>2. DOMAIN t = 1..Len(s)+1 /\ DOMAIN s = 1..Len(s) /\ Len(s) \in Nat
  BY <1>1
<1> HIDE DEF t
<1>3. Range(t) \subseteq Range(s) \cup {e}
  <2> SUFFICES ASSUME NEW i \in DOMAIN t PROVE t[i] \in Range(s) \cup {e}
    BY DEF Range
  <2>1. i = Len(s) + 1 \/ i \in 1..Len(s)
    BY <1>2
  <2> QED
    BY <2>1, <1>1, <1>2 DEF Range
<1>4. Range(s) \subseteq Range(t) /\ e \in Range(t)
  <2>1. Len(s) + 1 \in DOMAIN t /\ \A i \in DOMAIN s : i \in DOMAIN t
    BY <1>2
  <2> QED
    BY <2>1, <1>1, <1>2 DEF Range
<1> QED
  BY <1>1, <1>3, <1>4 DEF t

(* Head and tail make up the sequence.                                     *)
LEMMA TailFacts ==
  ASSUME NEW S, NEW s \in Seq(S), s # <<>>
  PROVE  /\ Head(s) \in S /\ Tail(s) \in Seq(S)
         /\ Len(s) \in Nat \ {0} /\ Len(Tail(s)) = Len(s) - 1
         /\ Range(s) = {Head(s)} \cup Range(Tail(s))
<1> DEFINE t == Tail(s)
<1>1. /\ Head(s) \in S /\ t \in Seq(S) /\ Len(t) = Len(s) - 1
      /\ \A i \in 1..Len(t) : t[i] = s[i+1]
  BY HeadTailProperties
<1>2. DOMAIN s = 1..Len(s) /\ Len(s) \in Nat \ {0} /\ DOMAIN t = 1..Len(s)-1
  BY <1>1, LenProperties, EmptySeq
<1>3. Head(s) = s[1]
  OBVIOUS
<1> HIDE DEF t
<1>4. Range(s) \subseteq {Head(s)} \cup Range(t)
  <2> SUFFICES ASSUME NEW i \in DOMAIN s, i # 1 PROVE s[i] \in Range(t)
    BY <1>3 DEF Range
  <2>1. i - 1 \in 1..Len(t) /\ (i - 1) + 1 = i /\ i - 1 \in DOMAIN t
    BY <1>1, <1>2
  <2>2. t[i-1] = s[i]
    BY <2>1, <1>1
  <2> QED
    BY <2>1, <2>2 DEF Range
<1>5. Head(s) \in Range(s)
  BY <1>2, <1>3 DEF Range
<1>6. Range(t) \subseteq Range(s)
  <2> SUFFICES ASSUME NEW i \in DOMAIN t PROVE t[i] \in Range(s)
    BY DEF Range
  <2>1. i \in 1..Len(t) /\ i + 1 \in DOMAIN s
    BY <1>1, <1>2
  <2> QED
    BY <2>1, <1>1 DEF Range
<1> QED
  BY <1>1, <1>2, <1>4, <1>5, <1>6 DEF t

(* Two sequences in a row.                                                 *)
LEMMA ConcatFacts ==
  ASSUME NEW S, NEW s \in Seq(S), NEW t \in Seq(S)
  PROVE  /\ s \o t \in Seq(S)
         /\ Len(s \o t) = Len(s) + Len(t)
         /\ Range(s \o t) = Range(s) \cup Range(t)
  BY ConcatProperties, RangeConcatenation, ZenonT(30)

(* A sequence cut in two.                                                  *)
LEMMA SplitFacts ==
  ASSUME NEW S, NEW s \in Seq(S), NEW n \in 1..Len(s)
  PROVE  /\ SubSeq(s, 1, n) \in Seq(S) /\ Len(SubSeq(s, 1, n)) = n
         /\ SubSeq(s, n + 1, Len(s)) \in Seq(S) /\ Len(SubSeq(s, n + 1, Len(s))) = Len(s) - n
         /\ Range(s) \subseteq Range(SubSeq(s, 1, n)) \cup Range(SubSeq(s, n + 1, Len(s)))
<1> DEFINE a == SubSeq(s, 1, n)
           b == SubSeq(s, n + 1, Len(s))
<1>1. Len(s) \in Nat /\ n \in Nat /\ n <= Len(s) /\ 1 <= n /\ DOMAIN s = 1..Len(s)
  BY LenProperties
<1>2. \A i \in 1..Len(s) : s[i] \in S
  BY ElementOfSeq
<1>3. a \in Seq(S) /\ Len(a) = n /\ \A i \in 1..n : a[i] = s[i]
  <2>1. \A i \in 1..n : s[i] \in S
    BY <1>1, <1>2
  <2>2. /\ a \in Seq(S) /\ Len(a) = (IF 1 <= n THEN n - 1 + 1 ELSE 0)
        /\ \A i \in 1..n-1+1 : a[i] = s[1+i-1]
    BY <2>1, <1>1, SubSeqProperties
  <2> QED
    BY <2>2, <1>1
<1>4. b \in Seq(S) /\ Len(b) = Len(s) - n /\ \A i \in 1..Len(s)-n : b[i] = s[n+i]
  <2>1. \A i \in n+1..Len(s) : s[i] \in S
    BY <1>1, <1>2
  <2>2. /\ b \in Seq(S) /\ Len(b) = (IF n + 1 <= Len(s) THEN Len(s) - (n + 1) + 1 ELSE 0)
        /\ \A i \in 1..Len(s)-(n+1)+1 : b[i] = s[(n+1)+i-1]
    BY <2>1, <1>1, SubSeqProperties
  <2> HIDE DEF a, b
  <2>3. Len(s) - (n + 1) + 1 = Len(s) - n /\ \A i \in 1..Len(s)-n : (n+1)+i-1 = n+i
    BY <1>1
  <2>4. Len(b) = Len(s) - n
    <3>1. CASE n + 1 <= Len(s)
      BY <2>2, <2>3, <3>1, Zenon
    <3>2. CASE ~(n + 1 <= Len(s))
      <4>1. \A i, j \in Nat : i <= j /\ ~(i + 1 <= j) => j - i = 0
        OBVIOUS
      <4>2. Len(s) - n = 0
        BY <3>2, <1>1, <4>1, ZenonT(30)
      <4> QED
        BY <2>2, <3>2, <4>2, Zenon
    <3> QED
      BY <3>1, <3>2
  <2>5. \A i \in 1..Len(s)-n : b[i] = s[n+i]
    BY <2>2, <2>3, Zenon
  <2> QED
    BY <2>2, <2>4, <2>5
<1>5. DOMAIN a = 1..n /\ DOMAIN b = 1..Len(s)-n
  BY <1>3, <1>4, LenProperties
<1> HIDE DEF a, b
<1>6. ASSUME NEW i \in 1..Len(s) PROVE s[i] \in Range(a) \cup Range(b)
  <2>1. CASE i <= n
    BY <2>1, <1>1, <1>3, <1>5 DEF Range
  <2>2. CASE i > n
    <3>1. i - n \in 1..Len(s)-n /\ n + (i - n) = i
      BY <2>2, <1>1
    <3>2. b[i-n] = s[i]
      BY <3>1, <1>4
    <3> QED
      BY <3>1, <3>2, <1>5 DEF Range
  <2> QED
    BY <2>1, <2>2, <1>1
<1>7. Range(s) \subseteq Range(a) \cup Range(b)
  BY <1>6, <1>1 DEF Range
<1> QED
  BY <1>3, <1>4, <1>7 DEF a, b

(* A sequence has no more elements than its length.                        *)
LEMMA RangeBounded ==
  ASSUME NEW S, NEW s \in Seq(S)
  PROVE  IsFiniteSet(Range(s)) /\ Cardinality(Range(s)) <= Len(s)
<1>1. Len(s) \in Nat /\ DOMAIN s = 1..Len(s) /\ s \in [1..Len(s) -> S]
  BY LenProperties
<1>2. s \in Surjection(1..Len(s), Range(s))
  BY <1>1 DEF Surjection, Range
<1>3. IsFiniteSet(1..Len(s)) /\ Cardinality(1..Len(s)) = Len(s)
  BY <1>1, FS_Interval, SMTT(30)
<1> QED
  BY <1>2, <1>3, FS_Surjection

(* Nor has a set that two sequences cover.                                 *)
LEMMA CoveredByTwo ==
  ASSUME NEW S, NEW s \in Seq(S), NEW T, NEW t \in Seq(T), NEW U, U \subseteq Range(s) \cup Range(t)
  PROVE  /\ IsFiniteSet(U) /\ Cardinality(U) \in Nat
         /\ Cardinality(U) <= Len(s) + Len(t)
<1>1. /\ IsFiniteSet(Range(s)) /\ Cardinality(Range(s)) <= Len(s)
      /\ IsFiniteSet(Range(t)) /\ Cardinality(Range(t)) <= Len(t)
  BY RangeBounded
<1>2. IsFiniteSet(Range(s) \cap Range(t))
  BY <1>1, FS_Subset
<1>3. /\ Cardinality(Range(s)) \in Nat /\ Cardinality(Range(t)) \in Nat
      /\ Cardinality(Range(s) \cap Range(t)) \in Nat
  BY <1>1, <1>2, FS_CardinalityType
<1>4. /\ IsFiniteSet(Range(s) \cup Range(t))
      /\ Cardinality(Range(s) \cup Range(t)) =
           Cardinality(Range(s)) + Cardinality(Range(t)) - Cardinality(Range(s) \cap Range(t))
  BY <1>1, FS_Union
<1>5. IsFiniteSet(U) /\ Cardinality(U) <= Cardinality(Range(s) \cup Range(t))
  BY <1>4, FS_Subset
<1>6. Cardinality(U) \in Nat
  BY <1>5, FS_CardinalityType
<1>7. Len(s) \in Nat /\ Len(t) \in Nat
  BY LenProperties
<1> QED
  BY <1>1, <1>3, <1>4, <1>5, <1>6, <1>7
-----------------------------------------------------------------------------
Replies == Messages \cup {nil, ok}

Types ==
  /\ pipe_max \in [Roles -> Nat]
  /\ pipe_cur \in [Roles -> Nat]
  /\ pipe_full \in BOOLEAN
  /\ pc \in [Roles -> {"idle", "command", "check", "reply", "freed", "aborted"}]
  /\ obuf \in [Roles -> Seq(Messages \cup {BLPOP})]
  /\ sent \in [Roles -> Seq(Messages \cup {BLPOP})]
  /\ wire \in [Roles -> Seq(Replies)]
  /\ reader \in [Roles -> Seq(Replies)]
  /\ obuf["producer"] \in Seq(Messages) /\ sent["producer"] \in Seq(Messages)
  /\ list \in Seq(Messages)

(***************************************************************************)
(* pipe_cur counts the commands under way; a pipe has room between two     *)
(* calls, and one that is being drained is not empty.                      *)
(***************************************************************************)
Counted(r) ==
  IF pipe_max[r] > 0
  THEN /\ Outstanding(r) = pipe_cur[r] /\ pipe_cur[r] <= pipe_max[r]
       /\ pc[r] # "command"
       /\ pc[r] \in {"check", "reply"} => pipe_cur[r] > 0
       /\ pc[r] = "idle" => pipe_cur[r] < pipe_max[r]
  ELSE /\ pipe_cur[r] = 0
       /\ pc[r] \notin {"check", "reply"}
       /\ pc[r] \in {"idle", "freed"} => Outstanding(r) = 0
       /\ pc[r] = "command" => Outstanding(r) = 1
       /\ Outstanding(r) <= 1

Ends ==
  /\ pc["producer"] = "freed" => pipe_cur["producer"] = 0
  /\ pc["consumer"] = "freed" /\ pipe_max["consumer"] > 0 => pipe_cur["consumer"] < pipe_max["consumer"]
  /\ pc["consumer"] # "check"
  /\ pipe_full => pipe_cur["consumer"] > 0

(* Where a message is that is not yet on the server, or was given out.     *)
Kept ==
  produced \subseteq refused \cup Range(list) \cup popped
                       \cup Range(obuf["producer"]) \cup Range(sent["producer"])
Given ==
  /\ popped \subseteq Messages
  /\ popped \subseteq consumed \cup Range(wire["consumer"]) \cup Range(reader["consumer"])

IInv == Types /\ (\A r \in Roles : Counted(r)) /\ Ends /\ Kept /\ Given
-----------------------------------------------------------------------------
(* Buffers have lengths, and what is under way is a number.                *)
LEMMA Lengths ==
  ASSUME Types, NEW r \in Roles
  PROVE  /\ Len(obuf[r]) \in Nat /\ Len(sent[r]) \in Nat /\ Len(wire[r]) \in Nat /\ Len(reader[r]) \in Nat
         /\ Outstanding(r) \in Nat
<1>1. /\ Len(obuf[r]) \in Nat /\ Len(sent[r]) \in Nat /\ Len(wire[r]) \in Nat /\ Len(reader[r]) \in Nat
  BY LenProperties DEF Types
<1>2. \A a, b, c, d \in Nat : a + b + c + d \in Nat
  OBVIOUS
<1> QED
  BY <1>1, <1>2, Zenon DEF Outstanding

(* Commands and replies move from one buffer to the next.                  *)
LEMMA Moved ==
  ASSUME Types, NEW r \in Roles, NEW i \in Int, NEW j \in Int, NEW k \in Int, NEW l \in Int,
         Len(obuf'[r]) = Len(obuf[r]) + i, Len(sent'[r]) = Len(sent[r]) + j,
         Len(wire'[r]) = Len(wire[r]) + k, Len(reader'[r]) = Len(reader[r]) + l
  PROVE  Outstanding(r)' = Outstanding(r) + (i + j + k + l)
<1> DEFINE a == Len(obuf[r])
           b == Len(sent[r])
           c == Len(wire[r])
           d == Len(reader[r])
<1>1. a \in Nat /\ b \in Nat /\ c \in Nat /\ d \in Nat
  BY Lengths
<1>2. Outstanding(r)' = (a + i) + (b + j) + (c + k) + (d + l) /\ Outstanding(r) = a + b + c + d
  BY DEF Outstanding
<1> HIDE DEF a, b, c, d
<1>3. (a + i) + (b + j) + (c + k) + (d + l) = (a + b + c + d) + (i + j + k + l)
  BY <1>1
<1> QED
  BY <1>2, <1>3

(* What a step leaves alone stays counted.                                 *)
LEMMA CountedKept ==
  ASSUME NEW r \in Roles, Counted(r), pc'[r] = pc[r], pipe_cur'[r] = pipe_cur[r],
         pipe_max' = pipe_max, Outstanding(r)' = Outstanding(r)
  PROVE  Counted(r)'
  BY DEF Counted

(* Nothing is under way in the initial states.                             *)
LEMMA InitInv == Init => IInv
<1> SUFFICES ASSUME Init PROVE IInv
  OBVIOUS
<1>1. pipe_max \in [Roles -> Nat]
  BY PipeAssumption, Zenon DEF Init
<1>2. /\ <<>> \in Seq(Messages \cup {BLPOP}) /\ <<>> \in Seq(Replies) /\ <<>> \in Seq(Messages)
      /\ Len(<<>>) = 0
  OBVIOUS
<1>3. Types
  BY <1>1, <1>2, Zenon DEF Init, Types, Roles
<1>4. \A r \in Roles : Outstanding(r) = 0
  BY <1>2 DEF Init, Outstanding
<1>5. \A r \in Roles : Counted(r)
  BY <1>1, <1>4 DEF Init, Counted
<1>6. Ends
  BY DEF Init, Ends, Roles
<1>7. Kept /\ Given
  BY DEF Init, Kept, Given
<1> QED
  BY <1>3, <1>5, <1>6, <1>7 DEF IInv

(* produce() puts one command more under way, and counts it.               *)
LEMMA ProduceInv ==
  ASSUME IInv, NEW msg \in Messages, produce(msg)
  PROVE  IInv'
<1> DEFINE P == "producer"
           C == "consumer"
<1>1. P \in Roles /\ C \in Roles /\ Roles = {P, C} /\ P # C
  BY DEF Roles
<1>2. Types /\ Counted(P) /\ Counted(C) /\ Ends /\ Kept /\ Given
  BY <1>1 DEF IInv
<1>3. /\ pc[P] = "idle" /\ obuf' = [obuf EXCEPT ![P] = Append(@, msg)]
      /\ UNCHANGED <<pipe_max, pipe_full, sent, wire, reader, list, refused, popped, consumed>>
      /\ produced' = produced \cup {msg}
  BY DEF produce, redisAppendCommand
<1>4. \/ /\ pipe_max[P] = 0 /\ pipe_cur' = pipe_cur
         /\ pc' = [pc EXCEPT ![P] = "command"]
      \/ /\ pipe_max[P] # 0 /\ pipe_cur' = [pipe_cur EXCEPT ![P] = pipe_cur[P] + 1]
         /\ pc' = [pc EXCEPT ![P] = IF pipe_cur[P] + 1 >= pipe_max[P] THEN "check" ELSE "idle"]
  BY DEF produce, full
<1>5. /\ Append(obuf[P], msg) \in Seq(Messages \cup {BLPOP}) /\ Append(obuf[P], msg) \in Seq(Messages)
      /\ Len(Append(obuf[P], msg)) = Len(obuf[P]) + 1
      /\ Range(Append(obuf[P], msg)) = Range(obuf[P]) \cup {msg}
  BY <1>2, <1>1, AppendFacts DEF Types
<1>6. obuf'[P] = Append(obuf[P], msg) /\ obuf'[C] = obuf[C]
  BY <1>1, <1>2, <1>3 DEF Types
<1>7. Outstanding(P)' = Outstanding(P) + 1 /\ Outstanding(C)' = Outstanding(C) /\ Outstanding(P) \in Nat
  <2>1. /\ Len(obuf'[P]) = Len(obuf[P]) + 1 /\ Len(sent'[P]) = Len(sent[P]) + 0
        /\ Len(wire'[P]) = Len(wire[P]) + 0 /\ Len(reader'[P]) = Len(reader[P]) + 0
    BY <1>1, <1>2, <1>3, <1>5, <1>6, Lengths
  <2>2. /\ Outstanding(P) \in Nat /\ Outstanding(P)' = Outstanding(P) + (1 + 0 + 0 + 0)
    <3>1. 0 \in Int /\ 1 \in Int
      OBVIOUS
    <3> QED
      BY <1>1, <1>2, <2>1, <3>1, Moved, Lengths, ZenonT(30)
  <2>3. Outstanding(C)' = Outstanding(C)
    BY <1>3, <1>6 DEF Outstanding
  <2> QED
    BY <2>2, <2>3
<1>8. pc'[C] = pc[C] /\ pipe_cur'[C] = pipe_cur[C]
  BY <1>1, <1>2, <1>4, SMTT(30) DEF Types
<1>9. Counted(C)'
  BY <1>1, <1>2, <1>3, <1>7, <1>8, CountedKept, SMTT(30)
<1>10. pipe_max[P] \in Nat /\ pipe_cur[P] \in Nat
  BY <1>1, <1>2 DEF Types
<1>11. Counted(P)'
  <2>1. CASE pipe_max[P] = 0
    BY <2>1, <1>1, <1>2, <1>3, <1>4, <1>7, <1>10, SMTT(30) DEF Counted, Types
  <2>2. CASE pipe_max[P] # 0
    <3>1. /\ pipe_cur'[P] = pipe_cur[P] + 1
          /\ pc'[P] = IF pipe_cur[P] + 1 >= pipe_max[P] THEN "check" ELSE "idle"
      BY <2>2, <1>1, <1>2, <1>4 DEF Types
    <3>2. Outstanding(P) = pipe_cur[P] /\ pipe_cur[P] < pipe_max[P]
      BY <2>2, <1>2, <1>3, <1>10 DEF Counted
    <3> QED
      BY <2>2, <3>1, <3>2, <1>3, <1>7, <1>10 DEF Counted
  <2> QED
    BY <2>1, <2>2
<1>12. Types'
  <2>1. pipe_cur' \in [Roles -> Nat]
    BY <1>1, <1>2, <1>4, <1>10 DEF Types
  <2>2. pc' \in [Roles -> {"idle", "command", "check", "reply", "freed", "aborted"}]
    BY <1>1, <1>2, <1>4 DEF Types
  <2>3. obuf' \in [Roles -> Seq(Messages \cup {BLPOP})] /\ obuf'["producer"] \in Seq(Messages)
    BY <1>2, <1>3, <1>5, <1>6 DEF Types
  <2> QED
    BY <1>2, <1>3, <2>1, <2>2, <2>3, ZenonT(30) DEF Types
<1>13. Ends'
  BY <1>1, <1>2, <1>3, <1>4, <1>8, SMTT(30) DEF Ends, Types
<1>14. Kept' /\ Given'
  BY <1>2, <1>3, <1>5, <1>6 DEF Kept, Given
<1> QED
  BY <1>1, <1>9, <1>11, <1>12, <1>13, <1>14 DEF IInv

(* Each reply the producer takes is one command less.                      *)
LEMMA ProducerReplyInv ==
  ASSUME IInv, producer_reply
  PROVE  IInv'
<1> DEFINE P == "producer"
           C == "consumer"
<1>1. P \in Roles /\ C \in Roles /\ Roles = {P, C} /\ P # C
  BY DEF Roles
<1>2. Types /\ Counted(P) /\ Counted(C) /\ Ends /\ Kept /\ Given
  BY <1>1 DEF IInv
<1>3. /\ pc[P] \in Waiting /\ reader[P] # <<>> /\ reader' = [reader EXCEPT ![P] = Tail(@)]
      /\ UNCHANGED <<pipe_max, pipe_full, obuf, sent, wire, list, produced, refused, popped, consumed>>
  BY DEF producer_reply, history
<1>4. \/ /\ pc[P] = "command" /\ pc' = [pc EXCEPT ![P] = "idle"] /\ pipe_cur' = pipe_cur
      \/ /\ pc[P] \in {"check", "reply"} /\ pipe_cur' = [pipe_cur EXCEPT ![P] = @ - 1]
         /\ pc' = [pc EXCEPT ![P] =
                      CASE pipe_cur[P] > 1 -> @
                        [] pipe_cur[P] <= 1 /\ @ = "check" -> "idle"
                        [] pipe_cur[P] <= 1 /\ @ = "reply" -> "freed"]
  BY ZenonT(30) DEF producer_reply, Waiting
<1>5. Tail(reader[P]) \in Seq(Replies) /\ Len(Tail(reader[P])) = Len(reader[P]) - 1 /\ Len(reader[P]) \in Nat
  BY <1>1, <1>2, <1>3, TailFacts DEF Types
<1>6. reader'[P] = Tail(reader[P]) /\ reader'[C] = reader[C]
  BY <1>1, <1>2, <1>3 DEF Types
<1>7. Outstanding(P)' = Outstanding(P) - 1 /\ Outstanding(C)' = Outstanding(C) /\ Outstanding(P) \in Nat
  <2>1. /\ Len(obuf'[P]) = Len(obuf[P]) + 0 /\ Len(sent'[P]) = Len(sent[P]) + 0
        /\ Len(wire'[P]) = Len(wire[P]) + 0 /\ Len(reader'[P]) = Len(reader[P]) + (-1)
    <3>1. \A n \in Nat : n = n + 0 /\ n - 1 = n + (-1)
      OBVIOUS
    <3>2. Len(obuf[P]) \in Nat /\ Len(sent[P]) \in Nat /\ Len(wire[P]) \in Nat
      BY <1>1, <1>2, Lengths
    <3> QED
      BY <1>3, <1>5, <1>6, <3>1, <3>2, Zenon
  <2>2. 0 \in Int /\ -1 \in Int
    OBVIOUS
  <2>3. Outstanding(P) \in Nat /\ Outstanding(P)' = Outstanding(P) + (0 + 0 + 0 + (-1))
    BY <1>1, <1>2, <2>1, <2>2, Moved, Lengths, ZenonT(30)
  <2>4. Outstanding(C)' = Outstanding(C)
    BY <1>3, <1>6 DEF Outstanding
  <2> QED
    BY <2>3, <2>4
<1>8. pc'[C] = pc[C] /\ pipe_cur'[C] = pipe_cur[C]
  BY <1>1, <1>2, <1>4, SMTT(30) DEF Types
<1>9. Counted(C)'
  BY <1>1, <1>2, <1>3, <1>7, <1>8, CountedKept, SMTT(30)
<1>10. pipe_max[P] \in Nat /\ pipe_cur[P] \in Nat
  BY <1>1, <1>2 DEF Types
<1>11. CASE pc[P] = "command"
  <2>1. pipe_max[P] = 0 /\ Outstanding(P) = 1 /\ pipe_cur[P] = 0
    BY <1>11, <1>2, <1>10 DEF Counted
  <2>2. pc' = [pc EXCEPT ![P] = "idle"] /\ pipe_cur' = pipe_cur /\ pc'[P] = "idle"
    BY <1>11, <1>1, <1>2, <1>4 DEF Types
  <2>3. Counted(P)'
    BY <2>1, <2>2, <1>3, <1>7 DEF Counted
  <2>4. Types'
    BY <2>2, <1>2, <1>3, <1>5, <1>6, ZenonT(30) DEF Types
  <2>5. Ends'
    BY <2>2, <1>2, <1>3, <1>8 DEF Ends
  <2>6. Kept' /\ Given'
    BY <1>2, <1>3, <1>6, SMTT(30) DEF Kept, Given
  <2> QED
    BY <1>1, <1>9, <2>3, <2>4, <2>5, <2>6, SMTT(30) DEF IInv
<1>12. CASE pc[P] \in {"check", "reply"}
  <2>1. pipe_max[P] > 0 /\ Outstanding(P) = pipe_cur[P] /\ pipe_cur[P] > 0 /\ pipe_cur[P] <= pipe_max[P]
    BY <1>12, <1>2, <1>10 DEF Counted
  <2>2. /\ pipe_cur' = [pipe_cur EXCEPT ![P] = @ - 1] /\ pipe_cur'[P] = pipe_cur[P] - 1
        /\ pipe_cur[P] - 1 \in Nat
    BY <1>12, <1>1, <1>2, <1>4, <1>10, <2>1, SMTT(30) DEF Types
  <2>3. /\ pipe_cur[P] > 1 => pc' = pc
        /\ pipe_cur[P] <= 1 /\ pc[P] = "check" => pc' = [pc EXCEPT ![P] = "idle"]
        /\ pipe_cur[P] <= 1 /\ pc[P] = "reply" => pc' = [pc EXCEPT ![P] = "freed"]
    BY <1>12, <1>1, <1>2, <1>4, <1>10, SMTT(30) DEF Types
  <2>4. /\ pc' \in [Roles -> {"idle", "command", "check", "reply", "freed", "aborted"}]
        /\ pipe_cur[P] > 1 => pc'[P] = pc[P]
        /\ pipe_cur[P] = 1 => pc'[P] \in {"idle", "freed"}
        /\ pc'[P] = "freed" => pipe_cur[P] = 1
        /\ pc'[P] = "idle" => pipe_cur[P] = 1
    BY <1>12, <1>1, <1>2, <1>10, <2>1, <2>3, SMTT(30) DEF Types
  <2>5. Counted(P)'
    BY <1>12, <1>3, <1>7, <1>10, <2>1, <2>2, <2>4, SMTT(30) DEF Counted
  <2>6. Types'
    BY <2>2, <2>4, <1>2, <1>3, <1>5, <1>6, ZenonT(30) DEF Types
  <2>7. Ends'
    BY <2>2, <2>4, <1>2, <1>3, <1>8, <1>10, SMTT(30) DEF Ends
  <2>8. Kept' /\ Given'
    BY <1>2, <1>3, <1>6 DEF Kept, Given
  <2> QED
    BY <1>1, <1>9, <2>5, <2>6, <2>7, <2>8 DEF IInv
<1> QED
  BY <1>4, <1>11, <1>12

(* consume() puts one BLPOP under way; an idle consumer has room for it.   *)
LEMMA ConsumeInv ==
  ASSUME IInv, consume
  PROVE  IInv'
<1> DEFINE P == "producer"
           C == "consumer"
<1>1. P \in Roles /\ C \in Roles /\ Roles = {P, C} /\ P # C
  BY DEF Roles
<1>2. Types /\ Counted(P) /\ Counted(C) /\ Ends /\ Kept /\ Given
  BY <1>1 DEF IInv
<1>3. /\ pipe_max[C] \in Nat /\ pipe_cur[C] \in Nat /\ pc[C] = "idle"
      /\ pipe_max[C] > 0 => pipe_cur[C] < pipe_max[C]
  BY <1>1, <1>2 DEF Types, Counted, consume
<1>4. /\ obuf' = [obuf EXCEPT ![C] = Append(@, BLPOP)]
      /\ UNCHANGED <<pipe_max, sent, wire, reader, list, produced, refused, popped, consumed>>
  BY <1>3 DEF consume, redisAppendCommand, has_room, history
<1>5. \/ /\ pipe_max[C] = 0 /\ pc' = [pc EXCEPT ![C] = "command"] /\ UNCHANGED <<pipe_cur, pipe_full>>
      \/ /\ pipe_max[C] > 0 /\ pipe_cur' = [pipe_cur EXCEPT ![C] = pipe_cur[C] + 1]
         /\ pipe_full' = (pipe_full \/ pipe_cur[C] + 1 >= pipe_max[C])
         /\ pc' = [pc EXCEPT ![C] = IF pipe_full \/ pipe_cur[C] + 1 >= pipe_max[C] THEN "reply" ELSE "idle"]
  BY <1>3 DEF consume, has_room, pipe_full_now
<1>6. /\ Append(obuf[C], BLPOP) \in Seq(Messages \cup {BLPOP})
      /\ Len(Append(obuf[C], BLPOP)) = Len(obuf[C]) + 1
  BY <1>1, <1>2, AppendFacts DEF Types
<1>7. obuf'[C] = Append(obuf[C], BLPOP) /\ obuf'[P] = obuf[P]
  BY <1>1, <1>2, <1>4 DEF Types
<1>8. Outstanding(C)' = Outstanding(C) + 1 /\ Outstanding(P)' = Outstanding(P) /\ Outstanding(C) \in Nat
  <2>1. /\ Len(obuf'[C]) = Len(obuf[C]) + 1 /\ Len(sent'[C]) = Len(sent[C]) + 0
        /\ Len(wire'[C]) = Len(wire[C]) + 0 /\ Len(reader'[C]) = Len(reader[C]) + 0
    BY <1>1, <1>2, <1>4, <1>6, <1>7, Lengths
  <2>2. 0 \in Int /\ 1 \in Int
    OBVIOUS
  <2>3. Outstanding(C) \in Nat /\ Outstanding(C)' = Outstanding(C) + (1 + 0 + 0 + 0)
    BY <1>1, <1>2, <2>1, <2>2, Moved, Lengths, ZenonT(30)
  <2>4. Outstanding(P)' = Outstanding(P)
    BY <1>4, <1>7 DEF Outstanding
  <2> QED
    BY <2>3, <2>4
<1>9. pc'[P] = pc[P] /\ pipe_cur'[P] = pipe_cur[P]
  BY <1>1, <1>2, <1>5 DEF Types
<1>10. Counted(P)'
  BY <1>1, <1>2, <1>4, <1>8, <1>9, CountedKept
<1>11. Kept' /\ Given'
  BY <1>2, <1>4, <1>7 DEF Kept, Given
<1>12. obuf' \in [Roles -> Seq(Messages \cup {BLPOP})] /\ obuf'["producer"] \in Seq(Messages)
  BY <1>1, <1>2, <1>4, <1>6, <1>7 DEF Types
<1>13. CASE pipe_max[C] = 0
  <2>1. /\ pc' = [pc EXCEPT ![C] = "command"] /\ UNCHANGED <<pipe_cur, pipe_full>> /\ pc'[C] = "command"
        /\ Outstanding(C) = 0 /\ pipe_cur[C] = 0
    BY <1>13, <1>1, <1>2, <1>3, <1>5 DEF Types, Counted
  <2>2. Counted(C)'
    BY <1>13, <1>4, <1>8, <2>1 DEF Counted
  <2>3. Types'
    BY <1>2, <1>4, <1>12, <2>1, SMTT(30) DEF Types
  <2>4. Ends'
    BY <1>2, <1>4, <1>9, <2>1 DEF Ends
  <2> QED
    BY <1>1, <1>10, <1>11, <2>2, <2>3, <2>4 DEF IInv
<1>14. CASE pipe_max[C] > 0
  <2>1. /\ pipe_cur' = [pipe_cur EXCEPT ![C] = pipe_cur[C] + 1] /\ pipe_cur'[C] = pipe_cur[C] + 1
        /\ pipe_full' = (pipe_full \/ pipe_cur[C] + 1 >= pipe_max[C])
    BY <1>14, <1>1, <1>2, <1>3, <1>5, SMTT(30) DEF Types
  <2>2. /\ pc' \in [Roles -> {"idle", "command", "check", "reply", "freed", "aborted"}]
        /\ pc'[C] \in {"idle", "reply"}
        /\ pc'[C] = "idle" => pipe_cur[C] + 1 < pipe_max[C]
    BY <1>14, <1>1, <1>2, <1>3, <1>5 DEF Types
  <2>3. Outstanding(C) = pipe_cur[C] /\ pipe_cur[C] < pipe_max[C]
    BY <1>14, <1>2, <1>3 DEF Counted
  <2>4. Counted(C)'
    BY <1>14, <1>3, <1>4, <1>8, <2>1, <2>2, <2>3, SMTT(30) DEF Counted
  <2>5. pipe_full' \in BOOLEAN /\ pipe_cur' \in [Roles -> Nat]
    BY <1>1, <1>2, <1>3, <2>1 DEF Types
  <2>6. Types'
    BY <1>2, <1>4, <1>12, <2>2, <2>5, ZenonT(30) DEF Types
  <2>7. Ends'
    BY <1>2, <1>3, <1>4, <1>9, <2>1, <2>2 DEF Ends
  <2> QED
    BY <1>1, <1>10, <1>11, <2>4, <2>6, <2>7 DEF IInv
<1> QED
  BY <1>3, <1>13, <1>14

(* What a reply brings is consumed.                                        *)
LEMMA ConsumerReplyInv ==
  ASSUME IInv, consumer_reply
  PROVE  IInv'
<1> DEFINE P == "producer"
           C == "consumer"
<1>1. P \in Roles /\ C \in Roles /\ Roles = {P, C} /\ P # C
  BY DEF Roles
<1>2. Types /\ Counted(P) /\ Counted(C) /\ Ends /\ Kept /\ Given
  BY <1>1 DEF IInv
<1>3. /\ pc[C] \in {"command", "reply"} /\ reader[C] # <<>> /\ reader' = [reader EXCEPT ![C] = Tail(@)]
      /\ consumed' = consumed \cup ({Head(reader[C])} \ {nil})
      /\ pc' = [pc EXCEPT ![C] = "idle"]
      /\ UNCHANGED <<pipe_max, obuf, sent, wire, list, produced, refused, popped>>
  BY <1>2 DEF consumer_reply, redis_consumer_handle_reply, Waiting, Ends
<1>4. \/ pc[C] = "command" /\ UNCHANGED <<pipe_cur, pipe_full>>
      \/ /\ pc[C] = "reply" /\ pipe_cur' = [pipe_cur EXCEPT ![C] = pipe_cur[C] - 1]
         /\ pipe_full' = (pipe_full /\ pipe_cur[C] - 1 # 0)
  BY <1>3 DEF consumer_reply
<1>5. /\ Tail(reader[C]) \in Seq(Replies) /\ Len(Tail(reader[C])) = Len(reader[C]) - 1 /\ Len(reader[C]) \in Nat
      /\ Range(reader[C]) = {Head(reader[C])} \cup Range(Tail(reader[C]))
  BY <1>1, <1>2, <1>3, TailFacts DEF Types
<1>6. reader'[C] = Tail(reader[C]) /\ reader'[P] = reader[P]
  BY <1>1, <1>2, <1>3 DEF Types
<1>7. Outstanding(C)' = Outstanding(C) - 1 /\ Outstanding(P)' = Outstanding(P) /\ Outstanding(C) \in Nat
  <2>1. /\ Len(obuf'[C]) = Len(obuf[C]) + 0 /\ Len(sent'[C]) = Len(sent[C]) + 0
        /\ Len(wire'[C]) = Len(wire[C]) + 0 /\ Len(reader'[C]) = Len(reader[C]) + (-1)
    <3>1. \A n \in Nat : n = n + 0 /\ n - 1 = n + (-1)
      OBVIOUS
    <3>2. Len(obuf[C]) \in Nat /\ Len(sent[C]) \in Nat /\ Len(wire[C]) \in Nat
      BY <1>1, <1>2, Lengths
    <3> QED
      BY <1>3, <1>5, <1>6, <3>1, <3>2, Zenon
  <2>2. 0 \in Int /\ -1 \in Int
    OBVIOUS
  <2>3. Outstanding(C) \in Nat /\ Outstanding(C)' = Outstanding(C) + (0 + 0 + 0 + (-1))
    BY <1>1, <1>2, <2>1, <2>2, Moved, Lengths, ZenonT(30)
  <2>4. Outstanding(P)' = Outstanding(P)
    BY <1>3, <1>6 DEF Outstanding
  <2> QED
    BY <2>3, <2>4
<1>8. pc'[P] = pc[P] /\ pipe_cur'[P] = pipe_cur[P] /\ pc'[C] = "idle"
  BY <1>1, <1>2, <1>3, <1>4, SMTT(30) DEF Types
<1>9. Counted(P)'
  BY <1>1, <1>2, <1>3, <1>7, <1>8, CountedKept, SMTT(30)
<1>10. pipe_max[C] \in Nat /\ pipe_cur[C] \in Nat
  BY <1>1, <1>2 DEF Types
<1>11. Given'
  BY <1>2, <1>3, <1>5, <1>6, PipeAssumption, SMTT(30) DEF Given
<1>12. Kept'
  BY <1>2, <1>3 DEF Kept
<1>13. CASE pc[C] = "command"
  <2>1. pipe_max[C] = 0 /\ Outstanding(C) = 1 /\ pipe_cur[C] = 0 /\ UNCHANGED <<pipe_cur, pipe_full>>
    BY <1>13, <1>2, <1>4, <1>10, SMTT(30) DEF Counted
  <2>2. Counted(C)'
    BY <2>1, <1>3, <1>7, <1>8 DEF Counted
  <2>3. Types'
    BY <2>1, <1>2, <1>3, <1>5, <1>6, ZenonT(30) DEF Types
  <2>4. Ends'
    BY <2>1, <1>2, <1>3, <1>8, SMTT(30) DEF Ends
  <2> QED
    BY <1>1, <1>9, <1>11, <1>12, <2>2, <2>3, <2>4, SMTT(30) DEF IInv
<1>14. CASE pc[C] = "reply"
  <2>1. pipe_max[C] > 0 /\ Outstanding(C) = pipe_cur[C] /\ pipe_cur[C] > 0 /\ pipe_cur[C] <= pipe_max[C]
    BY <1>14, <1>2, <1>10 DEF Counted
  <2>2. /\ pipe_cur' = [pipe_cur EXCEPT ![C] = pipe_cur[C] - 1] /\ pipe_cur'[C] = pipe_cur[C] - 1
        /\ pipe_cur[C] - 1 \in Nat /\ pipe_full' = (pipe_full /\ pipe_cur[C] - 1 # 0)
    BY <1>14, <1>1, <1>2, <1>4, <1>10, <2>1, SMTT(30) DEF Types
  <2>3. Counted(C)'
    BY <1>3, <1>7, <1>8, <1>10, <2>1, <2>2, SMTT(30) DEF Counted
  <2>4. pipe_cur' \in [Roles -> Nat] /\ pipe_full' \in BOOLEAN
    BY <1>2, <2>2 DEF Types
  <2>5. Types'
    BY <2>4, <1>2, <1>3, <1>5, <1>6, Zenon DEF Types
  <2>6. Ends'
    <3>1. pipe_full' => pipe_cur[C] - 1 # 0
      BY <2>2, Zenon
    <3>2. pipe_cur[C] - 1 # 0 => pipe_cur[C] - 1 > 0
      BY <1>10, <2>1
    <3> QED
      BY <3>1, <3>2, <2>2, <1>2, <1>3, <1>8, Zenon DEF Ends
  <2> QED
    BY <1>1, <1>9, <1>11, <1>12, <2>3, <2>5, <2>6 DEF IInv
<1> QED
  BY <1>3, <1>13, <1>14

(* redis_producer_free, redis_consumer_free and a failing connection only  *)
(* move the program counter.                                               *)
LEMMA FreeInv ==
  ASSUME IInv, producer_free \/ consumer_free \/ (\E r \in Roles : abort(r))
  PROVE  IInv'
<1>1. /\ Types /\ (\A r \in Roles : Counted(r)) /\ Ends /\ Kept /\ Given
      /\ UNCHANGED <<pipe_max, pipe_cur, pipe_full, obuf, sent, wire, reader, list,
                     produced, refused, popped, consumed>>
  BY DEF IInv, producer_free, consumer_free, abort, conn, history
<1>2. \A r \in Roles : Outstanding(r)' = Outstanding(r)
  BY <1>1 DEF Outstanding
<1>3. \A r \in Roles : pipe_max[r] \in Nat /\ pipe_cur[r] \in Nat /\ Outstanding(r) \in Nat
  BY <1>1, Lengths, Zenon DEF Types
<1>4. Kept' /\ Given'
  BY <1>1 DEF Kept, Given
<1>5. /\ pc' \in [Roles -> {"idle", "command", "check", "reply", "freed", "aborted"}]
      /\ \A r \in Roles : \/ pc'[r] = pc[r] \/ pc'[r] = "aborted"
                          \/ pc[r] = "idle" /\ pc'[r] = "freed" /\ (r = "producer" => pipe_cur[r] = 0)
                          \/ pc[r] = "idle" /\ pc'[r] = "reply" /\ pipe_cur[r] # 0 /\ r = "producer"
  BY <1>1, SMTT(30) DEF producer_free, consumer_free, abort, Types, Roles
<1>6. ASSUME NEW r \in Roles PROVE Counted(r)'
  <2>1. /\ Counted(r) /\ pipe_max'[r] = pipe_max[r] /\ pipe_cur'[r] = pipe_cur[r]
        /\ Outstanding(r)' = Outstanding(r)
    BY <1>1, <1>2
  <2>2. CASE pc'[r] = pc[r]
    BY <2>1, <2>2 DEF Counted
  <2>3. CASE pc'[r] = "aborted"
    BY <2>1, <2>3, <1>3 DEF Counted
  <2>4. CASE pc[r] = "idle" /\ pc'[r] = "freed"
    BY <2>1, <2>4, <1>3, SMTT(30) DEF Counted
  <2>5. CASE pc[r] = "idle" /\ pc'[r] = "reply" /\ pipe_cur[r] # 0
    BY <2>1, <2>5, <1>3 DEF Counted
  <2> QED
    BY <1>5, <2>2, <2>3, <2>4, <2>5, SMTT(30)
<1>7. Types'
  BY <1>1, <1>5 DEF Types
<1>8. Ends'
  <2>1. "producer" \in Roles /\ "consumer" \in Roles
    BY DEF Roles
  <2>2. pc["consumer"] = "idle" /\ pipe_max["consumer"] > 0 => pipe_cur["consumer"] < pipe_max["consumer"]
    BY <1>1, <2>1 DEF Counted
  <2> QED
    BY <1>1, <1>5, <2>1, <2>2 DEF Ends
<1> QED
  BY <1>4, <1>6, <1>7, <1>8, SMTT(30) DEF IInv

(* Writing the buffer moves commands, in order, to the server.             *)
LEMMA FlushInv ==
  ASSUME IInv, NEW r \in Roles, flush(r)
  PROVE  IInv'
<1>1. /\ Types /\ (\A q \in Roles : Counted(q)) /\ Ends /\ Kept /\ Given
      /\ sent' = [sent EXCEPT ![r] = @ \o obuf[r]] /\ obuf' = [obuf EXCEPT ![r] = <<>>]
      /\ UNCHANGED <<pipe_max, pipe_cur, pipe_full, pc, wire, reader, list,
                     produced, refused, popped, consumed>>
  BY DEF IInv, flush, history
<1>2. /\ sent[r] \o obuf[r] \in Seq(Messages \cup {BLPOP})
      /\ Len(sent[r] \o obuf[r]) = Len(sent[r]) + Len(obuf[r])
      /\ Range(sent[r] \o obuf[r]) = Range(sent[r]) \cup Range(obuf[r])
  <2>1. sent[r] \in Seq(Messages \cup {BLPOP}) /\ obuf[r] \in Seq(Messages \cup {BLPOP})
    BY <1>1 DEF Types
  <2> QED
    BY <2>1, ConcatFacts, ZenonT(30)
<1>3. r = "producer" => sent[r] \o obuf[r] \in Seq(Messages)
  BY <1>1, ConcatFacts DEF Types
<1>4. /\ sent'[r] = sent[r] \o obuf[r] /\ obuf'[r] = <<>>
      /\ \A q \in Roles : q # r => sent'[q] = sent[q] /\ obuf'[q] = obuf[q]
  BY <1>1, SMTT(30) DEF Types
<1>5. "producer" \in Roles /\ "consumer" \in Roles
  BY DEF Roles
<1>6. Types'
  <2>1. sent' \in [Roles -> Seq(Messages \cup {BLPOP})]
    BY <1>1, <1>2 DEF Types
  <2>2. obuf' \in [Roles -> Seq(Messages \cup {BLPOP})]
    BY <1>1 DEF Types
  <2>3. obuf'["producer"] \in Seq(Messages) /\ sent'["producer"] \in Seq(Messages)
    <3>1. CASE r = "producer"
      BY <3>1, <1>3, <1>4
    <3>2. CASE r # "producer"
      BY <3>2, <1>1, <1>4, <1>5 DEF Types
    <3> QED
      BY <3>1, <3>2
  <2> QED
    BY <1>1, <2>1, <2>2, <2>3, ZenonT(30) DEF Types
<1>7. ASSUME NEW q \in Roles PROVE Counted(q)'
  <2>1. CASE q # r
    <3>1. Outstanding(q)' = Outstanding(q)
      BY <2>1, <1>1, <1>4 DEF Outstanding
    <3> QED
      BY <1>1, <3>1, CountedKept
  <2>2. CASE q = r
    <3> DEFINE n == Len(obuf[r])
               b == Len(sent[r])
               c == Len(wire[r])
               d == Len(reader[r])
    <3>1. n \in Nat /\ b \in Nat /\ c \in Nat /\ d \in Nat
      BY <1>1, Lengths
    <3>2. Outstanding(r)' = 0 + (b + n) + c + d
      <4>1. Len(obuf'[r]) = 0 /\ Len(sent'[r]) = b + n
        BY <1>2, <1>4
      <4> QED
        BY <1>1, <4>1, ZenonT(30) DEF Outstanding
    <3>3. Outstanding(r) = n + b + c + d
      BY DEF Outstanding
    <3> HIDE DEF n, b, c, d
    <3>4. 0 + (b + n) + c + d = n + b + c + d
      BY <3>1
    <3>6. Outstanding(r)' = Outstanding(r)
      BY <3>2, <3>3, <3>4
    <3> QED
      BY <1>1, <2>2, <3>6, CountedKept
  <2> QED
    BY <2>1, <2>2
<1>8. Ends' /\ Given'
  BY <1>1 DEF Ends, Given
<1>9. Kept'
  <2>1. Range(obuf["producer"]) \cup Range(sent["producer"])
          \subseteq Range(obuf'["producer"]) \cup Range(sent'["producer"])
    BY <1>2, <1>4, <1>5, Zenon
  <2> QED
    BY <1>1, <2>1 DEF Kept
<1> QED
  BY <1>6, <1>7, <1>8, <1>9 DEF IInv

(* Reading moves replies into hiredis' reader.                             *)
LEMMA ReadInv ==
  ASSUME IInv, NEW r \in Roles, read(r)
  PROVE  IInv'
<1>1. /\ Types /\ (\A q \in Roles : Counted(q)) /\ Ends /\ Kept /\ Given
      /\ reader[r] = <<>>
      /\ UNCHANGED <<pipe_max, pipe_cur, pipe_full, pc, obuf, sent, list,
                     produced, refused, popped, consumed>>
  BY DEF IInv, read, history
<1>2. PICK n \in 1..Len(wire[r]) :
        /\ reader' = [reader EXCEPT ![r] = SubSeq(wire[r], 1, n)]
        /\ wire' = [wire EXCEPT ![r] = SubSeq(@, n + 1, Len(@))]
  BY Zenon DEF read
<1> DEFINE a == SubSeq(wire[r], 1, n)
           b == SubSeq(wire[r], n + 1, Len(wire[r]))
<1>3. /\ a \in Seq(Replies) /\ Len(a) = n /\ b \in Seq(Replies) /\ Len(b) = Len(wire[r]) - n
      /\ Range(wire[r]) \subseteq Range(a) \cup Range(b)
  BY <1>1, SplitFacts, SMTT(30) DEF Types
<1>4. /\ reader'[r] = a /\ wire'[r] = b
      /\ \A q \in Roles : q # r => reader'[q] = reader[q] /\ wire'[q] = wire[q]
      /\ reader' = [reader EXCEPT ![r] = a] /\ wire' = [wire EXCEPT ![r] = b]
  BY <1>1, <1>2 DEF Types
<1> HIDE DEF a, b
<1>5. "producer" \in Roles /\ "consumer" \in Roles
  BY DEF Roles
<1>6. Types'
  <2>1. reader' \in [Roles -> Seq(Replies)] /\ wire' \in [Roles -> Seq(Replies)]
    BY <1>1, <1>3, <1>4, SMTT(30) DEF Types
  <2> QED
    BY <1>1, <2>1, Zenon DEF Types
<1>7. ASSUME NEW q \in Roles PROVE Counted(q)'
  <2>1. CASE q # r
    <3>1. Outstanding(q)' = Outstanding(q)
      BY <2>1, <1>1, <1>4 DEF Outstanding
    <3> QED
      BY <1>1, <3>1, CountedKept
  <2>2. CASE q = r
    <3>1. /\ Len(obuf[r]) \in Nat /\ Len(sent[r]) \in Nat /\ Len(wire[r]) \in Nat /\ Outstanding(r) \in Nat
          /\ n \in Nat
      BY <1>1, Lengths
    <3>2. 0 \in Int /\ n \in Int /\ -n \in Int /\ 0 + 0 + (-n) + n = 0
          /\ \A i \in Nat : i = i + 0 /\ i - n = i + (-n)
      BY <3>1
    <3>3. Len(<<>>) = 0 /\ n = 0 + n
      BY <3>1
    <3>4. /\ Len(obuf'[r]) = Len(obuf[r]) + 0 /\ Len(sent'[r]) = Len(sent[r]) + 0
          /\ Len(wire'[r]) = Len(wire[r]) + (-n) /\ Len(reader'[r]) = Len(reader[r]) + n
      BY <1>1, <1>3, <1>4, <3>1, <3>2, <3>3, Zenon
    <3>5. Outstanding(r)' = Outstanding(r) + (0 + 0 + (-n) + n)
      BY <1>1, <3>2, <3>4, Moved, ZenonT(30)
    <3>6. Outstanding(r)' = Outstanding(r)
      BY <3>1, <3>2, <3>5
    <3> QED
      BY <1>1, <2>2, <3>6, CountedKept
  <2> QED
    BY <2>1, <2>2
<1>8. Ends' /\ Kept'
  BY <1>1 DEF Ends, Kept
<1>9. Given'
  <2>1. Range(<<>>) = {}
    BY DEF Range
  <2>2. Range(wire["consumer"]) \cup Range(reader["consumer"])
          \subseteq Range(wire'["consumer"]) \cup Range(reader'["consumer"])
    BY <1>1, <1>3, <1>4, <1>5, <2>1
  <2> QED
    BY <1>1, <2>2 DEF Given
<1> QED
  BY <1>6, <1>7, <1>8, <1>9 DEF IInv

(* The server answers a command: the reply takes its place.                *)
LEMMA Answered ==
  ASSUME IInv, NEW r \in Roles, NEW reply \in Replies, sent[r] # <<>>, answer(r, reply)
  PROVE  /\ \A q \in Roles : Counted(q)'
         /\ Ends'
         /\ sent' \in [Roles -> Seq(Messages \cup {BLPOP})] /\ wire' \in [Roles -> Seq(Replies)]
         /\ \A q \in Roles \ {r} : sent'[q] = sent[q] /\ wire'[q] = wire[q]
         /\ sent'[r] = Tail(sent[r])
         /\ Range(sent[r]) = {Head(sent[r])} \cup Range(sent'[r])
         /\ Range(wire'[r]) = Range(wire[r]) \cup {reply}
<1>1. /\ Types /\ (\A q \in Roles : Counted(q)) /\ Ends
      /\ sent' = [sent EXCEPT ![r] = Tail(@)] /\ wire' = [wire EXCEPT ![r] = Append(@, reply)]
      /\ UNCHANGED <<pipe_max, pipe_cur, pipe_full, pc, obuf, reader>>
  BY DEF IInv, answer
<1>2. sent[r] \in Seq(Messages \cup {BLPOP}) /\ wire[r] \in Seq(Replies)
  BY <1>1 DEF Types
<1>3. /\ Tail(sent[r]) \in Seq(Messages \cup {BLPOP}) /\ Len(Tail(sent[r])) = Len(sent[r]) - 1
      /\ Range(sent[r]) = {Head(sent[r])} \cup Range(Tail(sent[r]))
  BY <1>2, TailFacts, Zenon
<1>4. /\ Append(wire[r], reply) \in Seq(Replies) /\ Len(Append(wire[r], reply)) = Len(wire[r]) + 1
      /\ Range(Append(wire[r], reply)) = Range(wire[r]) \cup {reply}
  BY <1>2, AppendFacts
<1>5. /\ sent'[r] = Tail(sent[r]) /\ wire'[r] = Append(wire[r], reply)
      /\ \A q \in Roles \ {r} : sent'[q] = sent[q] /\ wire'[q] = wire[q]
  BY <1>1 DEF Types
<1>6. sent' \in [Roles -> Seq(Messages \cup {BLPOP})] /\ wire' \in [Roles -> Seq(Replies)]
  BY <1>1, <1>3, <1>4, ZenonT(30) DEF Types
<1>7. ASSUME NEW q \in Roles PROVE Counted(q)'
  <2>1. CASE q # r
    <3>1. Outstanding(q)' = Outstanding(q)
      BY <2>1, <1>1, <1>5 DEF Outstanding
    <3> QED
      BY <1>1, <3>1, CountedKept
  <2>2. CASE q = r
    <3>1. /\ Len(obuf[r]) \in Nat /\ Len(sent[r]) \in Nat /\ Len(reader[r]) \in Nat /\ Outstanding(r) \in Nat
      BY <1>1, Lengths
    <3>2. 0 \in Int /\ 1 \in Int /\ -1 \in Int /\ 0 + (-1) + 1 + 0 = 0
          /\ \A i \in Nat : i = i + 0 /\ i - 1 = i + (-1)
      OBVIOUS
    <3>3. /\ Len(obuf'[r]) = Len(obuf[r]) + 0 /\ Len(sent'[r]) = Len(sent[r]) + (-1)
          /\ Len(wire'[r]) = Len(wire[r]) + 1 /\ Len(reader'[r]) = Len(reader[r]) + 0
      BY <1>1, <1>3, <1>4, <1>5, <3>1, <3>2, Zenon
    <3>4. Outstanding(r)' = Outstanding(r) + (0 + (-1) + 1 + 0)
      BY <1>1, <3>2, <3>3, Moved, ZenonT(90)
    <3>5. Outstanding(r)' = Outstanding(r)
      BY <3>1, <3>2, <3>4
    <3> QED
      BY <1>1, <2>2, <3>5, CountedKept
  <2> QED
    BY <2>1, <2>2
<1>8. Ends'
  BY <1>1 DEF Ends
<1> QED
  BY <1>3, <1>4, <1>5, <1>6, <1>7, <1>8, Zenon

(* A message sent is then in the list, or was refused.                     *)
LEMMA LPUSHInv ==
  ASSUME IInv, LPUSH
  PROVE  IInv'
<1> DEFINE P == "producer"
           m == Head(sent[P])
<1>1. /\ Types /\ Kept /\ Given /\ sent[P] # <<>> /\ answer(P, ok) /\ popped' = popped
      /\ UNCHANGED <<pipe_max, pipe_cur, pipe_full, pc, obuf, reader, produced, consumed>>
      /\ \/ list' = <<m>> \o list /\ UNCHANGED refused
         \/ refused' = refused \cup {m} /\ UNCHANGED list
  BY DEF IInv, LPUSH, answer
<1>2. P \in Roles /\ "consumer" \in Roles \ {P} /\ ok \in Replies
  BY DEF Roles, Replies
<1>3. /\ \A q \in Roles : Counted(q)'
      /\ Ends'
      /\ sent' \in [Roles -> Seq(Messages \cup {BLPOP})] /\ wire' \in [Roles -> Seq(Replies)]
      /\ wire'["consumer"] = wire["consumer"] /\ sent'[P] = Tail(sent[P])
      /\ Range(sent[P]) = {m} \cup Range(sent'[P])
  BY <1>1, <1>2, Answered, Zenon
<1>4. sent[P] \in Seq(Messages)
  BY <1>1 DEF Types
<1>5. m \in Messages /\ Tail(sent[P]) \in Seq(Messages)
  BY <1>1, <1>4, TailFacts, Zenon
<1> HIDE DEF m
<1>6. /\ <<m>> \in Seq(Messages) /\ Range(<<m>>) = {m}
  BY <1>5 DEF Range
<1>7. /\ <<m>> \o list \in Seq(Messages) /\ Range(<<m>> \o list) = {m} \cup Range(list)
  <2>1. list \in Seq(Messages)
    BY <1>1 DEF Types
  <2> DEFINE s == <<m>>
  <2>2. s \in Seq(Messages) /\ Range(s) = {m}
    BY <1>6
  <2> HIDE DEF s
  <2>3. s \o list \in Seq(Messages) /\ Range(s \o list) = {m} \cup Range(list)
    BY <2>1, <2>2, ConcatFacts
  <2> QED
    BY <2>3 DEF s
<1>8. Types'
  BY <1>1, <1>3, <1>5, <1>7, Zenon DEF Types
<1>9. Kept'
  <2>1. {m} \cup Range(list) \cup refused \subseteq Range(list') \cup refused'
    BY <1>1, <1>7, Zenon
  <2>2. {m} \subseteq Range(list') \cup refused'
    BY <1>1, <1>7, ZenonT(30)
  <2> QED
    BY <1>1, <1>3, <2>1 DEF Kept
<1>10. Given'
  BY <1>1, <1>3 DEF Given
<1> QED
  BY <1>3, <1>8, <1>9, <1>10 DEF IInv

(* A message taken off the list is in the reply; a timeout takes none.     *)
LEMMA PopInv ==
  ASSUME IInv, pop \/ timeout
  PROVE  IInv'
<1> DEFINE C == "consumer"
           P == "producer"
<1>1. PICK reply \in Replies :
        /\ answer(C, reply)
        /\ \/ list # <<>> /\ reply = Head(list) /\ list' = Tail(list) /\ popped' = popped \cup {reply}
           \/ UNCHANGED <<list, popped>>
  <2>1. CASE pop
    <3>1. Head(list) \in Replies
      BY <2>1, TailFacts DEF IInv, Types, pop, Replies
    <3> QED
      BY <2>1, <3>1 DEF pop
  <2>2. CASE timeout
    BY <2>2 DEF timeout, Replies
  <2> QED
    BY <2>1, <2>2
<1>2. /\ Types /\ Kept /\ Given /\ sent[C] # <<>> /\ refused' = refused
      /\ UNCHANGED <<pipe_max, pipe_cur, pipe_full, pc, obuf, reader, produced, consumed>>
  BY <1>1 DEF IInv, pop, timeout, answer
<1>3. C \in Roles /\ P \in Roles \ {C}
  BY DEF Roles
<1>4. /\ \A q \in Roles : Counted(q)'
      /\ Ends'
      /\ sent' \in [Roles -> Seq(Messages \cup {BLPOP})] /\ wire' \in [Roles -> Seq(Replies)]
      /\ sent'[P] = sent[P]
      /\ Range(wire'[C]) = Range(wire[C]) \cup {reply}
  BY <1>1, <1>2, <1>3, Answered, Zenon
<1>5. /\ list' \in Seq(Messages) /\ popped' \subseteq Messages
      /\ Range(list) \cup popped \subseteq Range(list') \cup popped'
      /\ popped \subseteq popped' /\ popped' \subseteq popped \cup {reply}
  <2>1. list \in Seq(Messages) /\ popped \subseteq Messages
    BY <1>2 DEF Types, Given
  <2>2. CASE UNCHANGED <<list, popped>>
    BY <2>1, <2>2
  <2>3. CASE list # <<>> /\ reply = Head(list) /\ list' = Tail(list) /\ popped' = popped \cup {reply}
    <3>1. /\ Head(list) \in Messages /\ Tail(list) \in Seq(Messages)
          /\ Range(list) = {Head(list)} \cup Range(Tail(list))
      BY <2>1, <2>3, TailFacts, Zenon
    <3> QED
      BY <2>1, <2>3, <3>1
  <2> QED
    BY <1>1, <2>2, <2>3
<1>6. Types'
  BY <1>2, <1>4, <1>5, SMTT(30) DEF Types
<1>7. Kept'
  BY <1>2, <1>4, <1>5 DEF Kept
<1>8. Given'
  BY <1>2, <1>4, <1>5 DEF Given
<1> QED
  BY <1>4, <1>6, <1>7, <1>8 DEF IInv
-----------------------------------------------------------------------------
(* Every step keeps the invariant.                                         *)
LEMMA Invariance ==
  ASSUME IInv, [Next]_vars
  PROVE  IInv'
<1>1. CASE UNCHANGED vars
  BY <1>1, ZenonT(30) DEF vars, IInv, Types, Counted, Outstanding, Ends, Kept, Given
<1>2. ASSUME NEW msg \in Messages, produce(msg) PROVE IInv'
  BY <1>2, ProduceInv
<1>3. CASE producer_reply
  BY <1>3, ProducerReplyInv
<1>4. CASE producer_free \/ consumer_free \/ (\E r \in Roles : abort(r))
  BY <1>4, FreeInv
<1>5. CASE consume
  BY <1>5, ConsumeInv
<1>6. CASE consumer_reply
  BY <1>6, ConsumerReplyInv
<1>7. ASSUME NEW r \in Roles, flush(r) PROVE IInv'
  BY <1>7, FlushInv
<1>8. ASSUME NEW r \in Roles, read(r) PROVE IInv'
  BY <1>8, ReadInv
<1>9. CASE LPUSH
  BY <1>9, LPUSHInv
<1>10. CASE pop \/ timeout
  BY <1>10, PopInv
<1> QED
  BY <1>1, <1>2, <1>3, <1>4, <1>5, <1>6, <1>7, <1>8, <1>9, <1>10, SMTT(30) DEF Next

(* The invariant holds in every reachable state.                           *)
LEMMA Invariant == Spec => []IInv
<1>1. IInv /\ [Next]_vars => IInv'
  BY Invariance
<1> QED
  BY InitInv, <1>1, PTL DEF Spec

(***************************************************************************)
(* pipe_cur of redis.c counts the commands under way, in pipes of any      *)
(* length, so no reply is waited for that will not come.                   *)
(***************************************************************************)
THEOREM PipesCounted == Spec => []RepliesMatch
<1>1. ASSUME IInv PROVE RepliesMatch
  <2>1. ASSUME NEW r \in Roles
        PROVE  IF pipe_max[r] > 0
               THEN /\ Outstanding(r) = pipe_cur[r] /\ pipe_cur[r] <= pipe_max[r]
                    /\ pc[r] \in Waiting => Outstanding(r) > 0
               ELSE /\ pipe_cur[r] = 0
                    /\ pc[r] \in {"idle", "freed"} => Outstanding(r) = 0
                    /\ pc[r] \in Waiting => Outstanding(r) = 1
    BY <1>1 DEF IInv, Counted, Waiting
  <2> QED
    BY <2>1 DEF RepliesMatch
<1>2. IInv => RepliesMatch
  BY <1>1
<1> QED
  BY Invariant, <1>2, PTL

(* The larger of a number and one.                                         *)
LEMMA MaxOne ==
  ASSUME NEW n \in Nat
  PROVE  Max({n, 1}) = IF n > 0 THEN n ELSE 1
<1>1. CASE n > 0
  BY <1>1 DEF Max
<1>2. CASE n = 0
  BY <1>2 DEF Max
<1> QED
  BY <1>1, <1>2

(***************************************************************************)
(* redis_producer_free leaves no message behind that the server has not    *)
(* answered for, and a failing connection costs a pipe at most.            *)
(***************************************************************************)
THEOREM ProducerLosesAPipe == Spec => []ProducerLoss
<1>1. ASSUME IInv PROVE ProducerLoss
  <2> DEFINE P == "producer"
             unsaved == produced \ (refused \cup Range(list) \cup popped)
             n == Cardinality(unsaved)
             max == pipe_max[P]
  <2>1. P \in Roles /\ Types /\ Counted(P) /\ Ends /\ Kept
    BY <1>1 DEF IInv, Roles
  <2>2. unsaved \subseteq Range(obuf[P]) \cup Range(sent[P])
    BY <2>1 DEF Kept
  <2>3. obuf[P] \in Seq(Messages) /\ sent[P] \in Seq(Messages)
    BY <2>1 DEF Types
  <2>4. IsFiniteSet(unsaved) /\ n \in Nat /\ n <= Len(obuf[P]) + Len(sent[P])
    BY <2>2, <2>3, CoveredByTwo, Zenon
  <2>5. n <= Outstanding(P) /\ Outstanding(P) \in Nat /\ max \in Nat /\ pipe_cur[P] \in Nat
    <3> DEFINE a == Len(obuf[P])
               b == Len(sent[P])
               c == Len(wire[P])
               d == Len(reader[P])
    <3>1. a \in Nat /\ b \in Nat /\ c \in Nat /\ d \in Nat /\ Outstanding(P) \in Nat
      BY <2>1, Lengths
    <3>2. n \in Nat /\ n <= a + b /\ Outstanding(P) = a + b + c + d
      BY <2>4, ZenonT(30) DEF Outstanding
    <3> HIDE DEF a, b, c, d, n
    <3>3. n <= Outstanding(P)
      BY <3>1, <3>2
    <3> QED
      BY <2>1, <3>1, <3>3 DEF Types
  <2>6. n = 0 => unsaved = {}
    BY <2>4, FS_EmptySet
  <2>7. Max({max, 1}) = IF max > 0 THEN max ELSE 1
    BY <2>5, MaxOne
  <2> HIDE DEF n, unsaved
  <2>8. pc[P] = "freed" => n = 0
    BY <2>1, <2>4, <2>5 DEF Counted, Ends
  <2>9. pc[P] = "idle" => IF max > 0 THEN n < max ELSE n = 0
    BY <2>1, <2>4, <2>5 DEF Counted
  <2>10. n <= Max({max, 1})
    BY <2>1, <2>4, <2>5, <2>7 DEF Counted
  <2>11. max > 0 \/ max = 0
    BY <2>5
  <2> QED
    BY <2>6, <2>8, <2>9, <2>10, <2>11 DEF ProducerLoss, n, unsaved
<1>2. IInv => ProducerLoss
  BY <1>1
<1> QED
  BY Invariant, <1>2, PTL

(***************************************************************************)
(* redis_consumer_free, which waits for no reply, loses less than a pipe,  *)
(* and a failing connection a pipe at most.                                *)
(***************************************************************************)
THEOREM ConsumerLosesAPipe == Spec => []ConsumerLoss
<1>1. ASSUME IInv PROVE ConsumerLoss
  <2> DEFINE C == "consumer"
             unseen == popped \ consumed
             n == Cardinality(unseen)
             max == pipe_max[C]
  <2>1. C \in Roles /\ Types /\ Counted(C) /\ Ends /\ Given
    BY <1>1 DEF IInv, Roles
  <2>2. unseen \subseteq Range(wire[C]) \cup Range(reader[C])
    BY <2>1 DEF Given
  <2>3. wire[C] \in Seq(Replies) /\ reader[C] \in Seq(Replies)
    BY <2>1 DEF Types
  <2>4. IsFiniteSet(unseen) /\ n \in Nat /\ n <= Len(wire[C]) + Len(reader[C])
    BY <2>2, <2>3, CoveredByTwo, Zenon
  <2>5. n <= Outstanding(C) /\ Outstanding(C) \in Nat /\ max \in Nat /\ pipe_cur[C] \in Nat
    <3> DEFINE a == Len(obuf[C])
               b == Len(sent[C])
               c == Len(wire[C])
               d == Len(reader[C])
    <3>1. a \in Nat /\ b \in Nat /\ c \in Nat /\ d \in Nat /\ Outstanding(C) \in Nat
      BY <2>1, Lengths
    <3>2. n \in Nat /\ n <= c + d /\ Outstanding(C) = a + b + c + d
      BY <2>4, ZenonT(30) DEF Outstanding
    <3> HIDE DEF a, b, c, d, n
    <3>3. n <= Outstanding(C)
      BY <3>1, <3>2
    <3> QED
      BY <2>1, <3>1, <3>3 DEF Types
  <2>6. Max({max, 1}) = IF max > 0 THEN max ELSE 1
    BY <2>5, MaxOne
  <2> HIDE DEF n, unseen
  <2>7. pc[C] \in {"idle", "freed"} => n <= IF max = 0 THEN 0 ELSE max - 1
    BY <2>1, <2>4, <2>5 DEF Counted, Ends
  <2>8. n <= Max({max, 1})
    BY <2>1, <2>4, <2>5, <2>6 DEF Counted
  <2> QED
    BY <2>7, <2>8 DEF ConsumerLoss, n, unseen
<1>2. IInv => ConsumerLoss
  BY <1>1
<1> QED
  BY Invariant, <1>2, PTL
=============================================================================
