-------------------------- MODULE HashTableProofs --------------------------
(***************************************************************************)
(* Proofs about utils/htable.c and utils/metadata.c for any keys, any hash *)
(* function, any number of inserts and deletes and any smallest size.      *)
(***************************************************************************)
EXTENDS HashTable, FiniteSetTheorems, WellFoundedInduction, TLAPS

(* Induction over the numbers, for a set that is given.                    *)
LEMMA Smallest ==
  ASSUME NEW T \in SUBSET Nat, T # {}
  PROVE  \E n \in T : \A m \in T : n <= m
<1> DEFINE R == OpToRel(<, Nat)
<1>1. IsWellFoundedOn(R, Nat)
  BY NatLessThanWellFounded, Zenon
<1>2. \A x, y \in Nat : x < y => <<x, y>> \in R
  BY DEF OpToRel
<1> HIDE DEF R
<1>3. PICK x \in T : \A y \in T : ~ (<<y, x>> \in R)
  BY <1>1, WFMin, Zenon
<1>4. \A y \in T : ~ (y < x)
  BY <1>2, <1>3, Zenon
<1> QED
  BY <1>4

(* A set that has 0 and with every number the next has them all.           *)
LEMMA Induction ==
  ASSUME NEW S, 0 \in S, \A n \in Nat : n \in S => n + 1 \in S
  PROVE  Nat \subseteq S
<1> DEFINE T == Nat \ S
<1> SUFFICES ASSUME T # {} PROVE FALSE
  OBVIOUS
<1>1. PICK n \in T : \A m \in T : n <= m
  BY Smallest, Zenon
<1>2. n # 0 /\ n - 1 \in Nat
  OBVIOUS
<1>3. n - 1 \notin T
  BY <1>1, <1>2
<1> QED
  BY <1>2, <1>3
-----------------------------------------------------------------------------
(* Division with remainder.                                                *)
LEMMA Divided ==
  ASSUME NEW h \in Nat, NEW n \in Nat \ {0}
  PROVE  /\ (h % n) \in 0..n-1
         /\ h = (n * (h \div n)) + (h % n)
         /\ (h \div n) \in Nat
  OBVIOUS

(* Quotient and remainder are unique.                                      *)
LEMMA Unique ==
  ASSUME NEW n \in Nat \ {0}, NEW q \in Int, NEW p \in Int, NEW r \in 0..n-1, NEW s \in 0..n-1,
         n * q + r = n * p + s
  PROVE  q = p /\ r = s
<1>1. q = p
  OBVIOUS
<1> QED
  BY <1>1

(* A number that is split by n and by 2 * n.                               *)
LEMMA Halves ==
  ASSUME NEW n \in Nat \ {0}, NEW q \in Nat, NEW p \in Nat, NEW r \in 0..n-1,
         NEW s \in 0..(2 * n)-1, n * q + r = (2 * n) * p + s
  PROVE  s = r \/ s = r + n
<1>1. CASE s < n
  <2>1. (2 * n) * p + s = n * (2 * p) + s
    OBVIOUS
  <2>2. 2 * p \in Int /\ s \in 0..n-1
    BY <1>1
  <2> QED
    BY <2>1, <2>2, Unique
<1>2. CASE ~ (s < n)
  <2> DEFINE t == s - n
  <2>1. (2 * n) * p + s = n * (2 * p + 1) + t
    OBVIOUS
  <2>2. 2 * p + 1 \in Int /\ t \in 0..n-1 /\ s = t + n
    BY <1>2
  <2> HIDE DEF t
  <2>3. t = r
    BY <2>1, <2>2, Unique
  <2> QED
    BY <2>2, <2>3
<1> QED
  BY <1>1, <1>2

(* One more bit of a hash: the slot stays, or is as far above the old      *)
(* slots as they are many.                                                 *)
LEMMA OneMoreBit ==
  ASSUME NEW h \in Nat, NEW n \in Nat \ {0}
  PROVE  /\ (h % n) \in 0..n-1
         /\ h % (2 * n) = h % n \/ h % (2 * n) = (h % n) + n
<1>1. 2 * n \in Nat \ {0}
  OBVIOUS
<1>2. (h % n) \in 0..n-1 /\ h = (n * (h \div n)) + (h % n) /\ (h \div n) \in Nat
  BY Divided, Zenon
<1>3. /\ (h % (2*n)) \in 0..(2*n)-1 /\ h = ((2*n) * (h \div (2*n))) + (h % (2*n))
      /\ (h \div (2*n)) \in Nat
  BY Divided, <1>1, Zenon
<1> QED
  BY <1>2, <1>3, Halves, ZenonT(30)
-----------------------------------------------------------------------------
(* No key twice in a chain.                                                *)
Once(c) == \A i, j \in 1..Len(c) : c[i].key = c[j].key => i = j

(* What is in a chain.                                                     *)
LEMMA RangeFacts ==
  ASSUME NEW S, NEW c \in Seq(S)
  PROVE  /\ Range(c) \subseteq S
         /\ \A n : n \in Range(c) <=> \E i \in 1..Len(c) : n = c[i]
  BY DEF Range

(* Two chains joined.                                                      *)
LEMMA JoinFacts ==
  ASSUME NEW S, NEW a \in Seq(S), NEW b \in Seq(S)
  PROVE  /\ a \o b \in Seq(S)
         /\ Range(a \o b) = Range(a) \cup Range(b)
         /\ Once(a) /\ Once(b) /\ (\A m \in Range(a), n \in Range(b) : m.key # n.key)
              => Once(a \o b)
<1> DEFINE c == a \o b
<1>1. /\ c \in Seq(S) /\ Len(c) = Len(a) + Len(b) /\ Len(a) \in Nat /\ Len(b) \in Nat
      /\ \A i \in 1..Len(a) : c[i] = a[i]
      /\ \A i \in 1..Len(b) : c[Len(a) + i] = b[i]
  BY SMTT(30)
<1> HIDE DEF c
<1>2. \A i \in 1..Len(c) : i \in 1..Len(a) \/ (i - Len(a) \in 1..Len(b) /\ c[i] = b[i - Len(a)])
  BY <1>1, SMTT(30)
<1>3. Range(c) = Range(a) \cup Range(b)
  <2>1. ASSUME NEW n \in Range(c) PROVE n \in Range(a) \cup Range(b)
    <3>1. PICK i \in 1..Len(c) : n = c[i]
      BY <1>1, RangeFacts
    <3> QED
      BY <1>1, <1>2, <3>1, RangeFacts, Zenon
  <2>2. ASSUME NEW n \in Range(a) PROVE n \in Range(c)
    <3>1. PICK i \in 1..Len(a) : n = a[i]
      BY RangeFacts
    <3>2. i \in 1..Len(c) /\ c[i] = n
      BY <1>1, <3>1
    <3> QED
      BY <1>1, <3>2, RangeFacts
  <2>3. ASSUME NEW n \in Range(b) PROVE n \in Range(c)
    <3>1. PICK i \in 1..Len(b) : n = b[i]
      BY RangeFacts
    <3>2. Len(a) + i \in 1..Len(c) /\ c[Len(a) + i] = n
      BY <1>1, <3>1
    <3> QED
      BY <1>1, <3>2, RangeFacts, Zenon
  <2> QED
    BY <2>1, <2>2, <2>3
<1>4. ASSUME Once(a), Once(b), \A m \in Range(a), n \in Range(b) : m.key # n.key,
             NEW i \in 1..Len(c), NEW j \in 1..Len(c), c[i].key = c[j].key
      PROVE  i = j
  <2>1. \A k \in 1..Len(a), l \in 1..Len(b) : a[k].key # b[l].key
    BY <1>4, RangeFacts, Zenon
  <2>2. CASE i \in 1..Len(a) /\ j \in 1..Len(a)
    BY <1>1, <1>4, <2>2 DEF Once
  <2>3. CASE i \in 1..Len(a) /\ j \notin 1..Len(a)
    BY <1>1, <1>2, <1>4, <2>1, <2>3, ZenonT(30)
  <2>4. CASE i \notin 1..Len(a) /\ j \in 1..Len(a)
    BY <1>1, <1>2, <1>4, <2>1, <2>4, ZenonT(30)
  <2>5. CASE i \notin 1..Len(a) /\ j \notin 1..Len(a)
    <3>1. /\ i - Len(a) \in 1..Len(b) /\ c[i] = b[i - Len(a)]
          /\ j - Len(a) \in 1..Len(b) /\ c[j] = b[j - Len(a)]
      BY <1>2, <2>5
    <3>2. i - Len(a) = j - Len(a)
      BY <1>4, <3>1, Zenon DEF Once
    <3> QED
      BY <1>1, <3>2
  <2> QED
    BY <2>2, <2>3, <2>4, <2>5
<1> QED
  BY <1>1, <1>3, <1>4 DEF Once, c

(* A chain of one node.                                                    *)
LEMMA SingleFacts ==
  ASSUME NEW S, NEW n \in S
  PROVE  <<n>> \in Seq(S) /\ Range(<<n>>) = {n} /\ Once(<<n>>)
  BY DEF Range, Once

(* A node appended.                                                        *)
LEMMA AppendFacts ==
  ASSUME NEW S, NEW c \in Seq(S), NEW n \in S
  PROVE  /\ Append(c, n) \in Seq(S)
         /\ Range(Append(c, n)) = Range(c) \cup {n}
         /\ Once(c) /\ (\A m \in Range(c) : m.key # n.key) => Once(Append(c, n))
<1> DEFINE b == <<n>>
<1>1. Append(c, n) = c \o b
  OBVIOUS
<1>2. b \in Seq(S) /\ Range(b) = {n} /\ Once(b)
  BY SingleFacts, Zenon
<1> HIDE DEF b
<1>3. /\ c \o b \in Seq(S) /\ Range(c \o b) = Range(c) \cup Range(b)
      /\ Once(c) /\ Once(b) /\ (\A m \in Range(c), l \in Range(b) : m.key # l.key) => Once(c \o b)
  BY <1>2, JoinFacts, ZenonT(30)
<1> QED
  BY <1>1, <1>2, <1>3

(* A node in front.                                                        *)
LEMMA FrontFacts ==
  ASSUME NEW S, NEW c \in Seq(S), NEW n \in S
  PROVE  /\ <<n>> \o c \in Seq(S)
         /\ Range(<<n>> \o c) = Range(c) \cup {n}
         /\ Once(c) /\ (\A m \in Range(c) : m.key # n.key) => Once(<<n>> \o c)
<1> DEFINE b == <<n>>
<1>1. b \in Seq(S) /\ Range(b) = {n} /\ Once(b)
  BY SingleFacts, Zenon
<1> HIDE DEF b
<1>2. /\ b \o c \in Seq(S) /\ Range(b \o c) = Range(b) \cup Range(c)
      /\ Once(b) /\ Once(c) /\ (\A m \in Range(b), l \in Range(c) : m.key # l.key) => Once(b \o c)
  BY <1>1, JoinFacts
<1>3. /\ b \o c \in Seq(S) /\ Range(b \o c) = Range(c) \cup {n}
      /\ Once(c) /\ (\A m \in Range(c) : m.key # n.key) => Once(b \o c)
  BY <1>1, <1>2
<1> QED
  BY <1>3, Zenon DEF b

(* A node taken out.                                                       *)
LEMMA UnlinkFacts ==
  ASSUME NEW S, NEW c \in Seq(S), NEW k \in 1..Len(c), Once(c)
  PROVE  /\ unlinked(c, k) \in Seq(S) /\ Once(unlinked(c, k))
         /\ Range(unlinked(c, k)) = Range(c) \ {c[k]}
<1> DEFINE a == SubSeq(c, 1, k - 1)
           b == SubSeq(c, k + 1, Len(c))
<1>1. Len(c) \in Nat /\ k \in Nat /\ k <= Len(c)
  OBVIOUS
<1>2. a \in Seq(S) /\ Len(a) = k - 1 /\ \A i \in 1..k-1 : a[i] = c[i]
  BY <1>1, SMTT(30)
<1>3. b \in Seq(S) /\ Len(b) = Len(c) - k /\ \A i \in 1..Len(c)-k : b[i] = c[k + i]
  BY <1>1, SMTT(30)
<1>4. unlinked(c, k) = a \o b
  BY DEF unlinked
<1> HIDE DEF a, b
<1>5. Once(a)
  BY <1>1, <1>2, SMTT(30) DEF Once
<1>6. Once(b)
  <2> SUFFICES ASSUME NEW i \in 1..Len(b), NEW j \in 1..Len(b), b[i].key = b[j].key PROVE i = j
    BY DEF Once
  <2>1. /\ k + i \in 1..Len(c) /\ b[i] = c[k + i]
        /\ k + j \in 1..Len(c) /\ b[j] = c[k + j]
    BY <1>1, <1>3
  <2>2. k + i = k + j
    BY <2>1, Zenon DEF Once
  <2> QED
    BY <1>1, <1>3, <2>2
<1>7. \A n : n \in Range(a) <=> \E i \in 1..k-1 : n = c[i]
  BY <1>2, RangeFacts
<1>8. \A n : n \in Range(b) <=> \E i \in k+1..Len(c) : n = c[i]
  <2>1. \A n : n \in Range(b) <=> \E i \in 1..Len(c)-k : n = c[k + i]
    BY <1>3, RangeFacts, SMTT(30)
  <2>2. ASSUME NEW i \in k+1..Len(c) PROVE i - k \in 1..Len(c)-k /\ k + (i - k) = i
    BY <1>1
  <2>3. ASSUME NEW i \in 1..Len(c)-k PROVE k + i \in k+1..Len(c)
    BY <1>1
  <2> QED
    BY <2>1, <2>2, <2>3, Zenon
<1>9. \A i \in 1..k-1, j \in k+1..Len(c) : c[i].key # c[j].key
  BY <1>1 DEF Once
<1>10. \A m \in Range(a), n \in Range(b) : m.key # n.key
  <2> SUFFICES ASSUME NEW m \in Range(a), NEW n \in Range(b) PROVE m.key # n.key
    OBVIOUS
  <2>1. PICK i \in 1..k-1 : m = c[i]
    BY <1>7
  <2>2. PICK j \in k+1..Len(c) : n = c[j]
    BY <1>8
  <2> QED
    BY <1>9, <2>1, <2>2
<1>11. /\ a \o b \in Seq(S) /\ Once(a \o b) /\ Range(a \o b) = Range(a) \cup Range(b)
  BY <1>2, <1>3, <1>5, <1>6, <1>10, JoinFacts, ZenonT(30)
<1>12. Range(a) \cup Range(b) = Range(c) \ {c[k]}
  <2>1. ASSUME NEW n \in Range(c) \ {c[k]} PROVE n \in Range(a) \cup Range(b)
    <3>1. PICK i \in 1..Len(c) : n = c[i] /\ i # k
      BY RangeFacts
    <3>2. i \in 1..k-1 \/ i \in k+1..Len(c)
      BY <1>1, <3>1
    <3> QED
      BY <1>7, <1>8, <3>1, <3>2
  <2>2. ASSUME NEW i \in 1..Len(c), i # k PROVE c[i] \in Range(c) \ {c[k]}
    BY <2>2, RangeFacts DEF Once
  <2>3. \A i \in 1..k-1 : i \in 1..Len(c) /\ i # k
    BY <1>1
  <2>4. \A i \in k+1..Len(c) : i \in 1..Len(c) /\ i # k
    BY <1>1
  <2> QED
    BY <1>7, <1>8, <2>1, <2>2, <2>3, <2>4
<1> QED
  BY <1>4, <1>11, <1>12

(* A node overwritten by one with the same key.                            *)
LEMMA ReplaceFacts ==
  ASSUME NEW S, NEW c \in Seq(S), NEW k \in 1..Len(c), Once(c), NEW n \in S, n.key = c[k].key,
         NEW d \in Seq(S), Len(d) = Len(c), d[k] = n, \A i \in 1..Len(c) : i # k => d[i] = c[i]
  PROVE  Once(d) /\ Range(d) = (Range(c) \ {c[k]}) \cup {n}
<1>1. /\ d \in Seq(S) /\ Len(d) = Len(c) /\ d[k] = n
      /\ \A i \in 1..Len(c) : i # k => d[i] = c[i]
  OBVIOUS
<1>2. \A i \in 1..Len(c) : d[i].key = c[i].key
  BY <1>1
<1>3. Once(d)
  BY <1>1, <1>2 DEF Once
<1>4. \A i \in 1..Len(c) : i # k => c[i] # c[k]
  BY DEF Once
<1>5. Range(d) = (Range(c) \ {c[k]}) \cup {n}
  <2>1. \A m : m \in Range(d) <=> \E i \in 1..Len(c) : m = d[i]
    BY <1>1, RangeFacts
  <2>2. \A m : m \in Range(c) <=> \E i \in 1..Len(c) : m = c[i]
    BY RangeFacts
  <2> QED
    BY <1>1, <1>4, <2>1, <2>2
<1> QED
  BY <1>1, <1>3, <1>5
-----------------------------------------------------------------------------
Node == [key : Keys, value : 1..MaxValues]

Stays(t, n) == hash[n.key] % t.size = hash[n.key] % (2 * t.size)

(* One node more of a chain that is split.                                 *)
Begun == [stay |-> <<>>, moved |-> <<>>]
SplitStep(t, chain, i, a) ==
  IF Stays(t, chain[i]) THEN [a EXCEPT !.stay = Append(@, chain[i])]
  ELSE [a EXCEPT !.moved = <<chain[i]>> \o @]

(* g has the two parts after each of the first n nodes.                    *)
Splits(g, n, t, chain) ==
  g = [i \in 0..n |-> IF i = 0 THEN Begun ELSE SplitStep(t, chain, i, g[i - 1])]

(* The walk along a chain is what its equations say.                       *)
LEMMA SplitsExist ==
  ASSUME NEW n \in Nat, NEW t, NEW chain
  PROVE  \E g : Splits(g, n, t, chain)
<1> DEFINE S == {k \in Nat : \E g : Splits(g, k, t, chain)}
<1>1. 0 \in S
  <2> DEFINE g == [i \in 0..0 |-> Begun]
  <2>1. Splits(g, 0, t, chain)
    BY DEF Splits
  <2> QED
    BY <2>1
<1>2. ASSUME NEW k \in Nat, k \in S PROVE k + 1 \in S
  <2>1. PICK f : Splits(f, k, t, chain)
    BY <1>2
  <2> DEFINE g == [i \in 0..k+1 |-> IF i <= k THEN f[i] ELSE SplitStep(t, chain, i, f[k])]
  <2>2. \A i \in 0..k : f[i] = IF i = 0 THEN Begun ELSE SplitStep(t, chain, i, f[i - 1])
    BY <2>1 DEF Splits
  <2>3. ASSUME NEW i \in 0..k+1
        PROVE  g[i] = IF i = 0 THEN Begun ELSE SplitStep(t, chain, i, g[i - 1])
    <3>1. CASE i = 0
      BY <2>2, <3>1
    <3>2. CASE i \in 1..k
      <4>1. g[i] = f[i] /\ g[i - 1] = f[i - 1]
        BY <3>2
      <4> QED
        BY <2>2, <3>2, <4>1
    <3>3. CASE i = k + 1
      <4>1. g[i] = SplitStep(t, chain, i, f[k]) /\ g[i - 1] = f[k]
        BY <3>3
      <4> QED
        BY <3>3, <4>1
    <3> QED
      BY <3>1, <3>2, <3>3
  <2>4. Splits(g, k + 1, t, chain)
    <3> DEFINE r == [i \in 0..k+1 |-> IF i = 0 THEN Begun ELSE SplitStep(t, chain, i, g[i - 1])]
    <3>1. DOMAIN g = DOMAIN r /\ \A i \in 0..k+1 : g[i] = r[i]
      BY <2>3
    <3>2. g = r
      BY <3>1
    <3> QED
      BY <3>2 DEF Splits
  <2> QED
    BY <2>4
<1> HIDE DEF S
<1>3. Nat \subseteq S
  BY <1>1, <1>2, Induction
<1> QED
  BY <1>3 DEF S

(* split() walks to the end of the chain.                                  *)
LEMMA SplitUnfolds ==
  ASSUME NEW t, NEW chain, Len(chain) \in Nat
  PROVE  \E g : Splits(g, Len(chain), t, chain) /\ split(t, chain) = g[Len(chain)]
<1> DEFINE Eq(g) == g = [i \in 0..Len(chain) |->
                           IF i = 0 THEN [stay |-> <<>>, moved |-> <<>>]
                           ELSE LET a == g[i - 1]
                                    node == chain[i]
                                IN IF hash[node.key] % t.size = hash[node.key] % (2 * t.size)
                                   THEN [a EXCEPT !.stay = Append(@, node)]
                                   ELSE [a EXCEPT !.moved = <<node>> \o @]]
           after[i \in 0..Len(chain)] ==
             IF i = 0 THEN [stay |-> <<>>, moved |-> <<>>]
             ELSE LET a == after[i - 1]
                      node == chain[i]
                  IN IF hash[node.key] % t.size = hash[node.key] % (2 * t.size)
                     THEN [a EXCEPT !.stay = Append(@, node)]
                     ELSE [a EXCEPT !.moved = <<node>> \o @]
<1>1. split(t, chain) = after[Len(chain)]
  BY DEF split
<1>2. after = CHOOSE g : Eq(g)
  OBVIOUS
<1>3. \A g : Splits(g, Len(chain), t, chain) <=> Eq(g)
  BY DEF Splits, SplitStep, Stays, Begun
<1>4. \E g : Eq(g)
  <2> HIDE DEF Eq
  <2> QED
    BY <1>3, SplitsExist, Zenon
<1> HIDE DEF after
<1>5. Eq(after)
  <2> HIDE DEF Eq
  <2> QED
    BY <1>2, <1>4, Zenon
<1> HIDE DEF Eq
<1>6. Splits(after, Len(chain), t, chain)
  BY <1>3, <1>5
<1> QED
  BY <1>1, <1>6

(* A part of a chain: its nodes, each key once.                            *)
Part(c, nodes) == c \in Seq(Node) /\ Once(c) /\ Range(c) = nodes

(* The nodes of a chain end up in one of the two parts, as their hash has  *)
(* it; none is lost and none is there twice.                               *)
LEMMA SplitFacts ==
  ASSUME NEW t, NEW chain \in Seq(Node), Once(chain)
  PROVE  /\ Part(split(t, chain).stay, {n \in Range(chain) : Stays(t, n)})
         /\ Part(split(t, chain).moved, {n \in Range(chain) : ~Stays(t, n)})
<1> DEFINE L == Len(chain)
           Upto(i) == {n \in Node : \E j \in 1..i : n = chain[j]}
           In(i) == {n \in Upto(i) : Stays(t, n)}
           Out(i) == {n \in Upto(i) : ~Stays(t, n)}
           Right(a, i) == /\ a \in [stay : Seq(Node), moved : Seq(Node)]
                          /\ Part(a.stay, In(i)) /\ Part(a.moved, Out(i))
<1>1. L \in Nat /\ \A i \in 1..L : chain[i] \in Node
  OBVIOUS
<1>2. PICK g : Splits(g, L, t, chain) /\ split(t, chain) = g[L]
  BY <1>1, SplitUnfolds
<1> DEFINE S == {i \in Nat : i <= L => Right(g[i], i)}
<1>3. 0 \in S
  <2>1. g[0] = Begun
    BY <1>1, <1>2 DEF Splits
  <2>2. Upto(0) = {}
    OBVIOUS
  <2>3. In(0) = {} /\ Out(0) = {}
    BY <2>2
  <2>4. <<>> \in Seq(Node) /\ Once(<<>>) /\ Range(<<>>) = {}
    BY DEF Once, Range
  <2> HIDE DEF In, Out
  <2>5. Right(g[0], 0)
    <3>1. g[0].stay = <<>> /\ g[0].moved = <<>> /\ g[0] \in [stay : Seq(Node), moved : Seq(Node)]
      BY <2>1, <2>4 DEF Begun
    <3>2. Part(<<>>, {})
      BY <2>4 DEF Part
    <3> QED
      BY <2>3, <3>1, <3>2, Zenon
  <2> QED
    BY <2>5
<1>4. ASSUME NEW k \in Nat, k \in S PROVE k + 1 \in S
  <2> SUFFICES ASSUME k + 1 <= L PROVE Right(g[k + 1], k + 1)
    OBVIOUS
  <2> DEFINE a == g[k]
             n == chain[k + 1]
  <2>1. Right(a, k) /\ n \in Node /\ k + 1 \in 1..L /\ k \in 0..L
    BY <1>1, <1>4
  <2>2. g[k + 1] = SplitStep(t, chain, k + 1, a)
    <3>1. g[k + 1] = IF k + 1 = 0 THEN Begun ELSE SplitStep(t, chain, k + 1, g[k + 1 - 1])
      BY <1>2, <2>1 DEF Splits
    <3>2. k + 1 # 0 /\ k + 1 - 1 = k
      OBVIOUS
    <3> QED
      BY <3>1, <3>2
  <2>3. Upto(k + 1) = Upto(k) \cup {n}
    <3>1. \A j \in 1..k+1 : j \in 1..k \/ j = k + 1
      OBVIOUS
    <3>2. 1..k \subseteq 1..k+1 /\ k + 1 \in 1..k+1
      OBVIOUS
    <3> QED
      BY <2>1, <3>1, <3>2
  <2>4. \A m \in Upto(k) : m.key # n.key
    <3> SUFFICES ASSUME NEW j \in 1..k PROVE chain[j].key # n.key
      OBVIOUS
    <3>1. j \in 1..L /\ j # k + 1
      BY <1>1
    <3> QED
      BY <2>1, <3>1 DEF Once
  <2>5. CASE Stays(t, n)
    <3>1. In(k + 1) = In(k) \cup {n} /\ Out(k + 1) = Out(k)
      BY <2>3, <2>5
    <3>2. \A m \in In(k) : m.key # n.key
      BY <2>4
    <3>3. g[k + 1] = [a EXCEPT !.stay = Append(@, n)]
      BY <2>2, <2>5 DEF SplitStep
    <3> HIDE DEF In, Out, n, a, Upto
    <3>4. Part(Append(a.stay, n), In(k) \cup {n})
      <4> DEFINE c == a.stay
      <4>1. c \in Seq(Node) /\ Once(c) /\ Range(c) = In(k) /\ n \in Node
        BY <2>1 DEF Part
      <4> HIDE DEF c
      <4>2. Append(c, n) \in Seq(Node) /\ Once(Append(c, n)) /\ Range(Append(c, n)) = Range(c) \cup {n}
        BY <3>2, <4>1, AppendFacts, ZenonT(30)
      <4>3. Part(Append(c, n), In(k) \cup {n})
        BY <4>1, <4>2 DEF Part
      <4> QED
        BY <4>3 DEF c
    <3>5. /\ g[k + 1].stay = Append(a.stay, n) /\ g[k + 1].moved = a.moved
          /\ g[k + 1] \in [stay : Seq(Node), moved : Seq(Node)]
      BY <2>1, <3>3, <3>4, Zenon DEF Part
    <3> QED
      BY <2>1, <3>1, <3>4, <3>5, Zenon
  <2>6. CASE ~Stays(t, n)
    <3>1. Out(k + 1) = Out(k) \cup {n} /\ In(k + 1) = In(k)
      BY <2>3, <2>6
    <3>2. \A m \in Out(k) : m.key # n.key
      BY <2>4
    <3>3. g[k + 1] = [a EXCEPT !.moved = <<n>> \o @]
      BY <2>2, <2>6 DEF SplitStep
    <3> HIDE DEF In, Out, n, a, Upto
    <3>4. Part(<<n>> \o a.moved, Out(k) \cup {n})
      <4> DEFINE c == a.moved
      <4>1. c \in Seq(Node) /\ Once(c) /\ Range(c) = Out(k) /\ n \in Node
        BY <2>1 DEF Part
      <4> HIDE DEF c
      <4>2. <<n>> \o c \in Seq(Node) /\ Once(<<n>> \o c) /\ Range(<<n>> \o c) = Range(c) \cup {n}
        BY <3>2, <4>1, FrontFacts
      <4>3. Part(<<n>> \o c, Out(k) \cup {n})
        BY <4>1, <4>2 DEF Part
      <4> QED
        BY <4>3 DEF c
    <3>5. /\ g[k + 1].moved = <<n>> \o a.moved /\ g[k + 1].stay = a.stay
          /\ g[k + 1] \in [stay : Seq(Node), moved : Seq(Node)]
      BY <2>1, <3>3, <3>4, Zenon DEF Part
    <3> QED
      BY <2>1, <3>1, <3>4, <3>5, Zenon
  <2> QED
    BY <2>5, <2>6
<1>5. Right(g[L], L)
  <2> HIDE DEF S
  <2>1. Nat \subseteq S
    BY <1>3, <1>4, Induction
  <2>2. L \in S
    BY <1>1, <2>1
  <2> HIDE DEF Right
  <2> QED
    BY <1>1, <2>2 DEF S
<1>6. Upto(L) = Range(chain)
  BY <1>1, RangeFacts
<1> QED
  BY <1>2, <1>5, <1>6, Zenon
-----------------------------------------------------------------------------
(* The sizes a table can have: the smallest, and twice every other.        *)
Sizes == {n \in Nat : \A S \in SUBSET Nat :
                        MIN_HTABLE_SIZE \in S /\ (\A m \in S : 2 * m \in S) => n \in S}

(* A size is the smallest one, or twice another.                           *)
LEMMA SizeFacts ==
  /\ MIN_HTABLE_SIZE \in Sizes
  /\ \A n \in Sizes : n \in Nat \ {0} /\ n >= MIN_HTABLE_SIZE /\ 2 * n \in Sizes
  /\ \A n \in Sizes : n = MIN_HTABLE_SIZE \/ \E m \in Sizes : n = 2 * m
<1>1. MIN_HTABLE_SIZE \in Nat \ {0}
  BY HashAssumption
<1>2. MIN_HTABLE_SIZE \in Sizes
  BY <1>1 DEF Sizes
<1>3. ASSUME NEW n \in Sizes PROVE 2 * n \in Sizes
  <2> SUFFICES ASSUME NEW S \in SUBSET Nat, MIN_HTABLE_SIZE \in S, \A m \in S : 2 * m \in S
               PROVE  2 * n \in S
    BY DEF Sizes
  <2>1. n \in S
    BY DEF Sizes
  <2> QED
    BY <2>1
<1>4. ASSUME NEW n \in Sizes PROVE n \in Nat \ {0} /\ n >= MIN_HTABLE_SIZE
  <2> DEFINE S == {m \in Nat : m >= MIN_HTABLE_SIZE}
  <2>1. MIN_HTABLE_SIZE \in S /\ \A m \in S : 2 * m \in S
    BY <1>1
  <2>2. S \in SUBSET Nat
    OBVIOUS
  <2>3. n \in S
    BY <2>1, <2>2, Zenon DEF Sizes
  <2> QED
    BY <1>1, <2>3
<1>5. ASSUME NEW n \in Sizes PROVE n = MIN_HTABLE_SIZE \/ \E m \in Sizes : n = 2 * m
  <2> DEFINE S == {m \in Sizes : m = MIN_HTABLE_SIZE \/ \E l \in Sizes : m = 2 * l}
  <2>1. MIN_HTABLE_SIZE \in S /\ \A m \in S : 2 * m \in S
    BY <1>2, <1>3
  <2>2. S \in SUBSET Nat
    BY <1>4
  <2>3. n \in S
    <3> HIDE DEF S
    <3> QED
      BY <2>1, <2>2 DEF Sizes
  <2> QED
    BY <2>3
<1> QED
  BY <1>2, <1>3, <1>4, <1>5

(* A record of these three fields.                                         *)
Fields(t) == t = [size |-> t.size, nitems |-> t.nitems, items |-> t.items]

(* A table whose chains are where the hashes of their keys have them.      *)
Sane(t) ==
  /\ Fields(t)
  /\ t.size \in Sizes /\ t.nitems \in Nat
  /\ t.items \in [0..(t.size - 1) -> Seq(Node)]
  /\ \A s \in 0..(t.size - 1) :
       Once(t.items[s]) /\ \A n \in Range(t.items[s]) : slot(t, n.key) = s

(* A key has one slot.                                                     *)
LEMMA SlotFacts ==
  ASSUME hash \in [Keys -> Nat], NEW t, t.size \in Sizes, NEW k \in Keys
  PROVE  /\ slot(t, k) = hash[k] % t.size /\ slot(t, k) \in 0..(t.size - 1)
         /\ t.size \in Nat \ {0} /\ hash[k] \in Nat
<1>1. t.size \in Nat \ {0} /\ hash[k] \in Nat
  BY SizeFacts
<1> QED
  BY <1>1, OneMoreBit, Zenon DEF slot

(* A node of a table is in the chain that htable_find looks at, and no     *)
(* other has its key.                                                      *)
LEMMA NodesFacts ==
  ASSUME hash \in [Keys -> Nat], NEW t, Sane(t)
  PROVE  /\ Nodes(t) \subseteq Node
         /\ \A n : n \in Nodes(t) <=> n \in Node /\ n \in Range(t.items[slot(t, n.key)])
         /\ \A m, n \in Nodes(t) : m.key = n.key => m = n
<1>1. \A n : n \in Nodes(t) <=> \E s \in 0..(t.size - 1) : n \in Range(t.items[s])
  BY DEF Nodes
<1>2. \A s \in 0..(t.size - 1) : t.items[s] \in Seq(Node) /\ Range(t.items[s]) \subseteq Node
  BY RangeFacts, Zenon DEF Sane
<1>3. ASSUME NEW n \in Nodes(t) PROVE n \in Node /\ n \in Range(t.items[slot(t, n.key)])
  BY <1>1, <1>2 DEF Sane
<1>4. ASSUME NEW n \in Node, n \in Range(t.items[slot(t, n.key)]) PROVE n \in Nodes(t)
  <2>1. n.key \in Keys
    BY DEF Node
  <2>2. slot(t, n.key) \in 0..(t.size - 1)
    BY <2>1, SlotFacts, Zenon DEF Sane
  <2> QED
    BY <1>1, <1>4, <2>2
<1>5. ASSUME NEW m \in Nodes(t), NEW n \in Nodes(t), m.key = n.key PROVE m = n
  <2> DEFINE s == slot(t, n.key)
             c == t.items[s]
  <2>1. m \in Range(c) /\ n \in Range(c)
    BY <1>3, <1>5, Zenon
  <2>2. s \in 0..(t.size - 1)
    BY <1>3, SlotFacts, Zenon DEF Sane, Node
  <2>3. c \in Seq(Node) /\ Once(c)
    BY <1>2, <2>2 DEF Sane
  <2> HIDE DEF c
  <2>4. PICK i \in 1..Len(c) : m = c[i]
    BY <2>1, <2>3, RangeFacts
  <2>5. PICK j \in 1..Len(c) : n = c[j]
    BY <2>1, <2>3, RangeFacts
  <2> QED
    BY <1>5, <2>3, <2>4, <2>5, Zenon DEF Once
<1> QED
  BY <1>3, <1>4, <1>5

(* The fields of a table of another size and other chains.                 *)
LEMMA Resized ==
  ASSUME NEW t, NEW z, NEW c,
         Fields(t)
  PROVE  [t EXCEPT !.size = z, !.items = c] = [size |-> z, nitems |-> t.nitems, items |-> c]
<1>1. ASSUME NEW a, NEW b, NEW d
      PROVE  [[size |-> a, nitems |-> b, items |-> d] EXCEPT !.size = z, !.items = c]
                = [size |-> z, nitems |-> b, items |-> c]
  <2>1. \A e \in [size : {z}, nitems : {b}, items : {c}] :
          e = [size |-> z, nitems |-> b, items |-> c]
    OBVIOUS
  <2>2. [[size |-> a, nitems |-> b, items |-> d] EXCEPT !.size = z, !.items = c]
          \in [size : {z}, nitems : {b}, items : {c}]
    BY Zenon
  <2> QED
    BY <2>1, <2>2, Zenon
<1> QED
  BY <1>1, ZenonT(30) DEF Fields

(* Growing a table leaves its nodes, each where its hash now has it.       *)
LEMMA GrowFacts ==
  ASSUME hash \in [Keys -> Nat], NEW t, Sane(t)
  PROVE  /\ Sane(grow(t)) /\ Nodes(grow(t)) = Nodes(t)
         /\ grow(t).size = 2 * t.size /\ grow(t).nitems = t.nitems
<1> DEFINE z == t.size
           r == grow(t)
<1>1. z \in Nat \ {0} /\ 2 * z \in Sizes /\ 2 * z \in Nat
  BY SizeFacts DEF Sane
<1>2. /\ r = [size |-> 2 * z, nitems |-> t.nitems, items |-> r.items]
      /\ r.size = 2 * z /\ r.nitems = t.nitems
      /\ r.items = [s \in 0..(2 * z - 1) |-> IF s < z THEN split(t, t.items[s]).stay
                                              ELSE split(t, t.items[s - z]).moved]
  <2> DEFINE c == [s \in 0..(2 * z - 1) |-> IF s < z THEN split(t, t.items[s]).stay
                                            ELSE split(t, t.items[s - z]).moved]
  <2>1. Fields(t)
    BY DEF Sane
  <2>2. r = [t EXCEPT !.size = 2 * z, !.items = c]
    BY DEF grow
  <2> HIDE DEF c, r, z
  <2>3. r = [size |-> 2 * z, nitems |-> t.nitems, items |-> c]
    BY <2>1, <2>2, Resized, Zenon
  <2>4. r.size = 2 * z /\ r.nitems = t.nitems /\ r.items = c
    BY <2>3
  <2> QED
    BY <2>3, <2>4 DEF c
<1>3. ASSUME NEW s \in 0..(z - 1)
      PROVE  /\ t.items[s] \in Seq(Node) /\ Range(t.items[s]) \subseteq Node
             /\ \A n \in Range(t.items[s]) : hash[n.key] % z = s /\ hash[n.key] \in Nat
             /\ Part(split(t, t.items[s]).stay, {n \in Range(t.items[s]) : Stays(t, n)})
             /\ Part(split(t, t.items[s]).moved, {n \in Range(t.items[s]) : ~Stays(t, n)})
  <2>1. t.items[s] \in Seq(Node) /\ Once(t.items[s])
    BY Zenon DEF Sane
  <2>2. Range(t.items[s]) \subseteq Node
    BY <2>1, RangeFacts
  <2>3. \A n \in Range(t.items[s]) : hash[n.key] % z = s /\ hash[n.key] \in Nat
    BY <2>2 DEF Sane, slot, Node
  <2> QED
    BY <2>1, <2>2, <2>3, SplitFacts, Zenon
<1> HIDE DEF r
<1>4. ASSUME NEW s \in 0..(z - 1)
      PROVE  /\ s \in 0..(2 * z - 1) /\ s + z \in 0..(2 * z - 1)
             /\ Part(r.items[s], {n \in Range(t.items[s]) : Stays(t, n)})
             /\ Part(r.items[s + z], {n \in Range(t.items[s]) : ~Stays(t, n)})
  <2>1. /\ s \in 0..(2 * z - 1) /\ s + z \in 0..(2 * z - 1) /\ s < z /\ ~(s + z < z)
        /\ (s + z) - z = s
    BY <1>1
  <2>2. r.items[s] = split(t, t.items[s]).stay /\ r.items[s + z] = split(t, t.items[s]).moved
    BY <1>2, <2>1, Zenon
  <2> QED
    BY <1>3, <2>1, <2>2, Zenon
<1>5. \A s \in 0..(2 * z - 1) : s \in 0..(z - 1) \/ (s - z \in 0..(z - 1) /\ s = (s - z) + z)
  BY <1>1
<1>6. ASSUME NEW s \in 0..(2 * z - 1)
      PROVE  /\ r.items[s] \in Seq(Node) /\ Once(r.items[s])
             /\ \A n \in Range(r.items[s]) : hash[n.key] % (2 * z) = s
  <2>1. CASE s \in 0..(z - 1)
    <3>1. Part(r.items[s], {n \in Range(t.items[s]) : Stays(t, n)})
      BY <1>4, <2>1, Zenon
    <3> QED
      BY <1>3, <2>1, <3>1 DEF Part, Stays
  <2>2. CASE s - z \in 0..(z - 1) /\ s = (s - z) + z
    <3> DEFINE l == s - z
    <3>1. l \in 0..(z - 1) /\ s = l + z
      BY <2>2
    <3> HIDE DEF l
    <3>2. Part(r.items[s], {n \in Range(t.items[l]) : ~Stays(t, n)})
      BY <1>4, <3>1, Zenon
    <3>3. ASSUME NEW n \in Range(r.items[s]) PROVE hash[n.key] % (2 * z) = s
      <4>1. n \in Range(t.items[l]) /\ ~Stays(t, n)
        BY <3>2 DEF Part
      <4>2. hash[n.key] % z = l /\ hash[n.key] \in Nat
        BY <1>3, <3>1, <4>1, Zenon
      <4>3. hash[n.key] % (2 * z) # hash[n.key] % z
        BY <4>1 DEF Stays
      <4>4. hash[n.key] % (2 * z) = (hash[n.key] % z) + z
        BY <1>1, <4>2, <4>3, OneMoreBit, Zenon
      <4> QED
        BY <3>1, <4>2, <4>4, Zenon
    <3> QED
      BY <3>2, <3>3 DEF Part
  <2> QED
    BY <1>5, <2>1, <2>2, Zenon
<1>7. Sane(r)
  <2>1. r.items \in [0..(2 * z - 1) -> Seq(Node)]
    BY <1>2, <1>6, Zenon
  <2>2. t.nitems \in Nat
    BY DEF Sane
  <2>3. \A n : slot(r, n) = hash[n] % (2 * z)
    BY <1>2 DEF slot
  <2>4. Fields(r)
    BY <1>2 DEF Fields
  <2>5. \A s \in 0..(2 * z - 1) :
          Once(r.items[s]) /\ \A n \in Range(r.items[s]) : slot(r, n.key) = s
    BY <1>6, <2>3, Zenon
  <2>6. r.size = 2 * z /\ r.nitems = t.nitems
    BY <1>2, ZenonT(30)
  <2> HIDE DEF z
  <2> QED
    BY <1>1, <2>1, <2>2, <2>4, <2>5, <2>6, Zenon DEF Sane
<1>8. \A n : n \in Nodes(r) <=> \E s \in 0..(2 * z - 1) : n \in Range(r.items[s])
  BY <1>2 DEF Nodes
<1>9. \A n : n \in Nodes(t) <=> \E s \in 0..(z - 1) : n \in Range(t.items[s])
  BY DEF Nodes
<1>10. ASSUME NEW n \in Nodes(r) PROVE n \in Nodes(t)
  <2>1. PICK s \in 0..(2 * z - 1) : n \in Range(r.items[s])
    BY <1>8, Zenon
  <2>2. CASE s \in 0..(z - 1)
    BY <1>4, <1>9, <2>1, <2>2, Zenon DEF Part
  <2>3. CASE s - z \in 0..(z - 1) /\ s = (s - z) + z
    <3>1. Part(r.items[s], {m \in Range(t.items[s - z]) : ~Stays(t, m)})
      BY <1>4, <2>3, Zenon
    <3> QED
      BY <1>9, <2>1, <2>3, <3>1, Zenon DEF Part
  <2> QED
    BY <1>5, <2>2, <2>3
<1>11. ASSUME NEW n \in Nodes(t) PROVE n \in Nodes(r)
  <2>1. PICK s \in 0..(z - 1) : n \in Range(t.items[s])
    BY <1>9
  <2>2. n \in Range(r.items[s]) \/ n \in Range(r.items[s + z])
    BY <1>4, <2>1, Zenon DEF Part
  <2> QED
    BY <1>4, <1>8, <2>1, <2>2, Zenon
<1> QED
  BY <1>2, <1>7, <1>10, <1>11, Zenon DEF r

(* Shrinking leaves them, too.                                             *)
LEMMA ShrinkFacts ==
  ASSUME hash \in [Keys -> Nat], NEW t, Sane(t), NEW z \in Sizes, t.size = 2 * z
  PROVE  /\ Sane(shrink(t)) /\ Nodes(shrink(t)) = Nodes(t)
         /\ shrink(t).size = z /\ shrink(t).nitems = t.nitems
<1> DEFINE r == shrink(t)
<1>1. z \in Nat \ {0} /\ t.size \div 2 = z
  BY SizeFacts
<1>2. /\ r = [size |-> z, nitems |-> t.nitems, items |-> r.items]
      /\ r.size = z /\ r.nitems = t.nitems
      /\ r.items = [s \in 0..(z - 1) |-> t.items[s] \o t.items[s + z]]
  <2> DEFINE c == [s \in 0..(z - 1) |-> t.items[s] \o t.items[s + z]]
  <2>1. Fields(t)
    BY DEF Sane
  <2>2. r = [t EXCEPT !.size = z, !.items = c]
    BY <1>1, Zenon DEF shrink
  <2> HIDE DEF c, r
  <2>3. r = [size |-> z, nitems |-> t.nitems, items |-> c]
    BY <2>1, <2>2, Resized, Zenon
  <2>4. r.size = z /\ r.nitems = t.nitems /\ r.items = c
    BY <2>3, Zenon
  <2> QED
    BY <2>3, <2>4 DEF c
<1> HIDE DEF r
<1>3. ASSUME NEW s \in 0..(2 * z - 1)
      PROVE  /\ t.items[s] \in Seq(Node) /\ Once(t.items[s]) /\ Range(t.items[s]) \subseteq Node
             /\ \A n \in Range(t.items[s]) : hash[n.key] % (2 * z) = s /\ hash[n.key] \in Nat
  <2>1. t.items[s] \in Seq(Node) /\ Once(t.items[s])
    BY Zenon DEF Sane
  <2>2. Range(t.items[s]) \subseteq Node
    BY <2>1, RangeFacts, Zenon
  <2> QED
    BY <2>1, <2>2 DEF Sane, slot, Node
<1>4. ASSUME NEW s \in 0..(z - 1)
      PROVE  /\ s \in 0..(2 * z - 1) /\ s + z \in 0..(2 * z - 1) /\ s + z # s
             /\ r.items[s] \in Seq(Node) /\ Once(r.items[s])
             /\ Range(r.items[s]) = Range(t.items[s]) \cup Range(t.items[s + z])
  <2>1. s \in 0..(2 * z - 1) /\ s + z \in 0..(2 * z - 1) /\ s + z # s
    BY <1>1
  <2>2. r.items[s] = t.items[s] \o t.items[s + z]
    BY <1>2, Zenon
  <2>3. \A m \in Range(t.items[s]), n \in Range(t.items[s + z]) : m.key # n.key
    BY <1>3, <2>1, Zenon
  <2>4. /\ t.items[s] \in Seq(Node) /\ Once(t.items[s])
        /\ t.items[s + z] \in Seq(Node) /\ Once(t.items[s + z])
    BY <1>3, <2>1
  <2> QED
    BY <2>1, <2>2, <2>3, <2>4, JoinFacts
<1>5. ASSUME NEW s \in 0..(z - 1), NEW n \in Range(r.items[s]) PROVE hash[n.key] % z = s
  <2>1. /\ hash[n.key] % (2 * z) = s \/ hash[n.key] % (2 * z) = s + z
        /\ hash[n.key] \in Nat
    BY <1>3, <1>4, ZenonT(30)
  <2> DEFINE h == hash[n.key]
  <2> HIDE DEF h
  <2>2. (h % z) \in 0..(z - 1) /\ (h % (2 * z) = h % z \/ h % (2 * z) = (h % z) + z)
    BY <1>1, <2>1, OneMoreBit, Zenon DEF h
  <2>3. h % (2 * z) = s \/ h % (2 * z) = s + z
    BY <2>1 DEF h
  <2>4. h % z = s
    BY <1>1, <2>2, <2>3
  <2> QED
    BY <2>4 DEF h
<1>6. Sane(r)
  <2>1. r.items \in [0..(z - 1) -> Seq(Node)]
    BY <1>2, <1>4
  <2>2. t.nitems \in Nat
    BY DEF Sane
  <2>3. \A n : slot(r, n) = hash[n] % z
    BY <1>2 DEF slot
  <2>4. Fields(r)
    BY <1>2, Zenon DEF Fields
  <2>5. \A s \in 0..(z - 1) :
          Once(r.items[s]) /\ \A n \in Range(r.items[s]) : slot(r, n.key) = s
    BY <1>4, <1>5, <2>3, ZenonT(30)
  <2>6. r.size = z /\ r.nitems = t.nitems
    BY <1>2, Zenon
  <2> QED
    BY <1>1, <2>1, <2>2, <2>4, <2>5, <2>6 DEF Sane
<1>7. \A n : n \in Nodes(r) <=> \E s \in 0..(z - 1) : n \in Range(r.items[s])
  BY <1>2 DEF Nodes
<1>8. \A n : n \in Nodes(t) <=> \E s \in 0..(2 * z - 1) : n \in Range(t.items[s])
  BY DEF Nodes
<1>9. ASSUME NEW n \in Nodes(r) PROVE n \in Nodes(t)
  BY <1>4, <1>7, <1>8, ZenonT(30)
<1>10. ASSUME NEW n \in Nodes(t) PROVE n \in Nodes(r)
  <2>1. PICK s \in 0..(2 * z - 1) : n \in Range(t.items[s])
    BY <1>8
  <2>2. CASE s \in 0..(z - 1)
    BY <1>4, <1>7, <2>1, <2>2, Zenon
  <2>3. CASE s \notin 0..(z - 1)
    <3>1. s - z \in 0..(z - 1) /\ (s - z) + z = s
      BY <1>1, <2>3
    <3> QED
      BY <1>4, <1>7, <2>1, <3>1, Zenon
  <2> QED
    BY <2>2, <2>3
<1> QED
  BY <1>2, <1>6, <1>9, <1>10, Zenon DEF r

(* What every resize leaves: no more nodes than slots, and a table more    *)
(* than half full unless it is of the smallest size.                       *)
Balanced(t) ==
  t.nitems <= t.size /\ (t.size # MIN_HTABLE_SIZE => t.nitems > t.size \div 2)

(* One node more or less than that and a resize makes it so again, with    *)
(* the nodes as they were.                                                 *)
LEMMA ResizeFacts ==
  ASSUME hash \in [Keys -> Nat], NEW t, Sane(t), t.nitems <= t.size + 1,
         t.size # MIN_HTABLE_SIZE => t.nitems >= t.size \div 2
  PROVE  LET r == _htable_resize(t) IN
         Sane(r) /\ Balanced(r) /\ Nodes(r) = Nodes(t) /\ r.nitems = t.nitems
<1> DEFINE M == MIN_HTABLE_SIZE
           z == t.size
           n == t.nitems
           r == _htable_resize(t)
<1>1. M \in Nat \ {0} /\ z \in Nat \ {0} /\ n \in Nat /\ z >= M
  BY SizeFacts, HashAssumption, Zenon DEF Sane
<1>2. z = M \/ \E m \in Sizes : z = 2 * m /\ m \in Nat /\ m >= M
  BY SizeFacts DEF Sane
<1>3. CASE n < M
  <2>1. r = t
    <3>1. ~(n >= M)
      BY <1>1, <1>3
    <3> HIDE DEF M, n
    <3> QED
      BY <1>3, <3>1, Zenon DEF _htable_resize, M, n
  <2>2. z = M
    BY <1>1, <1>2, <1>3
  <2>3. Balanced(t)
    BY <1>1, <1>3, <2>2 DEF Balanced
  <2> QED
    BY <2>1, <2>3
<1>4. CASE n >= M /\ n > z
  <2>1. r = grow(t)
    BY <1>1, <1>4 DEF _htable_resize
  <2>2. Sane(r) /\ Nodes(r) = Nodes(t) /\ r.size = 2 * z /\ r.nitems = n
    BY <2>1, GrowFacts
  <2>3. n <= 2 * z /\ n > (2 * z) \div 2
    BY <1>1, <1>4
  <2> QED
    BY <2>2, <2>3 DEF Balanced
<1>5. CASE n >= M /\ n <= z /\ n <= z \div 2
  <2>1. r = shrink(t)
    BY <1>1, <1>5 DEF _htable_resize
  <2>2. PICK m \in Sizes : z = 2 * m /\ m \in Nat /\ m >= M
    BY <1>1, <1>2, <1>5
  <2>3. Sane(r) /\ Nodes(r) = Nodes(t) /\ r.size = m /\ r.nitems = n
    BY <2>1, <2>2, ShrinkFacts
  <2>4. n <= m /\ n > m \div 2
    <3>1. z \div 2 = m /\ m > 0 /\ z # M
      BY <1>1, <2>2
    <3>2. n = m
      BY <1>1, <1>5, <2>2, <3>1
    <3> QED
      BY <2>2, <3>1, <3>2
  <2> QED
    BY <2>3, <2>4 DEF Balanced
<1>6. CASE n >= M /\ n <= z /\ ~(n <= z \div 2)
  <2>1. r = t
    BY <1>1, <1>6 DEF _htable_resize
  <2>2. n > z \div 2
    BY <1>1, <1>6
  <2> QED
    BY <1>6, <2>1, <2>2 DEF Balanced
<1> QED
  BY <1>1, <1>3, <1>4, <1>5, <1>6

(* A table with one chain changed.                                         *)
Rehang(t, s, c, i) ==
  [size |-> t.size, nitems |-> i, items |-> [t.items EXCEPT ![s] = c]]

(* It is sane if the nodes of that chain belong there.                     *)
LEMMA Rehung ==
  ASSUME hash \in [Keys -> Nat], NEW t, Sane(t), NEW s \in 0..(t.size - 1),
         NEW c \in Seq(Node), Once(c), \A n \in Range(c) : slot(t, n.key) = s,
         NEW i \in Nat
  PROVE  LET u == Rehang(t, s, c, i) IN
         /\ Sane(u) /\ u.size = t.size /\ u.nitems = i
         /\ Nodes(u) = (Nodes(t) \ Range(t.items[s])) \cup Range(c)
<1> DEFINE u == Rehang(t, s, c, i)
           z == t.size
<1>1. u.size = z /\ u.nitems = i /\ u.items = [t.items EXCEPT ![s] = c]
  BY DEF Rehang
<1>2. t.items \in [0..(z - 1) -> Seq(Node)] /\ z \in Sizes
  BY DEF Sane
<1>3. /\ u.items \in [0..(z - 1) -> Seq(Node)] /\ u.items[s] = c
      /\ \A q \in 0..(z - 1) : q # s => u.items[q] = t.items[q]
  BY <1>1, <1>2, Zenon
<1>4. \A k : slot(u, k) = slot(t, k)
  BY <1>1, Zenon DEF slot
<1>5. \A q \in 0..(z - 1) :
        Once(u.items[q]) /\ \A n \in Range(u.items[q]) : slot(u, n.key) = q
  BY <1>3, <1>4, Zenon DEF Sane
<1>6. Fields(u)
  BY <1>1, Zenon DEF Fields, Rehang
<1> HIDE DEF u
<1>7. Sane(u)
  BY <1>1, <1>2, <1>3, <1>5, <1>6, Zenon DEF Sane
<1>8. \A n : n \in Nodes(u) <=> \E q \in 0..(z - 1) : n \in Range(u.items[q])
  BY <1>1 DEF Nodes
<1>9. \A n : n \in Nodes(t) <=> \E q \in 0..(z - 1) : n \in Range(t.items[q])
  BY DEF Nodes
<1>10. \A q \in 0..(z - 1) : \A n \in Range(t.items[q]) : n \in Range(t.items[s]) => q = s
  BY ZenonT(30) DEF Sane
<1>11. ASSUME NEW n
       PROVE  n \in Nodes(u) <=> n \in (Nodes(t) \ Range(t.items[s])) \cup Range(c)
  <2> HIDE DEF z
  <2>1. s \in 0..(z - 1)
    BY DEF z
  <2> QED
    BY <1>3, <1>8, <1>9, <1>10, <2>1, Zenon
<1> QED
  BY <1>1, <1>7, <1>11, Zenon DEF u

(* htable_find: a key that is in the table is found, with its value, and   *)
(* no other is.                                                            *)
LEMMA LookupFacts ==
  ASSUME hash \in [Keys -> Nat], NEW t, Sane(t), NEW k \in Keys
  PROVE  LET s == slot(t, k)
             c == t.items[s]
             at == place(c, k)
         IN /\ s \in 0..(t.size - 1) /\ c \in Seq(Node) /\ Once(c)
            /\ \A n \in Range(c) : slot(t, n.key) = s
            /\ at = {} <=> \A n \in Nodes(t) : n.key # k
            /\ at = {} => htable_find(t, k) = 0 /\ \A n \in Range(c) : n.key # k
            /\ at # {} => /\ Min(at) \in 1..Len(c) /\ c[Min(at)].key = k
                          /\ c[Min(at)] \in Nodes(t) /\ c[Min(at)] \in Range(c)
                          /\ htable_find(t, k) = c[Min(at)].value
<1> DEFINE s == slot(t, k)
           c == t.items[s]
           at == place(c, k)
<1>1. s \in 0..(t.size - 1)
  BY SlotFacts DEF Sane
<1>2. c \in Seq(Node) /\ Once(c) /\ \A n \in Range(c) : slot(t, n.key) = s
  BY <1>1, Zenon DEF Sane
<1>3. at = {j \in 1..Len(c) : c[j].key = k}
  BY <1>2 DEF place
<1>4. \A n : n \in Range(c) <=> \E j \in 1..Len(c) : n = c[j]
  BY <1>2, RangeFacts
<1>5. \A n \in Nodes(t) : n.key = k => n \in Range(c)
  BY NodesFacts
<1>6. \A n \in Range(c) : n \in Nodes(t)
  BY <1>1 DEF Nodes
<1>7. htable_find(t, k) = IF at = {} THEN 0 ELSE c[Min(at)].value
  BY DEF htable_find
<1> HIDE DEF at, c, s
<1>8. at = {} <=> \A n \in Nodes(t) : n.key # k
  BY <1>3, <1>4, <1>5, <1>6, Zenon
<1>9. ASSUME at # {} PROVE Min(at) \in at
  <2>1. PICK j \in at : TRUE
    BY <1>9
  <2>2. \A i \in at : i = j
    BY <1>2, <1>3 DEF Once
  <2>3. \A i \in at : j <= i
    BY <1>3, <2>2
  <2> QED
    BY <2>1, <2>3 DEF Min
<1>10. at = {} => \A n \in Range(c) : n.key # k
  BY <1>3, <1>4
<1> QED
  BY <1>1, <1>2, <1>3, <1>4, <1>6, <1>7, <1>8, <1>9, <1>10, ZenonT(30) DEF at, c, s

(* A node replaced, put in or taken out.                                   *)
Replaced(t, s, i, x) == [t EXCEPT !.items[s][i] = x]
PutIn(t, s, x) == [t EXCEPT !.nitems = @ + 1, !.items[s] = <<x>> \o @]
TakenOut(t, s, k) == [t EXCEPT !.nitems = @ - 1, !.items[s] = unlinked(@, Min(place(@, k)))]

(* Each changes one chain.                                                 *)
LEMMA Touched ==
  ASSUME NEW t, NEW s, NEW i, NEW x, Fields(t)
  PROVE  /\ Replaced(t, s, i, x) = Rehang(t, s, [t.items[s] EXCEPT ![i] = x], t.nitems)
         /\ PutIn(t, s, x) = Rehang(t, s, <<x>> \o t.items[s], t.nitems + 1)
         /\ TakenOut(t, s, x)
              = Rehang(t, s, unlinked(t.items[s], Min(place(t.items[s], x))), t.nitems - 1)
<1>1. \A a, b, d : \A e \in [size : {a}, nitems : {b}, items : {d}] :
        e = [size |-> a, nitems |-> b, items |-> d]
  OBVIOUS
<1>2. ASSUME NEW a, NEW b, NEW d, t = [size |-> a, nitems |-> b, items |-> d]
      PROVE  /\ [t EXCEPT !.items[s][i] = x]
                  = [size |-> a, nitems |-> b,
                     items |-> [d EXCEPT ![s] = [d[s] EXCEPT ![i] = x]]]
             /\ [t EXCEPT !.nitems = @ + 1, !.items[s] = <<x>> \o @]
                  = [size |-> a, nitems |-> b + 1, items |-> [d EXCEPT ![s] = <<x>> \o d[s]]]
             /\ [t EXCEPT !.nitems = @ - 1, !.items[s] = unlinked(@, Min(place(@, x)))]
                  = [size |-> a, nitems |-> b - 1,
                     items |-> [d EXCEPT ![s] = unlinked(d[s], Min(place(d[s], x)))]]
  <2>1. [[size |-> a, nitems |-> b, items |-> d] EXCEPT !.items[s][i] = x]
          \in [size : {a}, nitems : {b}, items : {[d EXCEPT ![s] = [d[s] EXCEPT ![i] = x]]}]
    OBVIOUS
  <2>2. [[size |-> a, nitems |-> b, items |-> d] EXCEPT !.nitems = @ + 1, !.items[s] = <<x>> \o @]
          \in [size : {a}, nitems : {b + 1}, items : {[d EXCEPT ![s] = <<x>> \o d[s]]}]
    BY Zenon
  <2>3. [[size |-> a, nitems |-> b, items |-> d] EXCEPT
           !.nitems = @ - 1, !.items[s] = unlinked(@, Min(place(@, x)))]
          \in [size : {a}, nitems : {b - 1},
               items : {[d EXCEPT ![s] = unlinked(d[s], Min(place(d[s], x)))]}]
    BY Zenon
  <2>4. /\ [[size |-> a, nitems |-> b, items |-> d] EXCEPT !.items[s][i] = x]
             = [size |-> a, nitems |-> b, items |-> [d EXCEPT ![s] = [d[s] EXCEPT ![i] = x]]]
        /\ [[size |-> a, nitems |-> b, items |-> d] EXCEPT !.nitems = @ + 1, !.items[s] = <<x>> \o @]
             = [size |-> a, nitems |-> b + 1, items |-> [d EXCEPT ![s] = <<x>> \o d[s]]]
        /\ [[size |-> a, nitems |-> b, items |-> d] EXCEPT
              !.nitems = @ - 1, !.items[s] = unlinked(@, Min(place(@, x)))]
             = [size |-> a, nitems |-> b - 1,
                items |-> [d EXCEPT ![s] = unlinked(d[s], Min(place(d[s], x)))]]
    BY <1>1, <2>1, <2>2, <2>3, Zenon
  <2> QED
    BY <1>2, <2>4, Zenon
<1> QED
  BY <1>2, Zenon DEF Fields, Replaced, PutIn, TakenOut, Rehang

(* What a table is between two calls: balanced, its nodes counted.         *)
Right(t) ==
  /\ Sane(t) /\ Balanced(t)
  /\ IsFiniteSet(Nodes(t)) /\ t.nitems = Cardinality(Nodes(t))

(* htable_create: a table with no nodes.                                   *)
LEMMA CreateFacts ==
  Right(htable_create) /\ Nodes(htable_create) = {}
<1> DEFINE t == htable_create
           M == MIN_HTABLE_SIZE
<1>1. /\ t.size = M /\ t.nitems = 0 /\ t.items = [s \in 0..(M - 1) |-> <<>>]
      /\ Fields(t)
  BY DEF htable_create, Fields
<1>2. M \in Sizes /\ M \in Nat
  BY SizeFacts, HashAssumption
<1>3. \A s \in 0..(M - 1) : Range(t.items[s]) = {} /\ Once(t.items[s])
  BY <1>1 DEF Range, Once
<1>4. t.items \in [0..(M - 1) -> Seq(Node)]
  BY <1>1
<1> HIDE DEF t
<1>5. Sane(t)
  BY <1>1, <1>2, <1>3, <1>4 DEF Sane
<1>6. Nodes(t) = {}
  BY <1>1, <1>3 DEF Nodes
<1>7. Balanced(t)
  BY <1>1, <1>2 DEF Balanced
<1> QED
  BY <1>1, <1>5, <1>6, <1>7, FS_EmptySet, Zenon DEF Right, t

(* htable_insert: the key has the value then, and no other is touched.     *)
LEMMA InsertFacts ==
  ASSUME hash \in [Keys -> Nat], NEW t, Right(t), NEW k \in Keys, NEW v \in 1..MaxValues
  PROVE  LET r == htable_insert(t, k, v) IN
         /\ Right(r)
         /\ Nodes(r) = {n \in Nodes(t) : n.key # k} \cup {[key |-> k, value |-> v]}
<1> DEFINE s == slot(t, k)
           c == t.items[s]
           at == place(c, k)
           m == Min(at)
           x == [key |-> k, value |-> v]
           r == htable_insert(t, k, v)
           N == Nodes(t)
           u == PutIn(t, s, x)
<1>1. /\ Sane(t) /\ Balanced(t) /\ IsFiniteSet(N) /\ t.nitems = Cardinality(N)
      /\ Fields(t) /\ t.nitems \in Nat
      /\ t.size \in Nat
  BY SizeFacts DEF Right, Sane
<1>2. x \in Node /\ x.key = k
  BY SMTT(30) DEF Node
<1>3. /\ s \in 0..(t.size - 1) /\ c \in Seq(Node) /\ Once(c)
      /\ \A n \in Range(c) : slot(t, n.key) = s
      /\ at = {} <=> \A n \in N : n.key # k
      /\ at = {} => \A n \in Range(c) : n.key # k
      /\ at # {} => m \in 1..Len(c) /\ c[m].key = k /\ c[m] \in N /\ c[m] \in Range(c)
  BY <1>1, LookupFacts, Zenon
<1>4. r = IF at # {} THEN Replaced(t, s, m, x) ELSE _htable_resize(u)
  BY DEF htable_insert, Replaced, PutIn
<1>5. /\ Replaced(t, s, m, x) = Rehang(t, s, [c EXCEPT ![m] = x], t.nitems)
      /\ u = Rehang(t, s, <<x>> \o c, t.nitems + 1)
  <2> HIDE DEF s, m, x
  <2> QED
    BY <1>1, Touched, ZenonT(30)
<1>6. slot(t, x.key) = s
  BY <1>2
<1>7. \A a \in N, b \in N : a.key = b.key => a = b
  BY <1>1, NodesFacts
<1>8. Range(c) \subseteq N
  BY <1>3 DEF Nodes
<1> HIDE DEF s, c, at, m, x, r, u, N
<1>9. CASE at # {}
  <2> DEFINE d == [c EXCEPT ![m] = x]
             o == c[m]
  <2>1. m \in 1..Len(c) /\ o.key = k /\ o \in N /\ o \in Range(c)
    BY <1>3, <1>9
  <2>2. d \in Seq(Node) /\ Once(d) /\ Range(d) = (Range(c) \ {o}) \cup {x}
    <3>1. x.key = c[m].key
      BY <1>2, <2>1, Zenon
    <3>2. x \in Node /\ c \in Seq(Node) /\ Once(c) /\ m \in 1..Len(c)
      BY <1>2, <1>3, <2>1, Zenon
    <3>3. /\ d \in Seq(Node) /\ Len(d) = Len(c) /\ d[m] = x
          /\ \A i \in 1..Len(c) : i # m => d[i] = c[i]
      BY <3>2
    <3> HIDE DEF d
    <3> QED
      BY <3>1, <3>2, <3>3, ReplaceFacts
  <2>3. r = Rehang(t, s, d, t.nitems)
    BY <1>4, <1>5, <1>9, Zenon
  <2> HIDE DEF d, o
  <2>4. \A n \in Range(d) : slot(t, n.key) = s
    BY <1>3, <1>6, <2>2, Zenon
  <2>5. /\ Sane(r) /\ r.size = t.size /\ r.nitems = t.nitems
        /\ Nodes(r) = (N \ Range(c)) \cup Range(d)
    <3> DEFINE j == t.nitems
    <3>1. j \in Nat /\ Sane(t) /\ s \in 0..(t.size - 1)
      BY <1>1, <1>3
    <3>2. d \in Seq(Node) /\ Once(d)
      BY <2>2
    <3>3. r = Rehang(t, s, d, j)
      BY <2>3, Zenon
    <3> HIDE DEF j
    <3>4. /\ Sane(r) /\ r.size = t.size /\ r.nitems = j
          /\ Nodes(r) = (Nodes(t) \ Range(t.items[s])) \cup Range(d)
      BY <2>4, <3>1, <3>2, <3>3, Rehung
    <3> QED
      BY <3>4 DEF N, c, j
  <2>6. \A n \in N : n.key # k <=> n # o
    BY <1>7, <2>1, Zenon
  <2>7. Nodes(r) = (N \ {o}) \cup {x}
    BY <1>8, <2>1, <2>2, <2>5, Zenon
  <2>8. Nodes(r) = {n \in N : n.key # k} \cup {x}
    BY <2>6, <2>7, Zenon
  <2>9. IsFiniteSet(N \ {o}) /\ Cardinality(N \ {o}) = Cardinality(N) - 1
    BY <1>1, <2>1, FS_RemoveElement, Zenon
  <2>10. x \notin N \ {o}
    BY <1>2, <2>6, Zenon
  <2>11. IsFiniteSet(Nodes(r)) /\ Cardinality(Nodes(r)) = Cardinality(N \ {o}) + 1
    BY <2>7, <2>9, <2>10, FS_AddElement
  <2>12. r.nitems = Cardinality(Nodes(r))
    BY <1>1, <2>5, <2>9, <2>11
  <2>13. Balanced(r)
    BY <1>1, <2>5, Zenon DEF Balanced
  <2> QED
    BY <2>5, <2>8, <2>11, <2>12, <2>13 DEF Right, r, x, N
<1>10. CASE at = {}
  <2> DEFINE d == <<x>> \o c
  <2>1. (\A n \in N : n.key # k) /\ (\A n \in Range(c) : n.key # x.key)
    BY <1>2, <1>3, <1>10, Zenon
  <2>2. d \in Seq(Node) /\ Once(d) /\ Range(d) = Range(c) \cup {x}
    BY <1>2, <1>3, <2>1, FrontFacts, ZenonT(30)
  <2>3. u = Rehang(t, s, d, t.nitems + 1)
    BY <1>5, Zenon
  <2> HIDE DEF d
  <2>4. \A n \in Range(d) : slot(t, n.key) = s
    BY <1>3, <1>6, <2>2, Zenon
  <2>5. /\ Sane(u) /\ u.size = t.size /\ u.nitems = t.nitems + 1
        /\ Nodes(u) = (N \ Range(c)) \cup Range(d)
    <3> DEFINE j == t.nitems + 1
    <3>1. j \in Nat /\ Sane(t) /\ s \in 0..(t.size - 1)
      BY <1>1, <1>3
    <3>2. d \in Seq(Node) /\ Once(d)
      BY <2>2
    <3>3. u = Rehang(t, s, d, j)
      BY <2>3, Zenon
    <3> HIDE DEF j
    <3>4. /\ Sane(u) /\ u.size = t.size /\ u.nitems = j
          /\ Nodes(u) = (Nodes(t) \ Range(t.items[s])) \cup Range(d)
      BY <2>4, <3>1, <3>2, <3>3, Rehung
    <3> QED
      BY <3>4, Zenon DEF N, c, j
  <2>6. Nodes(u) = N \cup {x}
    BY <1>8, <2>2, <2>5, Zenon
  <2>7. u.nitems <= u.size + 1 /\ (u.size # MIN_HTABLE_SIZE => u.nitems >= u.size \div 2)
    BY <1>1, <2>5 DEF Balanced
  <2>8. r = _htable_resize(u)
    BY <1>4, <1>10, Zenon
  <2>9. Sane(r) /\ Balanced(r) /\ Nodes(r) = Nodes(u) /\ r.nitems = u.nitems
    BY <2>5, <2>7, <2>8, ResizeFacts, Zenon
  <2>10. N = {n \in N : n.key # k} /\ x \notin N
    BY <1>2, <2>1, Zenon
  <2>11. IsFiniteSet(N \cup {x}) /\ Cardinality(N \cup {x}) = Cardinality(N) + 1
    BY <1>1, <2>10, FS_AddElement, Zenon
  <2>12. Nodes(r) = {n \in N : n.key # k} \cup {x}
    BY <2>6, <2>9, <2>10
  <2> QED
    BY <1>1, <2>5, <2>6, <2>9, <2>11, <2>12, Zenon DEF Right, r, x, N
<1> QED
  BY <1>9, <1>10, Zenon DEF r, x, N

(* htable_remove: the key is gone, and no other is touched.                *)
LEMMA RemoveFacts ==
  ASSUME hash \in [Keys -> Nat], NEW t, Right(t), NEW k \in Keys,
         place(t.items[slot(t, k)], k) # {}
  PROVE  LET r == htable_remove(t, k) IN
         Right(r) /\ Nodes(r) = {n \in Nodes(t) : n.key # k}
<1> DEFINE s == slot(t, k)
           c == t.items[s]
           at == place(c, k)
           m == Min(at)
           r == htable_remove(t, k)
           N == Nodes(t)
           u == TakenOut(t, s, k)
           d == unlinked(c, m)
           o == c[m]
           j == t.nitems - 1
<1>1. /\ Sane(t) /\ Balanced(t) /\ IsFiniteSet(N) /\ t.nitems = Cardinality(N)
      /\ Fields(t) /\ t.nitems \in Nat /\ t.size \in Nat
  BY SizeFacts, SMTT(30) DEF Right, Sane
<1>2. /\ s \in 0..(t.size - 1) /\ c \in Seq(Node) /\ Once(c)
      /\ \A n \in Range(c) : slot(t, n.key) = s
      /\ m \in 1..Len(c) /\ o.key = k /\ o \in N /\ o \in Range(c)
  BY <1>1, LookupFacts, ZenonT(30)
<1>3. r = _htable_resize(u)
  BY DEF htable_remove, TakenOut
<1>4. u = Rehang(t, s, d, j)
  <2> HIDE DEF s
  <2> QED
    BY <1>1, Touched, Zenon
<1>5. \A a \in N, b \in N : a.key = b.key => a = b
  BY <1>1, NodesFacts, Zenon
<1>6. Range(c) \subseteq N
  BY <1>2, Zenon DEF Nodes
<1>7. d \in Seq(Node) /\ Once(d) /\ Range(d) = Range(c) \ {o}
  <2> HIDE DEF s, c, m
  <2> QED
    BY <1>2, UnlinkFacts, Zenon
<1>8. IsFiniteSet(N \ {o}) /\ Cardinality(N \ {o}) = Cardinality(N) - 1
      /\ Cardinality(N \ {o}) \in Nat
  <2> HIDE DEF N, o
  <2> QED
    BY <1>1, <1>2, FS_RemoveElement, FS_CardinalityType, Zenon
<1>9. j \in Nat
  BY <1>1, <1>8, Zenon
<1> HIDE DEF s, c, at, m, d, o, u, r, N, j
<1>10. \A n \in Range(d) : slot(t, n.key) = s
  BY <1>2, <1>7, ZenonT(30)
<1>11. /\ Sane(u) /\ u.size = t.size /\ u.nitems = j
       /\ Nodes(u) = (Nodes(t) \ Range(t.items[s])) \cup Range(d)
  BY <1>1, <1>2, <1>4, <1>7, <1>9, <1>10, Rehung, SMTT(30)
<1>12. Nodes(u) = N \ {o}
  BY <1>2, <1>6, <1>7, <1>11, Zenon DEF N, c
<1>13. u.nitems <= u.size + 1 /\ (u.size # MIN_HTABLE_SIZE => u.nitems >= u.size \div 2)
  BY <1>1, <1>11 DEF Balanced, j
<1>14. Sane(r) /\ Balanced(r) /\ Nodes(r) = Nodes(u) /\ r.nitems = u.nitems
  BY <1>3, <1>11, <1>13, ResizeFacts, Zenon
<1>15. \A n \in N : n.key # k <=> n # o
  BY <1>2, <1>5, Zenon
<1>16. Nodes(r) = {n \in N : n.key # k}
  BY <1>12, <1>14, <1>15, Zenon
<1>17. r.nitems = Cardinality(Nodes(r)) /\ IsFiniteSet(Nodes(r))
  BY <1>1, <1>8, <1>11, <1>12, <1>14, Zenon DEF j
<1> QED
  BY <1>14, <1>16, <1>17 DEF Right, r, N

(* htable_find in terms of the nodes.                                      *)
LEMMA FindFacts ==
  ASSUME hash \in [Keys -> Nat], NEW t, Sane(t), NEW k \in Keys
  PROVE  \/ /\ htable_find(t, k) = 0
            /\ place(t.items[slot(t, k)], k) = {}
            /\ \A n \in Nodes(t) : n.key # k
         \/ \E o \in Nodes(t) : /\ o.key = k /\ htable_find(t, k) = o.value
                                /\ o.value \in 1..MaxValues
                                /\ \A n \in Nodes(t) : n.key = k <=> n = o
<1> DEFINE c == t.items[slot(t, k)]
           at == place(c, k)
           o == c[Min(at)]
<1>1. /\ at = {} <=> \A n \in Nodes(t) : n.key # k
      /\ at = {} => htable_find(t, k) = 0
      /\ at # {} => o.key = k /\ o \in Nodes(t) /\ htable_find(t, k) = o.value
  BY LookupFacts, Zenon
<1>2. /\ Nodes(t) \subseteq Node
      /\ \A m, n \in Nodes(t) : m.key = n.key => m = n
  BY NodesFacts, Zenon
<1> HIDE DEF at, o
<1>3. CASE at = {}
  BY <1>1, <1>3, Zenon DEF at
<1>4. CASE at # {}
  <2>1. o \in Nodes(t) /\ o.key = k /\ htable_find(t, k) = o.value
    BY <1>1, <1>4, Zenon
  <2>2. o.value \in 1..MaxValues
    BY <1>2, <2>1, Zenon DEF Node
  <2>3. \A n \in Nodes(t) : n.key = k <=> n = o
    BY <1>2, <2>1, Zenon
  <2> QED
    BY <2>1, <2>2, <2>3, Zenon
<1> QED
  BY <1>3, <1>4, Zenon
-----------------------------------------------------------------------------
(* The inductive invariant: a table that was made is right, every value in *)
(* it is one that was handed in, no two nodes have one value, and a value  *)
(* was freed as often as it should have been: never before it is handed    *)
(* in or while it is in the table, and once since.                         *)
HInv ==
  /\ hash \in [Keys -> Nat] /\ made \in BOOLEAN
  /\ next \in 0..MaxValues /\ freed \in [1..MaxValues -> Nat]
  /\ made => Right(tbl)
  /\ ~made => tbl = NoTable
  /\ \A n \in Nodes(tbl) : n.value \in 1..next
  /\ \A m, n \in Nodes(tbl) : m.value = n.value => m = n
  /\ FreedOnce
  /\ \A v \in 1..MaxValues : v > next => freed[v] = 0

(* There is no node where there is no table.                               *)
LEMMA NoNodes == Nodes(NoTable) = {} /\ NoTable.size = 0 /\ NoTable.nitems = 0
<1>1. NoTable.size = 0 /\ NoTable.nitems = 0
  BY DEF NoTable
<1>2. 0..(0 - 1) = {}
  OBVIOUS
<1> QED
  BY <1>1, <1>2, Zenon DEF Nodes

(* A message starts without metadata.                                      *)
LEMMA HInit == Init => HInv
<1> SUFFICES ASSUME Init PROVE HInv
  OBVIOUS
<1>1. hash \in [Keys -> Nat] /\ MaxValues \in Nat
  BY HashAssumption DEF Init
<1>2. /\ tbl = NoTable /\ made = FALSE /\ next = 0
      /\ freed = [v \in 1..MaxValues |-> 0]
  BY DEF Init
<1>3. Nodes(tbl) = {}
  BY <1>2, NoNodes, Zenon
<1>4. FreedOnce
  BY <1>2 DEF FreedOnce
<1>5. /\ made \in BOOLEAN /\ next \in 0..MaxValues /\ freed \in [1..MaxValues -> Nat]
      /\ \A v \in 1..MaxValues : v > next => freed[v] = 0
  <2>1. made \in BOOLEAN
    BY <1>2, Zenon
  <2>2. next \in 0..MaxValues
    BY <1>1, <1>2
  <2>3. freed \in [1..MaxValues -> Nat] /\ \A v \in 1..MaxValues : freed[v] = 0
    BY <1>2, SMT
  <2> QED
    BY <2>1, <2>2, <2>3, Zenon
<1> QED
  BY <1>1, <1>2, <1>3, <1>4, <1>5, Zenon DEF HInv

(* The table metadata_insert puts a value in: there, or made for it.       *)
LEMMA OnHand ==
  ASSUME HInv, NEW t, t = IF made THEN tbl ELSE htable_create
  PROVE  Right(t) /\ Nodes(t) = Nodes(tbl)
<1>1. CASE made
  BY <1>1 DEF HInv
<1>2. CASE ~made
  BY <1>2, CreateFacts, NoNodes, ZenonT(30) DEF HInv
<1> QED
  BY <1>1, <1>2, Zenon

(* The value that goes is freed and no other is.                           *)
LEMMA FreeFacts ==
  ASSUME HInv, NEW v, mdatum_free(v), v = 0 \/ v \in 1..MaxValues
  PROVE  /\ freed' \in [1..MaxValues -> Nat]
         /\ \A w \in 1..MaxValues : freed'[w] = IF w = v THEN freed[w] + 1 ELSE freed[w]
<1>1. freed \in [1..MaxValues -> Nat]
  BY DEF HInv
<1>2. CASE v = 0
  BY <1>1, <1>2 DEF mdatum_free
<1>3. CASE v \in 1..MaxValues
  BY <1>1, <1>3 DEF mdatum_free
<1> QED
  BY <1>2, <1>3, Zenon

(* The nodes after metadata_insert.                                        *)
LEMMA Inserted ==
  ASSUME HInv, NEW k \in Keys, metadata_insert(k)
  PROVE  /\ Right(tbl)'
         /\ Nodes(tbl)' = {n \in Nodes(tbl) : n.key # k} \cup {[key |-> k, value |-> next + 1]}
         /\ next + 1 \in 1..MaxValues
<1> DEFINE t == IF made THEN tbl ELSE htable_create
           r == htable_insert(t, k, next + 1)
<1>1. /\ hash \in [Keys -> Nat] /\ next \in Nat /\ MaxValues \in Nat
      /\ next < MaxValues /\ hash' = hash /\ tbl' = r
  BY HashAssumption DEF HInv, metadata_insert
<1>2. Right(t) /\ Nodes(t) = Nodes(tbl)
  BY OnHand
<1>3. next + 1 \in 1..MaxValues
  BY <1>1
<1> HIDE DEF t
<1>4. /\ Right(r)
      /\ Nodes(r) = {n \in Nodes(tbl) : n.key # k} \cup {[key |-> k, value |-> next + 1]}
  BY <1>1, <1>2, <1>3, InsertFacts
<1>5. /\ Right(tbl')
      /\ Nodes(tbl') = {n \in Nodes(tbl) : n.key # k} \cup {[key |-> k, value |-> next + 1]}
  BY <1>1, <1>4, Zenon
<1> QED
  BY <1>1, <1>3, <1>5, Zenon DEF Right, Sane, slot, Nodes, Balanced

(* The nodes after htable_delete.                                          *)
LEMMA Deleted ==
  ASSUME HInv, NEW k \in Keys, htable_delete(k)
  PROVE  Right(tbl)' /\ Nodes(tbl)' = {n \in Nodes(tbl) : n.key # k}
<1> DEFINE r == htable_remove(tbl, k)
<1>1. /\ hash \in [Keys -> Nat] /\ made /\ place(tbl.items[slot(tbl, k)], k) # {}
      /\ tbl' = r /\ hash' = hash
  BY Zenon DEF HInv, htable_delete
<1>2. Right(tbl)
  BY <1>1 DEF HInv
<1>3. Right(r) /\ Nodes(r) = {n \in Nodes(tbl) : n.key # k}
  BY <1>1, <1>2, RemoveFacts, ZenonT(30)
<1>4. Right(tbl') /\ Nodes(tbl') = {n \in Nodes(tbl) : n.key # k}
  BY <1>1, <1>3, Zenon
<1> QED
  BY <1>1, <1>4, Zenon DEF Right, Sane, slot, Nodes, Balanced

(* metadata_insert.                                                        *)
LEMMA HInsert ==
  ASSUME HInv, NEW k \in Keys, metadata_insert(k)
  PROVE  HInv'
<1> DEFINE t == IF made THEN tbl ELSE htable_create
           N == Nodes(tbl)
           x == [key |-> k, value |-> next + 1]
           w == htable_find(t, k)
<1>1. /\ hash \in [Keys -> Nat] /\ next \in Nat /\ MaxValues \in Nat /\ next <= MaxValues
      /\ \A n \in N : n.value \in 1..next
      /\ \A m, n \in N : m.value = n.value => m = n
      /\ freed \in [1..MaxValues -> Nat]
      /\ \A v \in 1..MaxValues : v > next => freed[v] = 0
  BY HashAssumption DEF HInv
<1>2. \A v \in 1..next : freed[v] = IF \E n \in N : n.value = v THEN 0 ELSE 1
  BY DEF HInv, FreedOnce
<1>3. /\ next < MaxValues /\ next' = next + 1 /\ made' = TRUE /\ hash' = hash
      /\ mdatum_free(w)
  BY DEF metadata_insert
<1>4. Right(t) /\ Nodes(t) = N /\ Sane(t)
  BY OnHand DEF Right
<1> HIDE DEF t
<1>5. next + 1 \in 1..MaxValues
  BY <1>1, <1>3
<1>8. Right(tbl)' /\ Nodes(tbl)' = {n \in N : n.key # k} \cup {x}
  BY Inserted, Zenon
<1>9. \/ w = 0 /\ \A n \in N : n.key # k
      \/ \E o \in N : /\ o.key = k /\ w = o.value /\ w \in 1..MaxValues
                      /\ \A n \in N : n.key = k <=> n = o
  <2>1. \/ w = 0 /\ \A n \in Nodes(t) : n.key # k
        \/ \E o \in Nodes(t) : /\ o.key = k /\ w = o.value /\ o.value \in 1..MaxValues
                               /\ \A n \in Nodes(t) : n.key = k <=> n = o
    BY <1>1, <1>4, FindFacts
  <2> HIDE DEF w, N
  <2> QED
    BY <1>4, <2>1, Zenon
<1>10. x.value = next + 1
  OBVIOUS
<1> HIDE DEF x, w, N
<1>11. \A n \in Nodes(tbl)' : n.value \in 1..next'
  BY <1>1, <1>3, <1>8, <1>10
<1>12. \A m, n \in Nodes(tbl)' : m.value = n.value => m = n
  BY <1>1, <1>8, <1>10
<1>13. w = 0 \/ w \in 1..MaxValues
  BY <1>9, Zenon
<1>14. /\ freed' \in [1..MaxValues -> Nat]
       /\ \A v \in 1..MaxValues : freed'[v] = IF v = w THEN freed[v] + 1 ELSE freed[v]
  BY <1>3, <1>13, FreeFacts, Zenon
<1>15. ASSUME NEW v \in 1..next'
       PROVE  freed'[v] = IF \E n \in Nodes(tbl)' : n.value = v THEN 0 ELSE 1
  <2>1. v \in 1..MaxValues /\ (v = next + 1 \/ v \in 1..next)
    BY <1>1, <1>3
  <2>2. CASE v = next + 1
    <3>1. v # w
      BY <1>1, <1>9, <2>2
    <3>2. freed'[v] = 0
      BY <1>1, <1>14, <2>1, <2>2, <3>1
    <3> QED
      BY <1>8, <1>10, <2>2, <3>2, Zenon
  <2>3. CASE v \in 1..next /\ v # w
    <3>1. freed'[v] = freed[v]
      BY <1>14, <2>1, <2>3, Zenon
    <3>2. v # next + 1
      BY <1>1, <2>3
    <3>3. (\E n \in Nodes(tbl)' : n.value = v) <=> \E n \in N : n.value = v
      BY <1>8, <1>9, <1>10, <2>3, <3>2, Zenon
    <3> QED
      BY <1>2, <2>3, <3>1, <3>3, Zenon
  <2>4. CASE v \in 1..next /\ v = w
    <3>1. PICK o \in N : o.key = k /\ w = o.value /\ \A n \in N : n.key = k <=> n = o
      BY <1>9, <2>4
    <3>2. freed[v] = 0
      BY <1>2, <2>4, <3>1, Zenon
    <3>3. freed'[v] = 1
      BY <1>14, <2>1, <2>4, <3>2
    <3>4. v # next + 1
      BY <1>1, <2>4
    <3>5. ~\E n \in Nodes(tbl)' : n.value = v
      BY <1>1, <1>8, <1>10, <2>4, <3>1, <3>4, Zenon
    <3> QED
      BY <3>3, <3>5, Zenon
  <2> QED
    BY <2>1, <2>2, <2>3, <2>4, Zenon
<1>16. FreedOnce'
  BY <1>15, Zenon DEF FreedOnce
<1>17. \A v \in 1..MaxValues : v > next' => freed'[v] = 0
  BY <1>1, <1>3, <1>9, <1>14, SMTT(30)
<1> QED
  BY <1>1, <1>3, <1>5, <1>8, <1>11, <1>12, <1>14, <1>16, <1>17, SMTT(30) DEF HInv

(* htable_delete.                                                          *)
LEMMA HDelete ==
  ASSUME HInv, NEW k \in Keys, htable_delete(k)
  PROVE  HInv'
<1> DEFINE N == Nodes(tbl)
           w == htable_find(tbl, k)
<1>1. /\ hash \in [Keys -> Nat] /\ next \in 0..MaxValues /\ next \in Nat /\ MaxValues \in Nat
      /\ \A n \in N : n.value \in 1..next
      /\ \A m, n \in N : m.value = n.value => m = n
      /\ freed \in [1..MaxValues -> Nat]
      /\ \A v \in 1..MaxValues : v > next => freed[v] = 0
  BY HashAssumption DEF HInv
<1>2. \A v \in 1..next : freed[v] = IF \E n \in N : n.value = v THEN 0 ELSE 1
  BY DEF HInv, FreedOnce
<1>3. /\ made /\ place(tbl.items[slot(tbl, k)], k) # {} /\ mdatum_free(w)
      /\ hash' = hash /\ made' = made /\ next' = next
  BY DEF htable_delete
<1>4. Right(tbl) /\ Sane(tbl)
  BY <1>3 DEF HInv, Right
<1>7. Right(tbl)' /\ Nodes(tbl)' = {n \in N : n.key # k}
  BY Deleted, Zenon
<1>8. \E o \in N : /\ o.key = k /\ w = o.value /\ o.value \in 1..MaxValues
                   /\ \A n \in N : n.key = k <=> n = o
  BY <1>1, <1>3, <1>4, FindFacts, ZenonT(30)
<1> HIDE DEF w, N
<1>9. PICK o \in N : /\ o.key = k /\ w = o.value /\ o.value \in 1..MaxValues
                     /\ \A n \in N : n.key = k <=> n = o
  BY <1>8, Zenon
<1>10. w \in 1..next /\ w \in 1..MaxValues
  BY <1>1, <1>9, Zenon
<1>11. /\ freed' \in [1..MaxValues -> Nat]
       /\ \A v \in 1..MaxValues : freed'[v] = IF v = w THEN freed[v] + 1 ELSE freed[v]
  BY <1>3, <1>10, FreeFacts, Zenon
<1>12. Nodes(tbl)' = N \ {o}
  BY <1>7, <1>9, Zenon
<1>13. ASSUME NEW v \in 1..next
       PROVE  freed'[v] = IF \E n \in Nodes(tbl)' : n.value = v THEN 0 ELSE 1
  <2>1. v \in 1..MaxValues
    BY <1>1
  <2>2. CASE v # w
    <3>1. (\E n \in Nodes(tbl)' : n.value = v) <=> \E n \in N : n.value = v
      BY <1>9, <1>12, <2>2, Zenon
    <3> QED
      BY <1>2, <1>11, <2>1, <2>2, <3>1, Zenon
  <2>3. CASE v = w
    <3>1. freed[v] = 0
      BY <1>2, <1>9, <2>3, Zenon
    <3>2. freed'[v] = 1
      BY <1>11, <2>1, <2>3, <3>1
    <3>3. ~\E n \in Nodes(tbl)' : n.value = v
      BY <1>1, <1>9, <1>12, <2>3, Zenon
    <3> QED
      BY <3>2, <3>3, Zenon
  <2> QED
    BY <2>2, <2>3, Zenon
<1>14. FreedOnce'
  BY <1>3, <1>13, Zenon DEF FreedOnce
<1>15. \A v \in 1..MaxValues : v > next => freed'[v] = 0
  BY <1>1, <1>10, <1>11
<1>16. /\ \A n \in Nodes(tbl)' : n.value \in 1..next
       /\ \A m, n \in Nodes(tbl)' : m.value = n.value => m = n
  BY <1>1, <1>12
<1> QED
  BY <1>1, <1>3, <1>7, <1>11, <1>14, <1>15, <1>16, Zenon DEF HInv

(* metadata_free.                                                          *)
LEMMA HFree ==
  ASSUME HInv, metadata_free
  PROVE  HInv'
<1> DEFINE N == Nodes(tbl)
<1>1. /\ hash \in [Keys -> Nat] /\ next \in 0..MaxValues /\ next \in Nat /\ MaxValues \in Nat
      /\ \A n \in N : n.value \in 1..next
      /\ freed \in [1..MaxValues -> Nat] /\ DOMAIN freed = 1..MaxValues
      /\ \A v \in 1..MaxValues : v > next => freed[v] = 0
  BY HashAssumption DEF HInv
<1>2. \A v \in 1..next : freed[v] = IF \E n \in N : n.value = v THEN 0 ELSE 1
  BY DEF HInv, FreedOnce
<1>3. /\ freed' = [v \in 1..MaxValues |-> freed[v] + IF \E n \in N : n.value = v THEN 1 ELSE 0]
      /\ tbl' = NoTable /\ made' = FALSE /\ hash' = hash /\ next' = next
  BY <1>1 DEF metadata_free
<1>4. Nodes(tbl') = {}
  BY <1>3, NoNodes, Zenon
<1>5. Nodes(tbl)' = {}
  BY <1>4 DEF Nodes
<1> HIDE DEF N
<1>6. freed' \in [1..MaxValues -> Nat]
  BY <1>1, <1>3
<1>7. \A v \in 1..MaxValues : freed'[v] = freed[v] + IF \E n \in N : n.value = v THEN 1 ELSE 0
  BY <1>3
<1>8. ASSUME NEW v \in 1..next PROVE freed'[v] = 1
  <2>1. v \in 1..MaxValues
    BY <1>1
  <2> QED
    BY <1>2, <1>7, <2>1
<1>9. ASSUME NEW v \in 1..MaxValues, v > next PROVE freed'[v] = 0
  <2>1. ~\E n \in N : n.value = v
    BY <1>1, <1>9
  <2> QED
    BY <1>1, <1>7, <1>9, <2>1
<1>10. FreedOnce'
  BY <1>3, <1>5, <1>8, Zenon DEF FreedOnce
<1>11. NoTable' = NoTable
  BY DEF NoTable
<1> QED
  BY <1>1, <1>3, <1>5, <1>6, <1>9, <1>10, <1>11, Zenon DEF HInv

(* Every step keeps the invariant.                                         *)
LEMMA HStep == HInv /\ [Next]_vars => HInv'
<1> SUFFICES ASSUME HInv, [Next]_vars PROVE HInv'
  OBVIOUS
<1>1. CASE \E k \in Keys : metadata_insert(k)
  BY <1>1, HInsert
<1>2. CASE \E k \in Keys : htable_delete(k)
  BY <1>2, HDelete, Zenon
<1>3. CASE metadata_free
  BY <1>3, HFree, Zenon
<1>4. CASE UNCHANGED vars
  <2>1. UNCHANGED <<hash, tbl, made, next, freed>>
    BY <1>4, Zenon DEF vars
  <2>2. Nodes(tbl)' = Nodes(tbl) /\ NoTable' = NoTable
    BY <2>1, Zenon DEF Nodes, NoTable
  <2>3. Right(tbl)' <=> Right(tbl)
    BY <2>1 DEF Right, Sane, slot, Nodes, Balanced
  <2>4. FreedOnce' <=> FreedOnce
    BY <2>1, <2>2 DEF FreedOnce
  <2> QED
    BY <2>1, <2>2, <2>3, <2>4, Zenon DEF HInv
<1> QED
  BY <1>1, <1>2, <1>3, <1>4, Zenon DEF Next

(* So it holds throughout.                                                 *)
LEMMA HAlways == Spec => []HInv
  BY HInit, HStep, PTL DEF Spec

(* Every value handed to metadata_insert is freed once, when it is         *)
(* replaced, deleted or goes with its message, and not while htable_find   *)
(* can return it.                                                          *)
THEOREM ValuesFreedOnce == Spec => []FreedOnce
<1>1. HInv => FreedOnce
  BY DEF HInv
<1> QED
  BY <1>1, HAlways, PTL

(* After every htable_insert and htable_delete, with the resize each ends  *)
(* with, every node is in the slot of its hash, no key is there twice,     *)
(* nitems is the number of nodes, and the table is neither over- nor       *)
(* underfull.                                                              *)
THEOREM TableStaysRight == Spec => []TableRight
<1>1. ASSUME HInv PROVE TableRight
  <2>1. CASE made
    <3>1. Right(tbl) /\ Sane(tbl) /\ Balanced(tbl)
      BY <1>1, <2>1, Zenon DEF HInv, Right
    <3>2. /\ tbl.items \in [0..(tbl.size - 1) -> Seq(Node)]
          /\ \A s \in 0..(tbl.size - 1) :
               Once(tbl.items[s]) /\ \A n \in Range(tbl.items[s]) : slot(tbl, n.key) = s
      BY <3>1 DEF Sane
    <3>3. DOMAIN tbl.items = 0..(tbl.size - 1)
      BY <3>2, Zenon
    <3>4. ASSUME NEW s \in DOMAIN Chains, NEW n \in DOMAIN Chains[s]
          PROVE  /\ slot(tbl, Chains[s][n].key) = s
                 /\ \A m \in DOMAIN Chains[s] : Chains[s][m].key = Chains[s][n].key => m = n
      <4> DEFINE c == tbl.items[s]
      <4>1. s \in 0..(tbl.size - 1) /\ Chains[s] = c
        BY DEF Chains
      <4>2. c \in Seq(Node) /\ Once(c) /\ \A x \in Range(c) : slot(tbl, x.key) = s
        BY <3>2, <4>1, Zenon
      <4> HIDE DEF c
      <4>3. DOMAIN c = 1..Len(c) /\ n \in DOMAIN c
        BY <4>1, <4>2
      <4>4. c[n] \in Range(c)
        BY <4>3, Zenon DEF Range
      <4>5. slot(tbl, c[n].key) = s /\ \A m \in DOMAIN c : c[m].key = c[n].key => m = n
        BY <4>2, <4>3, <4>4, Zenon DEF Once
      <4> QED
        BY <4>1, <4>5, Zenon
    <3> QED
      BY <2>1, <3>1, <3>3, <3>4, Zenon DEF TableRight, Right, Balanced
  <2>2. CASE ~made
    <3>1. tbl = NoTable /\ tbl.size = 0 /\ tbl.nitems = 0 /\ Nodes(tbl) = {}
      BY <1>1, <2>2, NoNodes, Zenon DEF HInv
    <3>2. DOMAIN Chains = {}
      BY <3>1 DEF Chains
    <3>3. tbl.nitems = Cardinality(Nodes(tbl))
      BY <3>1, FS_EmptySet, Zenon
    <3> QED
      BY <2>2, <3>2, <3>3, Zenon DEF TableRight
  <2> QED
    BY <2>1, <2>2, Zenon
<1> QED
  BY <1>1, HAlways, PTL
-----------------------------------------------------------------------------
(* The map that the nodes are.                                             *)
HasKey(N, k) == \E n \in N : n.key = k
DictOf(N) == [k \in {j \in Keys : HasKey(N, j)} |-> (CHOOSE n \in N : n.key = k).value]

(* What lookups see is that map, if there is a table and if not.           *)
LEMMA SeenIsDict ==
  ASSUME hash \in [Keys -> Nat], NEW t, NEW m \in BOOLEAN,
         m => Sane(t), ~m => Nodes(t) = {}
  PROVE  [k \in {j \in Keys : m /\ htable_find(t, j) # 0} |-> htable_find(t, k)] = DictOf(Nodes(t))
<1> DEFINE N == Nodes(t)
<1>1. ASSUME NEW k \in Keys
      PROVE  /\ m /\ htable_find(t, k) # 0 <=> HasKey(N, k)
             /\ HasKey(N, k) => htable_find(t, k) = (CHOOSE n \in N : n.key = k).value
  <2>1. CASE ~m
    BY <2>1 DEF HasKey
  <2>2. CASE m /\ htable_find(t, k) = 0 /\ \A n \in N : n.key # k
    BY <2>2, Zenon DEF HasKey
  <2>3. ASSUME m, NEW o \in N, o.key = k, htable_find(t, k) = o.value, o.value \in 1..MaxValues,
               \A n \in N : n.key = k <=> n = o
        PROVE  /\ m /\ htable_find(t, k) # 0 <=> HasKey(N, k)
               /\ htable_find(t, k) = (CHOOSE n \in N : n.key = k).value
    <3>1. (CHOOSE n \in N : n.key = k) = o
      BY <2>3, Zenon
    <3>2. htable_find(t, k) # 0 /\ HasKey(N, k)
      BY <2>3 DEF HasKey
    <3> QED
      BY <2>3, <3>1, <3>2, Zenon
  <2> QED
    BY <2>1, <2>2, <2>3, FindFacts
<1> HIDE DEF N
<1>2. {j \in Keys : m /\ htable_find(t, j) # 0} = {j \in Keys : HasKey(N, j)}
  BY <1>1, Zenon
<1>3. DictOf(N) = [k \in {j \in Keys : HasKey(N, j)} |-> (CHOOSE n \in N : n.key = k).value]
  BY Zenon DEF DictOf
<1> QED
  BY <1>1, <1>2, <1>3, Zenon DEF N

(* The refinement mapping, before and after a step.                        *)
LEMMA MapIsDict ==
  ASSUME HInv, [Next]_vars
  PROVE  /\ [k \in Found |-> htable_find(tbl, k)] = DictOf(Nodes(tbl))
         /\ [k \in Found |-> htable_find(tbl, k)]' = DictOf(Nodes(tbl)')
<1>1. /\ hash \in [Keys -> Nat] /\ made \in BOOLEAN
      /\ made => Sane(tbl)
      /\ ~made => Nodes(tbl) = {}
  BY NoNodes, Zenon DEF HInv, Right
<1>2. HInv' /\ hash' = hash
  BY HStep, Zenon DEF Next, metadata_insert, htable_delete, metadata_free, vars
<1>3. Nodes(tbl)' = Nodes(tbl') /\ (Sane(tbl)' <=> Sane(tbl'))
  BY <1>2, Zenon DEF Nodes, Sane, slot
<1>4. NoTable' = NoTable
  BY Zenon DEF NoTable
<1>5. /\ made' \in BOOLEAN
      /\ made' => Sane(tbl')
      /\ ~made' => Nodes(tbl') = {}
  BY <1>2, <1>3, <1>4, NoNodes, Zenon DEF HInv, Right
<1>6. \A k \in Keys : htable_find(tbl, k)' = htable_find(tbl', k)
  BY <1>2, Zenon DEF htable_find, slot
<1>7. Found' = {j \in Keys : made' /\ htable_find(tbl', j) # 0}
  BY <1>6 DEF Found
<1>8. [k \in Found |-> htable_find(tbl, k)]' = [k \in Found' |-> htable_find(tbl', k)]
  BY <1>6, <1>7
<1>9. [k \in {j \in Keys : made' /\ htable_find(tbl', j) # 0} |-> htable_find(tbl', k)]
        = DictOf(Nodes(tbl'))
  BY <1>1, <1>5, SeenIsDict, Zenon
<1>10. [k \in {j \in Keys : made /\ htable_find(tbl, j) # 0} |-> htable_find(tbl, k)]
         = DictOf(Nodes(tbl))
  BY <1>1, SeenIsDict, Zenon
<1> QED
  BY <1>3, <1>7, <1>8, <1>9, <1>10, Zenon DEF Found

(* Nodes of other keys are the same, and so is the map elsewhere.          *)
LEMMA Elsewhere ==
  ASSUME NEW N, NEW O, NEW k \in Keys,
         {n \in N : n.key # k} = {n \in O : n.key # k}
  PROVE  Map!Without(DictOf(N), k) = Map!Without(DictOf(O), k)
<1> DEFINE D(S) == {j \in Keys : HasKey(S, j)}
<1>1. \A j \in Keys : j # k => {n \in N : n.key = j} = {n \in O : n.key = j}
  OBVIOUS
<1>2. \A j \in Keys : j # k => (HasKey(N, j) <=> HasKey(O, j))
  BY <1>1 DEF HasKey
<1>3. D(N) \ {k} = D(O) \ {k}
  BY <1>2
<1>4. ASSUME NEW j \in Keys, j # k
      PROVE  (CHOOSE n \in N : n.key = j) = (CHOOSE n \in O : n.key = j)
  <2>1. \A n : n \in N /\ n.key = j <=> n \in O /\ n.key = j
    BY <1>1, <1>4, Zenon
  <2> QED
    BY <2>1, Zenon
<1>5. \A S : DOMAIN DictOf(S) = D(S)
          /\ \A j \in D(S) : DictOf(S)[j] = (CHOOSE n \in S : n.key = j).value
  BY DEF DictOf
<1>6. \A S : Map!Without(DictOf(S), k) = [j \in D(S) \ {k} |-> DictOf(S)[j]]
  BY <1>5, Zenon DEF Map!Without, Map!Restrict
<1>7. \A j \in D(N) \ {k} : DictOf(N)[j] = DictOf(O)[j]
  BY <1>3, <1>4, <1>5
<1> HIDE DEF D
<1> QED
  BY <1>3, <1>6, <1>7, ZenonT(30)

(* As its lookups see it, the hash table is a map from keys to values that *)
(* metadata_insert puts one value in, htable_delete takes one key out of   *)
(* and metadata_free empties, for every hash function, every smallest size *)
(* and every sequence of calls.                                            *)
THEOREM HashTableIsDictionary == Spec => IsDictionary
<1> DEFINE d == [k \in Found |-> htable_find(tbl, k)]
           N == Nodes(tbl)
<1>1. Init => Map!Init
  <2> SUFFICES ASSUME Init PROVE d = Map!Empty
    BY DEF Map!Init
  <2>1. Found = {}
    BY Zenon DEF Init, Found
  <2> QED
    BY <2>1, Zenon DEF Map!Empty
<1>2. ASSUME HInv, [Next]_vars PROVE [Map!Next]_d
  <2>1. d = DictOf(N) /\ d' = DictOf(N')
    BY <1>2, MapIsDict, Zenon
  <2>2. CASE \E k \in Keys : metadata_insert(k)
    <3>1. PICK k \in Keys : metadata_insert(k)
      BY <2>2, Zenon
    <3> DEFINE x == [key |-> k, value |-> next + 1]
    <3>2. N' = {n \in N : n.key # k} \cup {x} /\ next + 1 \in 1..MaxValues
      BY <1>2, <3>1, Inserted, Zenon
    <3>3. x.key = k /\ x.value = next + 1
      OBVIOUS
    <3> HIDE DEF d, N, x
    <3>4. {n \in N' : n.key # k} = {n \in N : n.key # k}
      BY <3>2, <3>3, Zenon
    <3>5. Map!Without(d', k) = Map!Without(d, k)
      BY <2>1, <3>4, Elsewhere, Zenon
    <3>6. (CHOOSE n \in N' : n.key = k) = x
      BY <3>2, <3>3, Zenon
    <3>7. k \in DOMAIN d' /\ d'[k] \in 1..MaxValues
      BY <2>1, <3>2, <3>3, <3>6, Zenon DEF DictOf, HasKey
    <3>8. Map!Put(k)
      BY <3>5, <3>7, Zenon DEF Map!Put, d
    <3> QED
      BY <3>8 DEF Map!Next
  <2>3. CASE \E k \in Keys : htable_delete(k)
    <3>1. PICK k \in Keys : htable_delete(k)
      BY <2>3
    <3>2. N' = {n \in N : n.key # k}
      BY <1>2, <3>1, Deleted, Zenon
    <3>3. HasKey(N, k)
      <4>1. hash \in [Keys -> Nat] /\ Sane(tbl) /\ place(tbl.items[slot(tbl, k)], k) # {}
        BY <1>2, <3>1, Zenon DEF HInv, Right, htable_delete
      <4> QED
        BY <4>1, LookupFacts, Zenon DEF HasKey
    <3> HIDE DEF d, N
    <3>4. {n \in N' : n.key # k} = {n \in N : n.key # k}
      BY <3>2, Zenon
    <3>5. Map!Without(d', k) = Map!Without(d, k)
      BY <2>1, <3>4, Elsewhere
    <3>6. k \in DOMAIN d
      BY <2>1, <3>3, Zenon DEF DictOf
    <3>7. DOMAIN d' \ {k} = DOMAIN d'
      BY <2>1, <3>2, Zenon DEF DictOf, HasKey
    <3>8. Map!Without(d', k) = d'
      BY <2>1, <3>7, Zenon DEF Map!Without, Map!Restrict, DictOf
    <3>9. Map!Remove(k)
      BY <3>5, <3>6, <3>8, Zenon DEF Map!Remove, d
    <3> QED
      BY <3>9, Zenon DEF Map!Next
  <2>4. CASE metadata_free
    <3>1. Found' = {}
      BY <2>4, Zenon DEF metadata_free, Found
    <3>2. d' = Map!Empty
      BY <3>1, Zenon DEF Map!Empty
    <3> QED
      BY <3>2, Zenon DEF Map!Next, Map!Clear
  <2>5. CASE UNCHANGED vars
    <3>1. d' = d
      BY <2>5 DEF vars, Found, htable_find, slot
    <3> QED
      BY <3>1, Zenon
  <2> QED
    BY <1>2, <2>2, <2>3, <2>4, <2>5, Zenon DEF Next
<1> QED
  BY <1>1, <1>2, HAlways, PTL DEF Spec, IsDictionary, Map!Spec
=============================================================================
