------------------------- MODULE MessageListsProofs -------------------------
(***************************************************************************)
(* The linked lists of queue.c hold what they should, for any number of    *)
(* cells, lanes and messages, and implement the first-in first-out lanes.  *)
(***************************************************************************)
EXTENDS MessageLists, SequenceTheorems, FiniteSetTheorems, WellFoundedInduction, TLAPS

(* What is at place i of w, or nothing beyond its ends.                    *)
At(w, i) == IF i \in 1..Len(w) THEN w[i] ELSE NULL

(* From s on, the field f leads through the cells of w and to their end.   *)
Chain(f, s, w) == s = At(w, 1) /\ \A i \in 1..Len(w) : f[w[i]] = At(w, i+1)

(* From e on, the field f leads through the cells of w backwards.          *)
BackChain(f, e, w) == e = At(w, Len(w)) /\ \A i \in 1..Len(w) : f[w[i]] = At(w, i-1)

Distinct(w) == \A i, j \in 1..Len(w) : w[i] = w[j] => i = j

Pointers == Nodes \cup {NULL}
-----------------------------------------------------------------------------
(* Induction over the numbers, for a set that is given.                    *)
LEMMA Smallest ==
  ASSUME NEW T \in SUBSET Nat, T # {}
  PROVE  \E n \in T : \A m \in T : n <= m
<1> DEFINE R == OpToRel(<, Nat)
<1>1. IsWellFoundedOn(R, Nat)
  BY NatLessThanWellFounded, Zenon
<1>2. \A x, y \in Nat : x < y => <<x, y>> \in R
  BY DEF OpToRel
<1> HIDE DEF R
<1>3. PICK x \in T : \A y \in T : ~ (<<y, x>> \in R)
  BY <1>1, WFMin, Zenon
<1>4. \A y \in T : ~ (y < x)
  BY <1>2, <1>3, Zenon
<1> QED
  BY <1>4

(* A set that has 0 and with every number the next has them all.           *)
LEMMA Induction ==
  ASSUME NEW S, 0 \in S, \A n \in Nat : n \in S => n + 1 \in S
  PROVE  Nat \subseteq S
<1> DEFINE T == Nat \ S
<1> SUFFICES ASSUME T # {} PROVE FALSE
  OBVIOUS
<1>1. PICK n \in T : \A m \in T : n <= m
  BY Smallest, Zenon
<1>2. n # 0 /\ n - 1 \in Nat
  OBVIOUS
<1>3. n - 1 \notin T
  BY <1>1, <1>2
<1> QED
  BY <1>2, <1>3

(* A cell appended.                                                        *)
LEMMA AppendedFacts ==
  ASSUME NEW S, NEW s \in Seq(S), NEW e \in S
  PROVE  Len(Append(s, e)) = Len(s) + 1 /\ Range(Append(s, e)) = Range(s) \cup {e}
<1> DEFINE t == Append(s, e)
<1>1. /\ Len(t) = Len(s) + 1 /\ Len(s) \in Nat
      /\ DOMAIN s = 1..Len(s) /\ DOMAIN t = 1..Len(s) + 1
      /\ \A i \in 1..Len(s) : t[i] = s[i]
      /\ t[Len(s) + 1] = e
  OBVIOUS
<1> HIDE DEF t
<1>2. 1..Len(s) + 1 = 1..Len(s) \cup {Len(s) + 1}
  BY ONLY <1>1
<1>3. Range(t) = Range(s) \cup {e}
  <2>1. ASSUME NEW i \in 1..Len(s) + 1 PROVE t[i] \in Range(s) \cup {e}
    <3>1. CASE i \in 1..Len(s)
      BY <1>1, <3>1, Zenon DEF Range
    <3>2. CASE i = Len(s) + 1
      BY <1>1, <3>2, Zenon
    <3> QED
      BY <1>2, <3>1, <3>2, Zenon
  <2>2. ASSUME NEW i \in 1..Len(s) PROVE s[i] \in Range(t)
    BY <1>1, <1>2, Zenon DEF Range
  <2>3. e \in Range(t)
    BY <1>1, <1>2, Zenon DEF Range
  <2> QED
    BY <1>1, <2>1, <2>2, <2>3, Zenon DEF Range
<1> QED
  BY <1>1, <1>3, Zenon DEF t
-----------------------------------------------------------------------------
USE ListAssumption

(* Cells that are all different are not more than there are.               *)
LEMMA DistinctFit ==
  ASSUME NEW w \in Seq(Nodes), Distinct(w)
  PROVE  Len(w) <= Cardinality(Nodes) /\ Cardinality(Nodes) \in Nat
<1>1. Len(w) \in Nat /\ w \in [1..Len(w) -> Nodes]
  BY LenProperties
<1>2. w \in Injection(1..Len(w), Nodes)
  BY <1>1, Zenon DEF Injection, Distinct, IsInjective
<1>3. IsFiniteSet(1..Len(w)) /\ Cardinality(1..Len(w)) = Len(w)
  BY <1>1, FS_Interval
<1>4. Cardinality(1..Len(w)) <= Cardinality(Nodes)
  BY <1>2, FS_Injection
<1> QED
  BY <1>3, <1>4, FS_CardinalityType

(* Following the field gives the cells of the chain.                       *)
LEMMA WalkIsChain ==
  ASSUME NEW f, NEW s, NEW w \in Seq(Nodes), Distinct(w), Chain(f, s, w)
  PROVE  Walk(f, s) = w
<1> DEFINE N == Cardinality(Nodes)
           Eq(g) == g = [i \in 0..N |-> IF i = 0 THEN s
                                        ELSE IF g[i-1] = NULL THEN NULL ELSE f[g[i-1]]]
           at[i \in 0..N] == IF i = 0 THEN s ELSE IF at[i-1] = NULL THEN NULL ELSE f[at[i-1]]
           known == [i \in 0..N |-> At(w, i+1)]
           n == Cardinality({i \in DOMAIN at : at[i] # NULL})
<1>1. Walk(f, s) = [i \in 1..n |-> at[i-1]]
  BY DEF Walk
<1>2. Len(w) \in Nat /\ N \in Nat /\ Len(w) <= N /\ w \in [1..Len(w) -> Nodes]
  BY DistinctFit, LenProperties
<1>3. Eq(known)
  <2> SUFFICES ASSUME NEW i \in 0..N
               PROVE  known[i] = IF i = 0 THEN s
                                 ELSE IF known[i-1] = NULL THEN NULL ELSE f[known[i-1]]
    BY Zenon
  <2>1. CASE i = 0
    BY <2>1 DEF Chain
  <2>2. CASE i # 0 /\ i <= Len(w)
    <3>1. i - 1 \in 0..N /\ i \in 1..Len(w) /\ known[i-1] = w[i] /\ w[i] \in Nodes
      BY <1>2, <2>2 DEF At
    <3> QED
      BY <2>2, <3>1 DEF Chain
  <2>3. CASE i # 0 /\ i > Len(w)
    BY <1>2, <2>3 DEF At
  <2> QED
    BY <1>2, <2>1, <2>2, <2>3
<1>4. at = CHOOSE g : Eq(g)
  OBVIOUS
<1> HIDE DEF at, known
<1>5. Eq(at)
  <2> HIDE DEF Eq
  <2> QED
    BY <1>3, <1>4, Zenon
<1>6. \A i \in 0..N : at[i] = known[i]
  <2> DEFINE S == {i \in Nat : i \in 0..N => at[i] = known[i]}
  <2>1. 0 \in S
    BY <1>2, <1>3, <1>5
  <2>2. ASSUME NEW i \in Nat, i \in S PROVE i + 1 \in S
    BY <1>2, <1>3, <1>5, <2>2
  <2> HIDE DEF S
  <2>3. Nat \subseteq S
    BY <2>1, <2>2, Induction
  <2> QED
    BY <1>2, <2>3 DEF S
<1>7. \A i \in 0..N : at[i] = At(w, i+1)
  BY <1>6 DEF known
<1>8. DOMAIN at = 0..N
  BY <1>5
<1>9. {i \in DOMAIN at : at[i] # NULL} = 0..Len(w)-1
  BY <1>2, <1>7, <1>8 DEF At
<1>10. n = Len(w)
  <2> DEFINE b == Len(w) - 1
  <2>1. 0 \in Int /\ b \in Int
    BY <1>2
  <2> HIDE DEF b
  <2>2. Cardinality(0..b) = IF 0 > b THEN 0 ELSE b - 0 + 1
    BY <2>1, FS_Interval
  <2>3. Cardinality(0..Len(w)-1) = Len(w)
    BY <1>2, <2>2 DEF b
  <2> QED
    BY <1>9, <2>3, Zenon
<1> HIDE DEF n
<1>11. [i \in 1..n |-> at[i-1]] = [i \in 1..Len(w) |-> w[i]]
  BY <1>2, <1>7, <1>10 DEF At
<1> QED
  BY <1>1, <1>2, <1>11, Zenon

(* The same from the other end.                                            *)
LEMMA WalkIsBackChain ==
  ASSUME NEW f, NEW e, NEW w \in Seq(Nodes), Distinct(w), BackChain(f, e, w)
  PROVE  Walk(f, e) = Reverse(w)
<1> DEFINE v == Reverse(w)
<1>1. Len(w) \in Nat /\ w \in [1..Len(w) -> Nodes]
  BY LenProperties
<1>2. v \in [1..Len(w) -> Nodes] /\ \A i \in 1..Len(w) : v[i] = w[(Len(w) - i) + 1]
  BY <1>1 DEF Reverse
<1>3. v \in Seq(Nodes) /\ Len(v) = Len(w)
  BY <1>1, <1>2
<1> HIDE DEF v
<1>4. Distinct(v)
  <2> SUFFICES ASSUME NEW i \in 1..Len(w), NEW j \in 1..Len(w), v[i] = v[j] PROVE i = j
    BY <1>3 DEF Distinct
  <2>1. (Len(w) - i) + 1 \in 1..Len(w) /\ (Len(w) - j) + 1 \in 1..Len(w)
    BY <1>1
  <2>2. (Len(w) - i) + 1 = (Len(w) - j) + 1
    BY <1>2, <2>1, Zenon DEF Distinct
  <2> QED
    BY <1>1, <2>2
<1>5. \A i \in Int : At(v, i) = At(w, (Len(w) - i) + 1)
  BY <1>1, <1>2, <1>3 DEF At
<1>6. Chain(f, e, v)
  <2>1. e = At(v, 1)
    BY <1>1, <1>5 DEF BackChain
  <2>2. ASSUME NEW i \in 1..Len(v) PROVE f[v[i]] = At(v, i+1)
    <3>1. i \in 1..Len(w) /\ i \in Int /\ i + 1 \in Int /\ (Len(w) - i) + 1 \in 1..Len(w)
      BY <1>1, <1>3
    <3>2. f[v[i]] = At(w, ((Len(w) - i) + 1) - 1)
      BY <1>2, <3>1, ZenonT(30) DEF BackChain
    <3>3. ((Len(w) - i) + 1) - 1 = (Len(w) - (i + 1)) + 1
      BY <1>1
    <3> QED
      BY <1>5, <3>1, <3>2, <3>3
  <2> QED
    BY <2>1, <2>2 DEF Chain
<1>7. Walk(f, e) = v
  BY <1>3, <1>4, <1>6, WalkIsChain
<1> QED
  BY <1>7 DEF v

(* A chain whose cells keep their field is still one.                      *)
LEMMA ChainKept ==
  ASSUME NEW f, NEW g, NEW s, NEW w \in Seq(Nodes), Chain(f, s, w),
         \A m \in Range(w) : g[m] = f[m]
  PROVE  Chain(g, s, w)
<1>1. \A i \in 1..Len(w) : w[i] \in Range(w)
  BY DEF Range
<1> QED
  BY <1>1 DEF Chain

(* The field, and the start, of a list that m is linked to after end.      *)
Joined(f, end, m) == IF end = NULL THEN [f EXCEPT ![m] = NULL]
                     ELSE [f EXCEPT ![m] = NULL, ![end] = m]
Started(s, end, m) == IF end = NULL THEN m ELSE s

(* link_lane and link_global: the new cell ends the chain.                 *)
LEMMA ChainLinked ==
  ASSUME NEW f \in [Nodes -> Pointers], NEW s, NEW w \in Seq(Nodes), Distinct(w), Chain(f, s, w),
         NEW m \in Nodes, m \notin Range(w),
         NEW end, end = At(w, Len(w))
  PROVE  /\ Chain(Joined(f, end, m), Started(s, end, m), Append(w, m))
         /\ Joined(f, end, m) \in [Nodes -> Pointers]
         /\ Distinct(Append(w, m)) /\ Append(w, m) \in Seq(Nodes)
         /\ At(Append(w, m), Len(Append(w, m))) = m
<1> DEFINE v == Append(w, m)
           k == Len(w)
           g == Joined(f, end, m)
           s1 == Started(s, end, m)
<1>1. /\ k \in Nat /\ v \in Seq(Nodes) /\ Len(v) = k + 1
      /\ \A i \in 1..k : v[i] = w[i] /\ w[i] \in Nodes /\ w[i] # m
      /\ v[k + 1] = m
  BY DEF Range
<1>2. Distinct(v)
  BY <1>1 DEF Distinct
<1>3. (end = NULL <=> k = 0) /\ (k # 0 => end = w[k] /\ k \in 1..k)
  BY <1>1 DEF At
<1>4. g \in [Nodes -> Pointers]
  BY <1>1, <1>3 DEF Pointers, Joined
<1>5. g[m] = NULL /\ (k # 0 => g[w[k]] = m) /\ \A i \in 1..k : i # k => g[w[i]] = f[w[i]]
  BY <1>1, <1>3 DEF Distinct, Pointers, Joined
<1> HIDE DEF v, g
<1>6. \A i \in 1..Len(v) : g[v[i]] = At(v, i+1)
  <2> SUFFICES ASSUME NEW i \in 1..k+1 PROVE g[v[i]] = At(v, i+1)
    BY <1>1
  <2>1. CASE i = k + 1
    BY <1>1, <1>5, <2>1 DEF At
  <2>2. CASE i = k /\ k # 0
    BY <1>1, <1>5, <2>2 DEF At
  <2>3. CASE i < k
    <3>1. i \in 1..k /\ i + 1 \in 1..k
      BY <1>1, <2>3
    <3>2. g[v[i]] = At(w, i+1)
      BY <1>1, <1>5, <2>3, <3>1 DEF Chain
    <3> QED
      BY <1>1, <3>1, <3>2 DEF At
  <2> QED
    BY <1>1, <2>1, <2>2, <2>3
<1>7. s1 = At(v, 1)
  BY <1>1, <1>3 DEF At, Chain, Started
<1>8. At(v, Len(v)) = m
  BY <1>1 DEF At
<1>9. Chain(g, s1, v)
  BY <1>6, <1>7 DEF Chain
<1> QED
  BY <1>1, <1>2, <1>4, <1>8, <1>9, Zenon DEF v, g

(* link_global: the new cell points back at the one that was last.         *)
LEMMA BackChainLinked ==
  ASSUME NEW f \in [Nodes -> Pointers], NEW w \in Seq(Nodes), NEW e, BackChain(f, e, w),
         NEW m \in Nodes, m \notin Range(w)
  PROVE  /\ BackChain([f EXCEPT ![m] = e], m, Append(w, m))
         /\ [f EXCEPT ![m] = e] \in [Nodes -> Pointers]
<1> DEFINE g == [f EXCEPT ![m] = e]
           v == Append(w, m)
           k == Len(w)
<1>1. /\ k \in Nat /\ v \in Seq(Nodes) /\ Len(v) = k + 1
      /\ \A i \in 1..k : v[i] = w[i] /\ w[i] \in Nodes /\ w[i] # m
      /\ v[k + 1] = m
  BY DEF Range
<1>2. e = At(w, k) /\ e \in Pointers
  BY <1>1 DEF BackChain, At, Pointers
<1>3. g[m] = e /\ (\A i \in 1..k : g[w[i]] = f[w[i]]) /\ g \in [Nodes -> Pointers]
  BY <1>1, <1>2
<1> HIDE DEF g, v
<1>4. \A i \in 1..Len(v) : g[v[i]] = At(v, i-1)
  <2> SUFFICES ASSUME NEW i \in 1..k+1 PROVE g[v[i]] = At(v, i-1)
    BY <1>1
  <2>1. CASE i = k + 1
    BY <1>1, <1>2, <1>3, <2>1 DEF At
  <2>2. CASE i \in 1..k
    <3>1. g[v[i]] = At(w, i-1)
      BY <1>1, <1>3, <2>2 DEF BackChain
    <3> QED
      BY <1>1, <2>2, <3>1 DEF At
  <2> QED
    BY <1>1, <2>1, <2>2
<1>5. m = At(v, Len(v))
  BY <1>1 DEF At
<1> QED
  BY <1>3, <1>4, <1>5 DEF BackChain, g, v

(* A function on the places up to n is a list of that length.              *)
LEMMA ListOf ==
  ASSUME NEW S, NEW n \in Nat, NEW v \in [1..n -> S]
  PROVE  v \in Seq(S) /\ Len(v) = n /\ DOMAIN v = 1..n
  OBVIOUS

(* What is in a list of cells is a cell.                                   *)
LEMMA Cells ==
  ASSUME NEW w \in Seq(Nodes)
  PROVE  \A i \in 1..Len(w) : w[i] \in Nodes
  OBVIOUS

(* w without what is at place k.                                           *)
Without(w, k) == [i \in 1..Len(w)-1 |-> IF i < k THEN w[i] ELSE w[i+1]]

(* The cells that remain are the others, each once.                        *)
LEMMA WithoutFacts ==
  ASSUME NEW w \in Seq(Nodes), Distinct(w), NEW k \in 1..Len(w)
  PROVE  /\ Without(w, k) \in Seq(Nodes) /\ Len(Without(w, k)) = Len(w) - 1
         /\ Distinct(Without(w, k)) /\ Range(Without(w, k)) = Range(w) \ {w[k]}
         /\ \A i \in 1..Len(w)-1 : Without(w, k)[i] = IF i < k THEN w[i] ELSE w[i+1]
         /\ \A i \in Int : At(Without(w, k), i) = IF i < k THEN At(w, i) ELSE At(w, i+1)
<1> DEFINE v == Without(w, k)
<1>1. Len(w) \in Nat /\ Len(w) - 1 \in Nat /\ \A i \in 1..Len(w) : w[i] \in Nodes
  OBVIOUS
<1>2. v \in [1..Len(w)-1 -> Nodes] /\ \A i \in 1..Len(w)-1 : v[i] = IF i < k THEN w[i] ELSE w[i+1]
  BY <1>1 DEF Without
<1>3. v \in Seq(Nodes) /\ Len(v) = Len(w) - 1 /\ DOMAIN v = 1..Len(w)-1
  BY <1>1, <1>2, ListOf, Zenon
<1> HIDE DEF v
<1>4. Distinct(v)
  <2> SUFFICES ASSUME NEW i \in 1..Len(w)-1, NEW j \in 1..Len(w)-1, v[i] = v[j] PROVE i = j
    BY <1>3 DEF Distinct
  <2> DEFINE I == IF i < k THEN i ELSE i + 1
             J == IF j < k THEN j ELSE j + 1
  <2>1. I \in 1..Len(w) /\ J \in 1..Len(w) /\ v[i] = w[I] /\ v[j] = w[J]
    BY <1>1, <1>2
  <2>2. I = J
    BY <2>1, Zenon DEF Distinct
  <2> QED
    BY <1>1, <2>2
<1>5. Range(v) = Range(w) \ {w[k]}
  <2>1. ASSUME NEW i \in 1..Len(w)-1 PROVE v[i] \in Range(w) \ {w[k]}
    <3> DEFINE I == IF i < k THEN i ELSE i + 1
    <3>1. I \in 1..Len(w) /\ v[i] = w[I] /\ I # k
      BY <1>1, <1>2
    <3> QED
      BY <3>1 DEF Distinct, Range
  <2>2. ASSUME NEW i \in 1..Len(w), w[i] # w[k] PROVE w[i] \in Range(v)
    <3> DEFINE I == IF i < k THEN i ELSE i - 1
    <3>1. I \in 1..Len(w)-1 /\ v[I] = w[i]
      BY <1>1, <1>2, <2>2
    <3> QED
      BY <1>3, <3>1 DEF Range
  <2>3. Range(v) \subseteq Range(w) \ {w[k]}
    BY <1>3, <2>1, Zenon DEF Range
  <2>4. DOMAIN w = 1..Len(w)
    OBVIOUS
  <2> QED
    BY <2>2, <2>3, <2>4, Zenon DEF Range
<1>6. \A i \in Int : At(v, i) = IF i < k THEN At(w, i) ELSE At(w, i+1)
  BY <1>1, <1>2, <1>3 DEF At
<1> QED
  BY <1>2, <1>3, <1>4, <1>5, <1>6, Zenon DEF v

(* The field f, and the ends, of a list that m is taken from, p being the  *)
(* field that leads the other way.                                         *)
Cut(f, p, m) == IF p[m] = NULL THEN f ELSE [f EXCEPT ![p[m]] = f[m]]
CutFirst(f, p, s, m) == IF p[m] = NULL THEN f[m] ELSE s
CutLast(f, p, s1, e, m) == IF s1 = NULL THEN NULL ELSE IF f[m] = NULL THEN p[m] ELSE e

(* What is left when the cell at place k is taken from w.                  *)
Spliced(f, p, s, e, w, k) ==
  /\ Chain(Cut(f, p, w[k]), CutFirst(f, p, s, w[k]), Without(w, k))
  /\ BackChain(Cut(p, f, w[k]), CutLast(f, p, CutFirst(f, p, s, w[k]), e, w[k]), Without(w, k))
  /\ Cut(f, p, w[k]) \in [Nodes -> Pointers] /\ Cut(p, f, w[k]) \in [Nodes -> Pointers]
  /\ (CutFirst(f, p, s, w[k]) = NULL <=> Len(w) = 1)

(* splice_out joins the neighbours, in both directions.                    *)
LEMMA ChainSpliced ==
  ASSUME NEW f \in [Nodes -> Pointers], NEW p \in [Nodes -> Pointers], NEW s, NEW e,
         NEW w \in Seq(Nodes), NEW k \in 1..Len(w),
         Distinct(w), Chain(f, s, w), BackChain(p, e, w)
  PROVE  Spliced(f, p, s, e, w, k)
<1> USE DEF Cut, CutFirst, CutLast
<1> DEFINE v == Without(w, k)
           l == Len(w)
           m == w[k]
           f1 == Cut(f, p, m)
           p1 == Cut(p, f, m)
           s1 == CutFirst(f, p, s, m)
           e1 == CutLast(f, p, s1, e, m)
<1>1. l \in Nat /\ \A i \in 1..l : w[i] \in Nodes /\ w[i] # NULL
  OBVIOUS
<1>2. \A i \in Int : At(v, i) = IF i < k THEN At(w, i) ELSE At(w, i+1)
  BY WithoutFacts
<1>12. v \in Seq(Nodes) /\ Len(v) = l - 1
  BY WithoutFacts
<1>0. \A i \in 1..l-1 : v[i] = IF i < k THEN w[i] ELSE w[i+1]
  BY WithoutFacts
<1> HIDE DEF v
<1>3. f[m] = At(w, k+1) /\ p[m] = At(w, k-1)
  BY DEF Chain, BackChain
<1>4. (f[m] = NULL <=> k = l) /\ (p[m] = NULL <=> k = 1)
  BY <1>1, <1>3 DEF At
<1>5. f1 \in [Nodes -> Pointers] /\ p1 \in [Nodes -> Pointers]
  BY <1>1 DEF Pointers
<1>6. ASSUME NEW i \in 1..l, i # k
      PROVE  /\ f1[w[i]] = IF i = k - 1 THEN At(w, k+1) ELSE At(w, i+1)
             /\ p1[w[i]] = IF i = k + 1 THEN At(w, k-1) ELSE At(w, i-1)
  <2>1. f1[w[i]] = IF i = k - 1 THEN At(w, k+1) ELSE f[w[i]]
    <3>1. CASE k = 1
      BY <1>1, <1>4, <3>1
    <3>2. CASE k # 1
      <4>1. k - 1 \in 1..l /\ p[m] = w[k-1] /\ f1 = [f EXCEPT ![w[k-1]] = f[m]]
        BY <1>1, <1>3, <1>4, <3>2, ZenonT(30) DEF At
      <4>2. i # k - 1 => w[i] # w[k-1]
        BY <4>1 DEF Distinct
      <4> QED
        BY <1>1, <1>3, <4>1, <4>2
    <3> QED
      BY <3>1, <3>2
  <2>2. p1[w[i]] = IF i = k + 1 THEN At(w, k-1) ELSE p[w[i]]
    <3>1. CASE k = l
      BY <1>1, <1>4, <3>1
    <3>2. CASE k # l
      <4>1. k + 1 \in 1..l /\ f[m] = w[k+1] /\ p1 = [p EXCEPT ![w[k+1]] = p[m]]
        BY <1>1, <1>3, <1>4, <3>2, Zenon DEF At
      <4>2. i # k + 1 => w[i] # w[k+1]
        BY <4>1 DEF Distinct
      <4> QED
        BY <1>1, <1>3, <4>1, <4>2
    <3> QED
      BY <3>1, <3>2
  <2> QED
    BY <2>1, <2>2 DEF Chain, BackChain
<1> HIDE DEF f1, p1
<1>7. \A i \in 1..Len(v) : f1[v[i]] = At(v, i+1)
  <2> SUFFICES ASSUME NEW i \in 1..l-1 PROVE f1[v[i]] = At(v, i+1)
    BY <1>12, Zenon
  <2>1. CASE i < k
    <3>1. i \in 1..l /\ i # k /\ v[i] = w[i] /\ i + 1 \in Int
      BY <1>0, <1>1, <2>1
    <3>2. f1[v[i]] = IF i = k - 1 THEN At(w, k+1) ELSE At(w, i+1)
      BY <1>6, <3>1
    <3>3. At(v, i+1) = IF i + 1 < k THEN At(w, i+1) ELSE At(w, (i+1)+1)
      BY <1>2, <3>1, SMTT(30)
    <3>4. (i = k - 1 => (i + 1) + 1 = k + 1 /\ ~(i + 1 < k)) /\ (i # k - 1 => i + 1 < k)
      BY <2>1
    <3> QED
      BY <3>2, <3>3, <3>4
  <2>2. CASE ~(i < k)
    <3>1. i + 1 \in 1..l /\ i + 1 # k /\ i + 1 # k - 1 /\ v[i] = w[i+1] /\ i + 1 \in Int /\ ~(i + 1 < k)
      BY <1>0, <1>1, <2>2
    <3>2. f1[v[i]] = At(w, (i+1)+1)
      BY <1>6, <3>1
    <3> QED
      BY <1>2, <3>1, <3>2
  <2> QED
    BY <2>1, <2>2
<1>8. \A i \in 1..Len(v) : p1[v[i]] = At(v, i-1)
  <2> SUFFICES ASSUME NEW i \in 1..l-1 PROVE p1[v[i]] = At(v, i-1)
    BY <1>12
  <2>1. CASE i < k
    <3>1. i \in 1..l /\ i # k /\ i # k + 1 /\ i - 1 \in Int /\ i - 1 < k
      BY <1>1, <2>1
    <3>2. v[i] = w[i]
      BY <1>0, <2>1
    <3>3. p1[v[i]] = At(w, i-1)
      BY <1>6, <3>1, <3>2
    <3> QED
      BY <1>2, <3>1, <3>3
  <2>2. CASE ~(i < k)
    <3>1. i + 1 \in 1..l /\ i + 1 # k /\ v[i] = w[i+1] /\ i - 1 \in Int
      BY <1>0, <1>1, <2>2
    <3>2. p1[v[i]] = IF i + 1 = k + 1 THEN At(w, k-1) ELSE At(w, (i+1)-1)
      BY <1>6, <3>1
    <3>3. At(v, i-1) = IF i - 1 < k THEN At(w, i-1) ELSE At(w, (i-1)+1)
      BY <1>2, <3>1, SMTT(30)
    <3>4. (i + 1)-1 = i /\ (i-1)+1 = i /\ (i = k => i - 1 < k) /\ (i # k => ~(i - 1 < k) /\ i + 1 # k + 1)
      BY <2>2
    <3> QED
      BY <3>2, <3>3, <3>4
  <2> QED
    BY <2>1, <2>2
<1>9. s1 = At(v, 1)
  <2>1. At(v, 1) = IF 1 < k THEN At(w, 1) ELSE At(w, 2)
    BY <1>2
  <2> QED
    BY <1>3, <1>4, <2>1 DEF Chain
<1>10. s1 = NULL <=> l = 1
  <2>1. l # 1 => 1 \in 1..Len(v) /\ v[1] \in Nodes
    BY <1>1, <1>12
  <2>2. l = 1 => At(v, 1) = NULL
    BY <1>12 DEF At
  <2>3. l # 1 => At(v, 1) \in Nodes
    BY <2>1 DEF At
  <2> HIDE DEF s1
  <2> QED
    BY <1>9, <2>2, <2>3
<1>11. e1 = At(v, Len(v))
  <2>1. l - 1 \in Int
    BY <1>1
  <2>2. At(v, l-1) = IF l - 1 < k THEN At(w, l-1) ELSE At(w, (l-1)+1)
    BY <1>2, <2>1, SMTT(30)
  <2>3. (l-1)+1 = l /\ e = At(w, l)
    BY <1>1 DEF BackChain
  <2>4. CASE l = 1
    BY <1>10, <1>12, <2>4 DEF At
  <2>5. CASE l # 1
    <3>1. e1 = IF k = l THEN At(w, k-1) ELSE At(w, l)
      BY <1>3, <1>4, <1>10, <2>3, <2>5, ZenonT(30)
    <3>2. l - 1 < k <=> k = l
      BY <1>1
    <3> QED
      BY <1>12, <2>2, <2>3, <3>1, <3>2, SMTT(30)
  <2> QED
    BY <2>4, <2>5
<1> QED
  BY <1>5, <1>7, <1>8, <1>9, <1>10, <1>11 DEF Chain, BackChain, v, f1, p1, Spliced

(* The chain of w from its second cell on.                                 *)
TailListed(f, s, w) ==
  /\ s = w[1] /\ 1 \in 1..Len(w) /\ Chain(f, f[s], Tail(w))
  /\ Tail(w) \in Seq(Nodes) /\ Distinct(Tail(w)) /\ Range(Tail(w)) = Range(w) \ {s}
  /\ Len(Tail(w)) = Len(w) - 1 /\ (f[s] = NULL <=> Tail(w) = <<>>)
  /\ At(Tail(w), Len(Tail(w))) = IF f[s] = NULL THEN NULL ELSE At(w, Len(w))

(* queue_get: the head of a lane moves on to its successor.                *)
LEMMA ChainTail ==
  ASSUME NEW f, NEW s, NEW w \in Seq(Nodes), Distinct(w), Chain(f, s, w), w # <<>>
  PROVE  TailListed(f, s, w)
<1> DEFINE v == Tail(w)
<1>1. Len(w) \in Nat /\ Len(w) > 0 /\ 1 \in 1..Len(w) /\ \A i \in 1..Len(w) : w[i] \in Nodes
  OBVIOUS
<1>2. s = w[1]
  BY <1>1 DEF Chain, At
<1>3. v \in Seq(Nodes) /\ Len(v) = Len(w) - 1 /\ \A i \in 1..Len(v) : v[i] = w[i+1]
  BY <1>1
<1>4. v = Without(w, 1)
  <2> DEFINE u == Without(w, 1)
  <2>1. u \in Seq(Nodes) /\ Len(u) = Len(w) - 1 /\ \A i \in 1..Len(w)-1 : u[i] = w[i+1]
    BY <1>1, WithoutFacts
  <2> HIDE DEF u, v
  <2>2. Len(v) = Len(u) /\ \A i \in 1..Len(v) : v[i] = u[i]
    BY <1>3, <2>1
  <2>3. v = u
    BY <1>3, <2>1, <2>2, SeqEqual
  <2> QED
    BY <2>3 DEF u
<1> HIDE DEF v
<1>5. /\ Distinct(v) /\ Range(v) = Range(w) \ {s}
      /\ \A i \in Int : At(v, i) = IF i < 1 THEN At(w, i) ELSE At(w, i+1)
  BY <1>1, <1>2, <1>4, WithoutFacts, ZenonT(30)
<1>6. f[s] = At(v, 1)
  BY <1>1, <1>2, <1>5 DEF Chain
<1>7. ASSUME NEW i \in 1..Len(v) PROVE f[v[i]] = At(v, i+1)
  <2>1. i + 1 \in 1..Len(w) /\ i + 1 \in Int /\ ~(i + 1 < 1)
    BY <1>1, <1>3
  <2>2. f[v[i]] = At(w, (i+1)+1)
    BY <1>3, <2>1 DEF Chain
  <2> QED
    BY <1>5, <2>1, <2>2
<1>8. f[s] = NULL <=> v = <<>>
  BY <1>1, <1>3, <1>6 DEF At
<1>9. At(v, Len(v)) = IF f[s] = NULL THEN NULL ELSE At(w, Len(w))
  BY <1>1, <1>3, <1>6 DEF At
<1>10. Chain(f, f[s], v)
  BY <1>6, <1>7 DEF Chain
<1> QED
  BY <1>1, <1>2, <1>3, <1>5, <1>8, <1>9, <1>10, Zenon DEF v, TailListed
-----------------------------------------------------------------------------
Global == Walk(next, first)
Lane(x) == Walk(xnext, xfirst[x])

Listed(f, s, w) == w \in Seq(Nodes) /\ Distinct(w) /\ Chain(f, s, w)

(***************************************************************************)
(* The inductive invariant.  The walks end, so that they are chains, and   *)
(* the ends the code keeps are theirs; the lanes share no cell, since the  *)
(* cells of each have its xmark.                                           *)
(***************************************************************************)
LInv ==
  /\ next \in [Nodes -> Pointers] /\ prev \in [Nodes -> Pointers]
  /\ xnext \in [Nodes -> Pointers]
  /\ xmark = [n \in Nodes |-> xmark[n]]
  /\ xfirst \in [Xmarks -> Pointers] /\ xlast \in [Xmarks -> Pointers]
  /\ freed \in BOOLEAN
  /\ Listed(next, first, Global) /\ BackChain(prev, last, Global)
  /\ length = Len(Global)
  /\ freed => allocated = {}
  /\ ~freed => /\ Range(Global) = allocated
               /\ \A x \in Xmarks : Range(Lane(x)) = {n \in allocated : xmark[n] = x}
  /\ \A x \in Xmarks : /\ Listed(xnext, xfirst[x], Lane(x))
                       /\ xlast[x] = At(Lane(x), Len(Lane(x)))

(* What a step makes of a list is what it finds when it walks it.          *)
LEMMA WalkListed ==
  ASSUME NEW f, NEW s, NEW w, Listed(f, s, w)
  PROVE  Walk(f, s) = w
  BY WalkIsChain DEF Listed

(* Empty lists.                                                            *)
LEMMA LInit ==
  Init => LInv /\ Global = <<>> /\ \A x \in Xmarks : Lane(x) = <<>>
<1> SUFFICES ASSUME Init PROVE LInv /\ Global = <<>> /\ \A x \in Xmarks : Lane(x) = <<>>
  OBVIOUS
<1> DEFINE w == <<>>
<1>1. w \in Seq(Nodes) /\ Len(w) = 0 /\ Distinct(w) /\ Range(w) = {}
  BY DEF Distinct, Range
<1>2. \A i \in Int : At(w, i) = NULL
  BY DEF At
<1> HIDE DEF w
<1>3. \A f : Listed(f, NULL, w) /\ BackChain(f, NULL, w)
  BY <1>1, <1>2 DEF Listed, Chain, BackChain
<1>4. Global = w /\ \A x \in Xmarks : Lane(x) = w
  BY <1>3, WalkListed DEF Init, Global, Lane
<1>5. \A x \in Xmarks : /\ Listed(xnext, xfirst[x], Lane(x))
                        /\ xlast[x] = At(Lane(x), Len(Lane(x)))
  BY <1>1, <1>2, <1>3, <1>4 DEF Init
<1>6. /\ Listed(next, first, Global) /\ BackChain(prev, last, Global)
      /\ length = Len(Global)
  BY <1>1, <1>3, <1>4 DEF Init
<1>7. xmark = [n \in Nodes |-> xmark[n]]
  BY DEF Init
<1>8. /\ next \in [Nodes -> Pointers] /\ prev \in [Nodes -> Pointers]
      /\ xnext \in [Nodes -> Pointers]
      /\ xfirst \in [Xmarks -> Pointers] /\ xlast \in [Xmarks -> Pointers]
  BY DEF Init, Pointers
<1>9. freed = FALSE /\ allocated = {}
  BY DEF Init
<1>10. LInv
  BY <1>1, <1>4, <1>5, <1>6, <1>7, <1>8, <1>9, Zenon DEF LInv
<1> QED
  BY <1>4, <1>10 DEF w

(* queue_add: the cell ends the global list and its lane; the other lanes  *)
(* are as they were.                                                       *)
LEMMA AddLinks ==
  ASSUME LInv, NEW m \in Nodes \ allocated, NEW x \in Xmarks, queue_add(m, x)
  PROVE  /\ LInv'
         /\ Lane(x)' = Append(Lane(x), m)
         /\ \A y \in Xmarks \ {x} : Lane(y)' = Lane(y)
<1> DEFINE w == Global
           v == Lane(x)
<1>1. /\ Listed(next, first, w) /\ Range(w) = allocated
      /\ last = At(w, Len(w)) /\ BackChain(prev, last, w)
  BY DEF LInv, queue_add, BackChain
<1>2. /\ Listed(xnext, xfirst[x], v) /\ xlast[x] = At(v, Len(v))
      /\ Range(v) = {n \in allocated : xmark[n] = x}
  BY Zenon DEF LInv, queue_add
<1>3. m \notin Range(w) /\ m \notin Range(v)
  BY <1>1, <1>2
<1>4. /\ Listed(next', first', Append(w, m)) /\ next' \in [Nodes -> Pointers]
  <2>1. /\ Chain(next', first', Append(w, m))
        /\ Distinct(Append(w, m)) /\ Append(w, m) \in Seq(Nodes)
        /\ next' \in [Nodes -> Pointers]
    <3>1. next' = Joined(next, last, m) /\ first' = Started(first, last, m)
      BY DEF queue_add, link_global, Joined, Started
    <3>2. next \in [Nodes -> Pointers] /\ w \in Seq(Nodes) /\ Distinct(w)
          /\ Chain(next, first, w)
      BY <1>1 DEF LInv, Listed
    <3> HIDE DEF w
    <3> QED
      BY <1>1, <1>3, <3>1, <3>2, ChainLinked, Zenon
  <2> QED
    BY <2>1 DEF Listed
<1>5. BackChain(prev', last', Append(w, m)) /\ prev' \in [Nodes -> Pointers]
  BY <1>1, <1>3, BackChainLinked, Zenon DEF Listed, LInv, queue_add, link_global
<1>6. Global' = Append(w, m)
  BY <1>4, WalkListed, ZenonT(30) DEF Global
<1>7. /\ Listed(xnext', xfirst'[x], Append(v, m)) /\ xnext' \in [Nodes -> Pointers]
      /\ xlast'[x] = At(Append(v, m), Len(Append(v, m)))
  <2>1. xfirst'[x] = (IF xlast[x] = NULL THEN m ELSE xfirst[x]) /\ xlast'[x] = m
    BY DEF queue_add, link_lane, LInv
  <2>2. /\ Chain(xnext', xfirst'[x], Append(v, m))
        /\ Distinct(Append(v, m)) /\ Append(v, m) \in Seq(Nodes)
        /\ xnext' \in [Nodes -> Pointers]
        /\ At(Append(v, m), Len(Append(v, m))) = m
    <3> DEFINE a == xfirst[x]
               b == xlast[x]
    <3>1. xnext' = Joined(xnext, b, m) /\ xfirst'[x] = Started(a, b, m)
      BY <2>1 DEF queue_add, link_lane, Joined, Started
    <3>2. xnext \in [Nodes -> Pointers] /\ v \in Seq(Nodes) /\ Distinct(v)
          /\ Chain(xnext, a, v)
      BY <1>2 DEF LInv, Listed
    <3>3. b = At(v, Len(v)) /\ m \notin Range(v) /\ m \in Nodes
      BY <1>2, <1>3, Zenon
    <3> HIDE DEF v, a, b
    <3>4. /\ Chain(Joined(xnext, b, m), Started(a, b, m), Append(v, m))
          /\ Joined(xnext, b, m) \in [Nodes -> Pointers]
          /\ Distinct(Append(v, m)) /\ Append(v, m) \in Seq(Nodes)
          /\ At(Append(v, m), Len(Append(v, m))) = m
      BY <3>2, <3>3, ChainLinked, ZenonT(30)
    <3> QED
      BY <3>1, <3>4, ZenonT(30)
  <2> QED
    BY <2>1, <2>2 DEF Listed
<1>8. Lane(x)' = Append(v, m)
  BY <1>7, WalkListed, Zenon DEF Lane
<1>9. ASSUME NEW y \in Xmarks \ {x}
      PROVE  /\ Listed(xnext', xfirst'[y], Lane(y)) /\ Lane(y)' = Lane(y)
             /\ xlast'[y] = xlast[y]
  <2>1. /\ Listed(xnext, xfirst[y], Lane(y))
        /\ Range(Lane(y)) = {n \in allocated : xmark[n] = y}
    BY ZenonT(30) DEF LInv, queue_add
  <2>2. xfirst'[y] = xfirst[y] /\ xlast'[y] = xlast[y]
    BY DEF LInv, queue_add, link_lane
  <2>3. xlast[x] # NULL => xlast[x] \in Range(v)
    BY <1>2 DEF At, Range
  <2>4. ASSUME NEW n \in Range(Lane(y)) PROVE xnext'[n] = xnext[n]
    <3>1. n \in Nodes /\ n # m /\ n # xlast[x]
      <4>1. n \in allocated /\ xmark[n] = y
        BY <2>1, Zenon
      <4>2. n \notin Range(v)
        BY <1>2, <4>1, Zenon
      <4>3. n \in Nodes /\ n # NULL
        BY <2>1, ListAssumption DEF Listed, Range
      <4>4. n # m
        BY <1>1, <4>1, Zenon
      <4> QED
        BY <2>3, <4>1, <4>2, <4>3, <4>4, Zenon
    <3> QED
      BY <3>1 DEF LInv, queue_add, link_lane
  <2>5. Chain(xnext', xfirst'[y], Lane(y))
    BY <2>1, <2>2, <2>4, ChainKept, SMTT(30) DEF Listed
  <2>6. Listed(xnext', xfirst'[y], Lane(y))
    BY <2>1, <2>5 DEF Listed
  <2> QED
    BY <2>2, <2>6, WalkListed DEF Lane
<1>10. w \in Seq(Nodes) /\ v \in Seq(Nodes)
  BY <1>1, <1>2 DEF Listed
<1>11. Range(Append(w, m)) = Range(w) \cup {m} /\ Range(Append(v, m)) = Range(v) \cup {m}
       /\ Len(Append(w, m)) = Len(w) + 1
  BY <1>3, <1>10, AppendedFacts
<1> HIDE DEF w, v
<1>12. Range(Global') = allocated' /\ length' = Len(Global')
  BY <1>1, <1>6, <1>11 DEF queue_add, counted, LInv, w
<1>13. xmark' = [n \in Nodes |-> xmark'[n]] /\ xmark'[m] = x
       /\ \A n \in Nodes \ {m} : xmark'[n] = xmark[n]
  BY Zenon DEF LInv, queue_add
<1>14. allocated \subseteq Nodes
  BY <1>1, <1>10 DEF Range
<1>15. ASSUME NEW y \in Xmarks PROVE Range(Lane(y)') = {n \in allocated' : xmark'[n] = y}
  <2>1. allocated' = allocated \cup {m}
    BY DEF queue_add
  <2>2. CASE y = x
    BY <1>2, <1>8, <1>11, <1>13, <1>14, <2>1, <2>2, ZenonT(30)
  <2>3. CASE y # x
    <3>1. Range(Lane(y)) = {n \in allocated : xmark[n] = y}
      BY Zenon DEF LInv, queue_add
    <3> QED
      BY <1>9, <1>13, <1>14, <2>1, <2>3, <3>1
  <2> QED
    BY <2>2, <2>3
<1>16. ASSUME NEW y \in Xmarks
       PROVE  /\ Listed(xnext', xfirst'[y], Lane(y)')
              /\ xlast'[y] = At(Lane(y)', Len(Lane(y)'))
  <2>1. CASE y = x
    BY <1>7, <1>8, <2>1, ZenonT(30)
  <2>2. CASE y # x
    <3>1. xlast[y] = At(Lane(y), Len(Lane(y)))
      BY DEF LInv
    <3> QED
      BY <1>9, <2>2, <3>1
  <2> QED
    BY <2>1, <2>2
<1>17. xfirst' \in [Xmarks -> Pointers] /\ xlast' \in [Xmarks -> Pointers]
  BY DEF LInv, queue_add, link_lane, Pointers
<1>18. freed' = freed /\ ~freed /\ freed' \in BOOLEAN
  BY DEF queue_add, LInv
<1>19. LInv'
  BY <1>4, <1>5, <1>6, <1>7, <1>12, <1>13, <1>15, <1>16, <1>17, <1>18, SMTT(30) DEF LInv
<1> QED
  BY <1>8, <1>9, <1>19 DEF v

(* queue_get: the first cell of the lane leaves it, and leaves the global  *)
(* list from wherever it is; the other lanes are as they were.             *)
LEMMA GetUnlinks ==
  ASSUME LInv, NEW x \in Xmarks, queue_get(x)
  PROVE  /\ LInv'
         /\ Lane(x) # <<>> /\ Lane(x)' = Tail(Lane(x))
         /\ \A y \in Xmarks \ {x} : Lane(y)' = Lane(y)
         /\ length' = length - 1
<1> DEFINE w == Global
           v == Lane(x)
           m == xfirst[x]
<1>1. /\ next \in [Nodes -> Pointers] /\ prev \in [Nodes -> Pointers]
      /\ w \in Seq(Nodes) /\ Distinct(w) /\ Chain(next, first, w) /\ BackChain(prev, last, w)
      /\ Range(w) = allocated /\ length = Len(w)
  BY DEF LInv, Listed, queue_get
<1>2. /\ v \in Seq(Nodes) /\ Distinct(v) /\ Chain(xnext, m, v) /\ xlast[x] = At(v, Len(v))
      /\ Range(v) = {n \in allocated : xmark[n] = x}
  BY ZenonT(30) DEF LInv, Listed, queue_get
<1>3. m # NULL /\ v # <<>>
  <2>1. m # NULL
    BY DEF queue_get
  <2> QED
    BY <1>2, <2>1 DEF Chain, At
<1>4. /\ m = v[1] /\ 1 \in 1..Len(v) /\ Chain(xnext, xnext[m], Tail(v))
      /\ Tail(v) \in Seq(Nodes) /\ Distinct(Tail(v)) /\ Range(Tail(v)) = Range(v) \ {m}
      /\ Len(Tail(v)) = Len(v) - 1 /\ (xnext[m] = NULL <=> Tail(v) = <<>>)
      /\ At(Tail(v), Len(Tail(v))) = IF xnext[m] = NULL THEN NULL ELSE At(v, Len(v))
  <2> HIDE DEF v, m
  <2> QED
    <3>1. TailListed(xnext, m, v)
      BY <1>2, <1>3, ChainTail, Zenon
    <3> QED
      BY <3>1, Zenon DEF TailListed
<1>5. m \in Range(v) /\ m \in allocated /\ xmark[m] = x
  <2>1. m \in Range(v)
    BY <1>4 DEF Range
  <2> QED
    BY <1>2, <2>1
<1>6. PICK k \in 1..Len(w) : m = w[k]
  BY <1>1, <1>5 DEF Range
<1>7. /\ next' = Cut(next, prev, m) /\ prev' = Cut(prev, next, m)
      /\ first' = CutFirst(next, prev, first, m)
      /\ last' = CutLast(next, prev, first', last, m)
  BY DEF queue_get, splice_out, Cut, CutFirst, CutLast
<1> DEFINE u == Without(w, k)
<1>8. /\ Chain(next', first', u) /\ BackChain(prev', last', u)
      /\ next' \in [Nodes -> Pointers] /\ prev' \in [Nodes -> Pointers]
      /\ (first' = NULL <=> Len(w) = 1)
  <2> HIDE DEF w, m
  <2>1. Spliced(next, prev, first, last, w, k)
    BY <1>1, ChainSpliced
  <2> QED
    BY <1>6, <1>7, <2>1 DEF Spliced
<1>9. u \in Seq(Nodes) /\ Len(u) = Len(w) - 1 /\ Distinct(u) /\ Range(u) = allocated \ {m}
  <2> HIDE DEF w, m
  <2> QED
    BY <1>1, <1>6, WithoutFacts, Zenon
<1> HIDE DEF u
<1>10. Listed(next', first', u)
  BY <1>8, <1>9 DEF Listed
<1>11. Global' = u
  BY <1>10, WalkListed DEF Global
<1>12. length' = Len(u) /\ length' = length - 1
  <2>1. length' = IF first' = NULL THEN 0 ELSE length - 1
    BY DEF queue_get
  <2> HIDE DEF w
  <2>2. Len(w) \in Nat
    BY <1>1
  <2> QED
    BY <1>1, <1>8, <1>9, <2>1, <2>2
<1>13. /\ xfirst'[x] = xnext[m] /\ \A y \in Xmarks \ {x} : xfirst'[y] = xfirst[y]
       /\ xfirst' \in [Xmarks -> Pointers]
       /\ xnext' = xnext /\ xmark' = xmark /\ freed' = freed /\ ~freed
       /\ allocated' = allocated \ {m}
  <2>0. m \in Nodes
    BY <1>2, <1>4, Cells, Zenon
  <2>1. xnext[m] \in Pointers
    BY <2>0, Zenon DEF LInv
  <2> QED
    BY <2>1 DEF LInv, queue_get
<1>14. /\ xlast'[x] = (IF xnext[m] = NULL THEN NULL ELSE xlast[x])
       /\ \A y \in Xmarks \ {x} : xlast'[y] = xlast[y]
       /\ xlast' \in [Xmarks -> Pointers]
  <2>1. xlast' = [xlast EXCEPT ![x] = IF xfirst'[x] = NULL THEN NULL ELSE @]
    BY DEF queue_get, xlast_reset
  <2>2. xlast \in [Xmarks -> Pointers]
    BY DEF LInv
  <2> HIDE DEF m
  <2> QED
    BY <1>13, <2>1, <2>2 DEF Pointers
<1>15. Listed(xnext', xfirst'[x], Tail(v)) /\ xlast'[x] = At(Tail(v), Len(Tail(v)))
  <2> HIDE DEF v, m
  <2> QED
    BY <1>2, <1>4, <1>13, <1>14, ZenonT(30) DEF Listed
<1>16. Lane(x)' = Tail(v)
  BY <1>15, WalkListed, Zenon DEF Lane
<1>17. ASSUME NEW y \in Xmarks \ {x} PROVE Lane(y)' = Lane(y)
  BY <1>13 DEF Lane
<1>18. ASSUME NEW y \in Xmarks
       PROVE  /\ Listed(xnext', xfirst'[y], Lane(y)')
              /\ xlast'[y] = At(Lane(y)', Len(Lane(y)'))
  <2>1. CASE y = x
    BY <1>15, <1>16, <2>1, ZenonT(30)
  <2>2. CASE y # x
    <3>1. Listed(xnext, xfirst[y], Lane(y)) /\ xlast[y] = At(Lane(y), Len(Lane(y)))
      BY DEF LInv
    <3>2. /\ Lane(y)' = Lane(y) /\ xnext' = xnext
          /\ xfirst'[y] = xfirst[y] /\ xlast'[y] = xlast[y]
      BY <1>13, <1>14, <1>17, <2>2
    <3> QED
      BY <3>1, <3>2
  <2> QED
    BY <2>1, <2>2
<1>19. ASSUME NEW y \in Xmarks PROVE Range(Lane(y)') = {n \in allocated' : xmark'[n] = y}
  <2> HIDE DEF v, m
  <2>1. CASE y = x
    BY <1>2, <1>4, <1>13, <1>16, <2>1, Zenon
  <2>2. CASE y # x
    <3>1. Range(Lane(y)) = {n \in allocated : xmark[n] = y}
      BY Zenon DEF LInv, queue_get
    <3> QED
      BY <1>5, <1>13, <1>17, <2>2, <3>1
  <2> QED
    BY <2>1, <2>2, SMTT(30)
<1>20. xnext' \in [Nodes -> Pointers] /\ xmark' = [n \in Nodes |-> xmark'[n]] /\ freed' \in BOOLEAN
  BY <1>13 DEF LInv
<1>21. Range(Global') = allocated'
  BY <1>9, <1>11, <1>13
<1>22. LInv'
  <2> HIDE DEF w, v, m
  <2> QED
    BY <1>8, <1>10, <1>11, <1>12, <1>13, <1>14, <1>18, <1>19, <1>20, <1>21, Zenon DEF LInv
<1> QED
  BY <1>3, <1>12, <1>16, <1>17, <1>22

(* queue_free reaches every cell that is allocated.                        *)
LEMMA FreeEmpties ==
  LInv /\ queue_free => LInv' /\ \A x \in Xmarks : Lane(x)' = Lane(x)
<1> SUFFICES ASSUME LInv, queue_free PROVE LInv' /\ \A x \in Xmarks : Lane(x)' = Lane(x)
  OBVIOUS
<1>1. UNCHANGED <<next, prev, xnext, xmark, first, last, xfirst, xlast, length>>
  BY DEF queue_free, heads
<1>2. Global' = Global /\ \A x \in Xmarks : Lane(x)' = Lane(x)
  BY <1>1 DEF Global, Lane
<1>3. freed' = TRUE /\ allocated' = {}
  BY DEF queue_free, LInv, Global
<1> QED
  BY <1>1, <1>2, <1>3 DEF LInv

(* Every step keeps the lists.                                             *)
LEMMA LNext == LInv /\ [Next]_vars => LInv'
<1> SUFFICES ASSUME LInv, [Next]_vars PROVE LInv'
  OBVIOUS
<1>1. CASE \E n \in Nodes \ allocated, x \in Xmarks : queue_add(n, x)
  BY <1>1, AddLinks, Zenon
<1>2. CASE \E x \in Xmarks : queue_get(x)
  BY <1>2, GetUnlinks, Zenon
<1>3. CASE queue_free
  BY <1>3, FreeEmpties
<1>4. CASE UNCHANGED vars
  BY <1>4, Zenon DEF vars, LInv, Global, Lane
<1> QED
  BY <1>1, <1>2, <1>3, <1>4, Zenon DEF Next

(* The invariant gives the property.                                       *)
LEMMA LInvPointers == LInv => PointersRight
<1> SUFFICES ASSUME LInv PROVE PointersRight
  OBVIOUS
<1>1. Walk(prev, last) = Reverse(Walk(next, first))
  BY WalkIsBackChain DEF LInv, Listed, Global
<1>2. ASSUME ~freed
      PROVE  /\ Range(Walk(next, first)) = allocated
             /\ \A x \in Xmarks : Range(Walk(xnext, xfirst[x])) = {n \in allocated : xmark[n] = x}
  BY <1>2, ZenonT(30) DEF LInv, Global, Lane
<1>3. ASSUME NEW x \in Xmarks PROVE xlast[x] = NULL <=> xfirst[x] = NULL
  <2> DEFINE v == Lane(x)
  <2>1. v \in Seq(Nodes) /\ xfirst[x] = At(v, 1) /\ xlast[x] = At(v, Len(v))
    BY DEF LInv, Listed, Chain
  <2> HIDE DEF v
  <2>2. Len(v) \in Nat /\ \A i \in 1..Len(v) : v[i] # NULL
    BY <2>1
  <2> QED
    BY <2>1, <2>2 DEF At
<1>4. freed => allocated = {}
  BY DEF LInv
<1> QED
  BY <1>1, <1>2, <1>3, <1>4, Zenon DEF PointersRight

(* However the cells are added, taken and used again, the global list      *)
(* reads the same from both ends, the lists reach the allocated cells and  *)
(* no others, and queue_free leaves none (queue.c:287-310, 381-412,        *)
(* 445-453).                                                               *)
THEOREM PointersStayRight == Spec => []PointersRight
<1>1. Init => LInv
  BY LInit
<1> QED
  BY <1>1, LNext, LInvPointers, PTL DEF Spec

(* The pointers implement first-in first-out lanes with the common bound   *)
(* (queue.c:248-318, 333-428).                                             *)
THEOREM ListsImplementLanes == Spec => LanesFIFO
<1> DEFINE lane == [x \in Xmarks |-> Lane(x)]
<1>1. Init => LInv /\ Lanes!Init
  <2> SUFFICES ASSUME Init PROVE LInv /\ Lanes!Init
    OBVIOUS
  <2>1. LInv /\ \A x \in Xmarks : Lane(x) = <<>>
    BY LInit
  <2>2. length = 0
    BY DEF Init
  <2> QED
    BY <2>1, <2>2 DEF Lanes!Init, Lane
<1>2. LInv /\ [Next]_vars
        => LInv' /\ [Lanes!Next]_<<[x \in Xmarks |-> Walk(xnext, xfirst[x])], length>>
  <2> SUFFICES ASSUME LInv, [Next]_vars
               PROVE  Lanes!Next \/ (length' = length /\ \A x \in Xmarks : Lane(x)' = Lane(x))
    BY LNext DEF Lane
  <2>1. ASSUME NEW m \in Nodes \ allocated, NEW x \in Xmarks, queue_add(m, x)
        PROVE  Lanes!Put(x, m)
    <3>1. Lane(x)' = Append(Lane(x), m) /\ \A y \in Xmarks \ {x} : Lane(y)' = Lane(y)
      BY <2>1, AddLinks
    <3>2. lane' = [lane EXCEPT ![x] = Append(@, m)]
      BY <3>1, ZenonT(30)
    <3>3. length < MAX_QUEUE_SIZE + 1 /\ length' = length + 1
      <4>1. length \in Nat
        BY DEF LInv, Listed
      <4> QED
        BY <2>1, <4>1 DEF queue_add, counted
    <3> QED
      BY <3>2, <3>3 DEF Lanes!Put, Lane
  <2>2. ASSUME NEW x \in Xmarks, queue_get(x) PROVE Lanes!Take(x)
    <3>1. /\ Lane(x) # <<>> /\ Lane(x)' = Tail(Lane(x)) /\ length' = length - 1
          /\ \A y \in Xmarks \ {x} : Lane(y)' = Lane(y)
      BY <2>2, GetUnlinks
    <3>2. lane' = [lane EXCEPT ![x] = Tail(@)] /\ lane[x] # <<>>
      BY <3>1, Zenon
    <3> QED
      BY <3>1, <3>2 DEF Lanes!Take, Lane
  <2>3. CASE queue_free
    BY <2>3, FreeEmpties DEF queue_free, heads
  <2>4. CASE UNCHANGED vars
    BY <2>4 DEF vars, Lane
  <2> QED
    BY <2>1, <2>2, <2>3, <2>4, Zenon DEF Next, Lanes!Next
<1> QED
  BY <1>1, <1>2, PTL DEF Spec, LanesFIFO, Lanes!Spec
=============================================================================
