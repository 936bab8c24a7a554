--------------------------- MODULE SchaufelProofs ---------------------------
(***************************************************************************)
(* Proofs about queue.c, and then about main.c on top of it, for every     *)
(* number of threads, messages and xmarks and every MAX_QUEUE_SIZE.        *)
(***************************************************************************)
EXTENDS Schaufel, TLAPS

(* Two lists joined.                                                       *)
LEMMA Concatenated ==
  ASSUME NEW S, NEW a \in Seq(S), NEW b \in Seq(S)
  PROVE  /\ a \o b \in Seq(S)
         /\ Len(a \o b) = Len(a) + Len(b)
         /\ \A k \in 1..Len(a) + Len(b) :
              (a \o b)[k] = IF k <= Len(a) THEN a[k] ELSE b[k - Len(a)]
  BY SMTT(30)

(* The places of a list.                                                   *)
LEMMA ListPlaces ==
  /\ DOMAIN <<>> = {}
  /\ \A S : \A s \in Seq(S) : Len(s) \in Nat /\ DOMAIN s = 1..Len(s)
  /\ \A n : \A k \in 1..n : k \in Int
  OBVIOUS

(* What is at those places.                                                *)
LEMMA ListElement ==
  ASSUME NEW S, NEW s \in Seq(S), NEW i \in DOMAIN s
  PROVE  s[i] \in S
  OBVIOUS

(* An element at the end of a list.                                        *)
LEMMA Appended ==
  ASSUME NEW S, NEW s \in Seq(S), NEW e \in S
  PROVE  /\ Append(s, e) \in Seq(S) /\ Len(Append(s, e)) = Len(s) + 1
         /\ \A i \in 1..Len(s) : Append(s, e)[i] = s[i]
         /\ Append(s, e)[Len(s) + 1] = e
  OBVIOUS

(* A list without its first element.                                       *)
LEMMA Shortened ==
  ASSUME NEW S, NEW s \in Seq(S), s # <<>>
  PROVE  /\ Tail(s) \in Seq(S) /\ Len(Tail(s)) = Len(s) - 1
         /\ \A k \in 1..Len(s) - 1 : Tail(s)[k] = s[k+1]
  OBVIOUS

(* A list with nothing in it.                                              *)
LEMMA NothingIn == Len(<<>>) = 0
  OBVIOUS

(* One message less is not more than the bound.                            *)
LEMMA ShorterFits ==
  ASSUME CapacityBound, Len(list) \in Nat, Len(list') = Len(list) - 1
  PROVE  CapacityBound'
  BY QueueAssumption DEF CapacityBound

(* Every node of the list is in its lane.                                  *)
LEMMA LaneOfNode ==
  ASSUME ListsAgree, NEW i \in DOMAIN list
  PROVE  \E k \in DOMAIN xlist[list[i].xmark] : xlist[list[i].xmark][k] = list[i]
  BY DEF ListsAgree

(* Every node of a lane is in the list.                                    *)
LEMMA NodeOfLane ==
  ASSUME ListsAgree, NEW y \in Xmarks, NEW k \in DOMAIN xlist[y]
  PROVE  xlist[y][k].xmark = y /\ \E i \in DOMAIN list : list[i] = xlist[y][k]
  BY DEF ListsAgree

(* A lane has its nodes in the order of the list.                          *)
LEMMA LaneOrder ==
  ASSUME ListsAgree, NEW y \in Xmarks, NEW k \in DOMAIN xlist[y], NEW l \in DOMAIN xlist[y],
         NEW i \in DOMAIN list, NEW j \in DOMAIN list,
         k < l, list[i] = xlist[y][k], list[j] = xlist[y][l]
  PROVE  i < j
  BY DEF ListsAgree

(* Steps that leave both lists alone.                                      *)
LEMMA ListsKept ==
  ASSUME ListsAgree, list' = list, xlist' = xlist
  PROVE  ListsAgree'
  BY DEF ListsAgree

(* Counting one more.                                                      *)
LEMMA OneMore == \A k \in Nat : k + 1 \in Nat
  OBVIOUS

(* Places moved one up from a place on keep their order.                   *)
LEMMA PlacesKept ==
  ASSUME NEW i \in Int, NEW j \in Int, NEW n \in Int, NEW i0, NEW j0,
         i0 = IF i < n THEN i ELSE i + 1, j0 = IF j < n THEN j ELSE j + 1, i0 < j0
  PROVE  i < j
  OBVIOUS

(* Steps that leave every message where it is.                             *)
LEMMA MessagesKept ==
  ASSUME Conservation, list' = list, pc' = pc, newmsg' = newmsg, unread' = unread,
         dropped' = dropped, taken' = taken
  PROVE  Conservation'
  BY DEF Conservation, InHand, Queued

(* A message goes from the hand of a consumer into the lists.              *)
LEMMA HandToList ==
  ASSUME Conservation, NEW m \in InHand, InHand' = InHand \ {m}, Queued' = Queued \cup {m},
         unread' = unread, dropped' = dropped, taken' = taken,
         \A c, d \in Consumers :
           c # d /\ pc'[c] # "idle" /\ pc'[d] # "idle" => newmsg'[c].msg # newmsg'[d].msg,
         \A i, j \in DOMAIN list' : i # j => list'[i].msg # list'[j].msg
  PROVE  Conservation'
  BY DEF Conservation

(***************************************************************************)
(* Splicing the only occurrence of a node out of a list shortens it by one *)
(* and moves what follows one place up (the unlinking in queue_get).       *)
(***************************************************************************)
LEMMA Splice ==
  ASSUME NEW S, NEW s \in Seq(S), NEW n \in 1..Len(s),
         \A j \in 1..Len(s) : s[j] = s[n] => j = n
  PROVE  /\ spliced(s, s[n]) \in Seq(S)
         /\ Len(spliced(s, s[n])) = Len(s) - 1
         /\ \A k \in 1..Len(s)-1 :
              spliced(s, s[n])[k] = IF k < n THEN s[k] ELSE s[k+1]
<1>3. (CHOOSE j \in DOMAIN s : s[j] = s[n]) = n
  OBVIOUS
<1> DEFINE a == SubSeq(s, 1, n-1)
           b == SubSeq(s, n+1, Len(s))
<1>4. spliced(s, s[n]) = a \o b
  BY <1>3, Zenon DEF spliced
<1>5. a \in Seq(S) /\ Len(a) = n - 1 /\ \A k \in 1..n-1 : a[k] = s[k]
  OBVIOUS
<1>6. b \in Seq(S) /\ Len(b) = Len(s) - n /\ \A k \in 1..Len(s)-n : b[k] = s[n+k]
  OBVIOUS
<1> HIDE DEF a, b
<1>7. /\ a \o b \in Seq(S)
      /\ Len(a \o b) = Len(s) - 1
      /\ \A k \in 1..Len(s) - 1 :
           (a \o b)[k] = IF k <= n - 1 THEN a[k] ELSE b[k - (n - 1)]
  <2>1. /\ a \o b \in Seq(S)
        /\ Len(a \o b) = Len(a) + Len(b)
        /\ \A k \in 1..Len(a) + Len(b) :
             (a \o b)[k] = IF k <= Len(a) THEN a[k] ELSE b[k - Len(a)]
    BY <1>5, <1>6, Concatenated, Zenon
  <2>2. Len(s) \in Nat /\ Len(a) + Len(b) = Len(s) - 1 /\ Len(a) = n - 1
    BY <1>5, <1>6
  <2> QED
    BY <2>1, <2>2, Zenon
<1>8. ASSUME NEW k \in 1..Len(s)-1
      PROVE  (a \o b)[k] = IF k < n THEN s[k] ELSE s[k+1]
  <2>1. CASE k < n
    BY <2>1, <1>5, <1>7
  <2>2. CASE ~ k < n
    <3>1. k - (n-1) \in 1..Len(s)-n
      BY <2>2
    <3>2. (a \o b)[k] = b[k - (n-1)]
      BY <2>2, <1>7
    <3>3. b[k - (n-1)] = s[n + (k - (n-1))]
      BY <3>1, <1>6, Zenon
    <3> QED
      BY <2>2, <3>2, <3>3
  <2> QED
    BY <2>1, <2>2, Zenon
<1> QED
  BY <1>4, <1>7, <1>8

(* Place n is taken out of s, which leaves t.                              *)
MovedUp(s, t, n) ==
  /\ Len(t) = Len(s) - 1
  /\ \A k \in 1..Len(s)-1 : t[k] = IF k < n THEN s[k] ELSE s[k+1]

(* What is left was there before.                                          *)
LEMMA SplicedFrom ==
  ASSUME NEW S, NEW s \in Seq(S), NEW t \in Seq(S), NEW n \in 1..Len(s), MovedUp(s, t, n)
  PROVE  \A i \in DOMAIN t : \E j \in DOMAIN s : t[i] = s[j]
<1>1. /\ Len(s) \in Nat /\ DOMAIN s = 1..Len(s) /\ DOMAIN t = 1..Len(s)-1
      /\ \A k \in 1..Len(s)-1 : k \in 1..Len(s) /\ k+1 \in 1..Len(s)
  BY DEF MovedUp
<1> QED
  BY <1>1, Zenon DEF MovedUp

(***************************************************************************)
(* The inductive invariant.  No conjunct is inductive alone: that no       *)
(* wakeup is lost needs the counters to agree with the lists, that needs   *)
(* the node queue_get unlinks from its lane to be in the global list once, *)
(* and that needs every message to be in one place only.                   *)
(***************************************************************************)
IInv ==
  /\ TypeOK
  /\ CountersAgree
  /\ CapacityBound
  /\ NoLostWakeup
  /\ ListsAgree
  /\ Conservation
  /\ StatsAddUp

(* An empty queue with nobody in it satisfies the invariant.               *)
LEMMA InitIInv == Init => IInv
<1> SUFFICES ASSUME Init PROVE IInv
  OBVIOUS
<1> USE QueueAssumption DEF Init
<1>1. TypeOK
  BY DEF TypeOK, Threads, AddPc, GetPc, NoNode, Node
<1>2. CountersAgree /\ CapacityBound /\ StatsAddUp
  BY DEF CountersAgree, CapacityBound, StatsAddUp
<1>3. NoLostWakeup
  BY DEF NoLostWakeup, Full, Threads
<1>4. ListsAgree
  BY DEF ListsAgree
<1>5. Conservation
  BY DEF Conservation, InHand, Queued, Threads
<1> QED
  BY <1>1, <1>2, <1>3, <1>4, <1>5 DEF IInv

(***************************************************************************)
(* When consumer c leaves queue_add, its message leaves the hands, and no  *)
(* other message does.                                                     *)
(***************************************************************************)
LEMMA LeaveHand ==
  ASSUME TypeOK, Conservation, NEW c \in Consumers, pc[c] # "idle", pc'[c] = "idle",
         newmsg' = [newmsg EXCEPT ![c] = NoNode],
         \A d \in Consumers \ {c} : pc'[d] = "idle" <=> pc[d] = "idle"
  PROVE  /\ newmsg[c] \in Node
         /\ newmsg[c].msg \in InHand
         /\ InHand' = InHand \ {newmsg[c].msg}
         /\ \A d, e \in Consumers :
              d # e /\ pc'[d] # "idle" /\ pc'[e] # "idle" => newmsg'[d].msg # newmsg'[e].msg
<1>1. newmsg[c] \in Node
  BY DEF TypeOK
<1>2. newmsg[c].msg \in InHand
  BY DEF InHand
<1>3. \A d \in Consumers \ {c} : newmsg'[d] = newmsg[d]
  BY DEF TypeOK
<1>4. ASSUME NEW d \in Consumers, pc'[d] # "idle"
      PROVE  d # c /\ pc[d] # "idle" /\ newmsg'[d] = newmsg[d]
  BY <1>3, <1>4
<1>5. ASSUME NEW d \in Consumers, pc[d] # "idle", newmsg[d].msg # newmsg[c].msg
      PROVE  pc'[d] # "idle" /\ newmsg'[d] = newmsg[d]
  BY <1>3, <1>5
<1>6. InHand' \subseteq InHand \ {newmsg[c].msg}
  BY <1>4 DEF InHand, Conservation
<1>7. InHand \ {newmsg[c].msg} \subseteq InHand'
  BY <1>5 DEF InHand
<1>8. ASSUME NEW d \in Consumers, NEW e \in Consumers,
             d # e, pc'[d] # "idle", pc'[e] # "idle"
      PROVE  newmsg'[d].msg # newmsg'[e].msg
  BY <1>4, <1>8 DEF Conservation
<1> QED
  BY <1>1, <1>2, <1>6, <1>7, <1>8

(* queue_add before the mutex moves one message into a consumer's hand.    *)
LEMMA AddPreserves ==
  ASSUME IInv, NEW c \in Consumers, NEW m \in unread,
         unread' = unread \ {m}, queue_add(c, m)
  PROVE  IInv'
<1> USE QueueAssumption DEF IInv, queue_add, lists, counters
<1>1. PICK x \in Xmarks : newmsg' = [newmsg EXCEPT ![c] = [msg |-> m, xmark |-> x]]
  BY Zenon
<1>2. TypeOK'
  <2>1. m \in Messages /\ [msg |-> m, xmark |-> x] \in Node
    BY <1>1 DEF TypeOK, Node
  <2>2. [msg |-> m, xmark |-> x] # NoNode
    BY <2>1 DEF NoNode, Node
  <2>3. /\ newmsg' \in [Consumers -> Node \cup {NoNode}]
        /\ newmsg'[c] # NoNode
        /\ \A d \in Consumers \ {c} : newmsg'[d] = newmsg[d]
    BY <1>1, <2>1, <2>2 DEF TypeOK
  <2>4. /\ pc' \in [Threads -> AddPc \cup GetPc]
        /\ pc'[c] = "add"
        /\ \A t \in Threads \ {c} : pc'[t] = pc[t]
    BY DEF TypeOK, Threads, AddPc
  <2>5. /\ \A d \in Consumers : pc'[d] \in AddPc
        /\ \A p \in Producers : pc'[p] \in GetPc
        /\ \A d \in Consumers : newmsg'[d] = NoNode <=> pc'[d] = "idle"
    BY <2>3, <2>4 DEF TypeOK, Threads, AddPc
  <2> QED
    BY <2>3, <2>4, <2>5, Zenon DEF TypeOK
<1>3. (CountersAgree /\ CapacityBound /\ StatsAddUp /\ ListsAgree)'
  BY SMTT(30) DEF CountersAgree, CapacityBound, StatsAddUp, ListsAgree
<1>4. NoLostWakeup'
  BY DEF NoLostWakeup, Full, TypeOK, Threads
<1>5. InHand' = InHand \cup {m} /\ Queued' = Queued
  BY <1>1 DEF TypeOK, InHand, Queued, Threads
<1>6. Conservation'
  <2>1. /\ Conservation /\ m \in unread /\ unread' = unread \ {m}
        /\ list' = list /\ dropped' = dropped /\ taken' = taken
    BY Zenon DEF ledger
  <2>2. ASSUME NEW d \in Consumers, NEW e \in Consumers, d # e, pc'[d] # "idle", pc'[e] # "idle"
        PROVE  newmsg'[d].msg # newmsg'[e].msg
    BY <1>1, <2>2 DEF Conservation, TypeOK, Threads, InHand
  <2> QED
    BY ONLY <1>5, <2>1, <2>2 DEF Conservation
<1> QED
  BY <1>2, <1>3, <1>4, <1>6

(* A message queue_add gives up goes from one place to another.            *)
LEMMA RefusedPreserves ==
  ASSUME IInv, NEW c \in Consumers, NEW m \in unread,
         unread' = unread \ {m}, queue_add_refused(c, m)
  PROVE  IInv'
<1> USE DEF IInv, queue_add_refused, lists, counters
<1>1. TypeOK'
  BY Zenon DEF TypeOK
<1>2. (CountersAgree /\ CapacityBound /\ StatsAddUp /\ ListsAgree /\ NoLostWakeup)'
  BY DEF CountersAgree, CapacityBound, StatsAddUp, ListsAgree, NoLostWakeup, Full
<1>3. InHand' = InHand /\ Queued' = Queued
  BY DEF InHand, Queued
<1>4. Conservation'
  BY <1>3 DEF Conservation, TypeOK
<1> QED
  BY <1>1, <1>2, <1>4

(* The ENOMEM path under the mutex gives the message up and leaves.        *)
LEMMA NoXmarkPreserves ==
  ASSUME IInv, NEW c \in Consumers, queue_add_no_xmark(c)
  PROVE  IInv'
<1> USE QueueAssumption DEF IInv, queue_add_no_xmark, lists, counters
<1>1. /\ newmsg[c] \in Node
      /\ newmsg[c].msg \in InHand
      /\ InHand' = InHand \ {newmsg[c].msg}
      /\ \A d, e \in Consumers :
           d # e /\ pc'[d] # "idle" /\ pc'[e] # "idle" => newmsg'[d].msg # newmsg'[e].msg
  BY LeaveHand, Zenon DEF TypeOK, Threads
<1>2. TypeOK'
  BY <1>1, ZenonT(30) DEF TypeOK, Threads, AddPc, Node
<1>3. (CountersAgree /\ CapacityBound /\ StatsAddUp /\ ListsAgree)'
  BY DEF CountersAgree, CapacityBound, StatsAddUp, ListsAgree
<1>4. NoLostWakeup'
  BY Zenon DEF NoLostWakeup, Full, TypeOK, Threads
<1>5. Queued' = Queued
  BY Zenon DEF Queued
<1>6. Conservation'
  BY <1>1, <1>5 DEF Conservation, TypeOK
<1> QED
  BY <1>2, <1>3, <1>4, <1>6

(***************************************************************************)
(* A step that only moves threads in and out of sleep, and lets nobody     *)
(* sleep who could go on, keeps everything.                                *)
(***************************************************************************)
LEMMA PcOnlyPreserves ==
  ASSUME IInv, UNCHANGED <<ledger, list, xlist, length, count, counters, newmsg, msg>>,
         xtree' \in SUBSET Xmarks,
         ret' \in [Producers -> {"0", "ETIMEDOUT"}],
         pc' \in [Threads -> AddPc \cup GetPc],
         \A c \in Consumers : pc'[c] \in AddPc,
         \A c \in Consumers : pc'[c] = "idle" <=> pc[c] = "idle",
         \A p \in Producers : pc'[p] \in GetPc,
         NoLostWakeup'
  PROVE  IInv'
<1> USE DEF IInv, ledger, counters
<1>1. TypeOK'
  BY Zenon DEF TypeOK
<1>2. (CountersAgree /\ CapacityBound /\ StatsAddUp /\ ListsAgree)'
  <2>1. ListsAgree'
    BY ListsKept, Zenon
  <2>2. (CountersAgree /\ CapacityBound /\ StatsAddUp)'
    BY ZenonT(30) DEF CountersAgree, CapacityBound, StatsAddUp
  <2> QED
    BY <2>1, <2>2, Zenon
<1>3. InHand' = InHand /\ Queued' = Queued
  BY DEF InHand, Queued
<1>4. Conservation'
  BY <1>3, ZenonT(30) DEF Conservation
<1> QED
  BY <1>1, <1>2, <1>4

(* A consumer that finds the queue too long goes to sleep.                 *)
LEMMA FullPreserves ==
  ASSUME IInv, NEW c \in Consumers, queue_add_full(c)
  PROVE  IInv'
<1> USE DEF IInv, queue_add_full, xmark_find
<1>1. newmsg[c] \in Node
  BY DEF TypeOK
<1>2. xtree' \in SUBSET Xmarks
  BY <1>1 DEF TypeOK, Node
<1>3. /\ pc' \in [Threads -> AddPc \cup GetPc]
      /\ \A d \in Consumers : pc'[d] \in AddPc
      /\ \A d \in Consumers : pc'[d] = "idle" <=> pc[d] = "idle"
      /\ \A p \in Producers : pc'[p] \in GetPc
  BY QueueAssumption DEF TypeOK, Threads, AddPc, GetPc
<1>4. NoLostWakeup'
  BY QueueAssumption DEF NoLostWakeup, Full, TypeOK, Threads
<1>5. ret' \in [Producers -> {"0", "ETIMEDOUT"}]
  BY DEF TypeOK
<1> QED
  BY <1>2, <1>3, <1>4, <1>5, PcOnlyPreserves

(* A producer whose list is empty goes to sleep on the list's condition.   *)
LEMMA AsleepPreserves ==
  ASSUME IInv, NEW p \in Producers, xtree' \in SUBSET Xmarks,
         NEW cond \in {"producer_cond", "x_producer_cond"}, asleep_on(p, cond),
         cond = "producer_cond" => list = <<>>,
         cond = "x_producer_cond" => xlist[Xmark[p]] = <<>>
  PROVE  IInv'
<1> USE DEF IInv, asleep_on
<1>1. /\ pc' \in [Threads -> AddPc \cup GetPc]
      /\ \A d \in Consumers : pc'[d] \in AddPc
      /\ \A d \in Consumers : pc'[d] = "idle" <=> pc[d] = "idle"
      /\ \A q \in Producers : pc'[q] \in GetPc
  BY QueueAssumption DEF TypeOK, Threads, AddPc, GetPc
<1>2. NoLostWakeup'
  BY QueueAssumption, Zenon DEF NoLostWakeup, Full, TypeOK, Threads
<1>3. ret' \in [Producers -> {"0", "ETIMEDOUT"}]
  BY DEF TypeOK
<1> QED
  BY <1>1, <1>2, <1>3, PcOnlyPreserves

(* A deadline that passes takes a producer out of its sleep.               *)
LEMMA TimeoutPreserves ==
  ASSUME IInv, NEW p \in Producers, timeout(p) \/ queue_get_timedout(p)
  PROVE  IInv'
<1> USE DEF IInv, timeout, queue_get_timedout, lists
<1>1. /\ pc' \in [Threads -> AddPc \cup GetPc]
      /\ \A d \in Consumers : pc'[d] \in AddPc
      /\ \A d \in Consumers : pc'[d] = "idle" <=> pc[d] = "idle"
      /\ \A q \in Producers : pc'[q] \in GetPc
  <2>1. PICK place \in {"timedout", "idle"} : pc' = [pc EXCEPT ![p] = place]
    OBVIOUS
  <2>2. \A t \in Threads \ {p} : pc'[t] = pc[t]
    BY <2>1 DEF TypeOK
  <2>3. p \in Threads /\ p \notin Consumers /\ pc'[p] = place
    BY <2>1, QueueAssumption DEF TypeOK, Threads
  <2>4. pc' \in [Threads -> AddPc \cup GetPc]
    BY <2>1, <2>3 DEF TypeOK, GetPc
  <2> QED
    BY <2>2, <2>3, <2>4, ZenonT(30) DEF TypeOK, Threads, GetPc
<1>2. NoLostWakeup'
  BY QueueAssumption DEF NoLostWakeup, Full, TypeOK, Threads
<1>3. ret' \in [Producers -> {"0", "ETIMEDOUT"}]
  BY DEF TypeOK
<1>4. xtree' \in SUBSET Xmarks
  BY DEF TypeOK
<1> QED
  BY <1>1, <1>2, <1>3, <1>4, PcOnlyPreserves

(* A wakeup without a broadcast only makes a thread test again.            *)
LEMMA SpuriousPreserves ==
  ASSUME IInv, NEW t \in Threads, spurious_wakeup(t)
  PROVE  IInv'
<1> USE DEF IInv, spurious_wakeup, lists
<1>1. /\ pc' \in [Threads -> AddPc \cup GetPc]
      /\ \A d \in Consumers : pc'[d] \in AddPc
      /\ \A d \in Consumers : pc'[d] = "idle" <=> pc[d] = "idle"
      /\ \A q \in Producers : pc'[q] \in GetPc
  BY QueueAssumption DEF TypeOK, Threads, AddPc, GetPc
<1>2. NoLostWakeup'
  BY QueueAssumption DEF NoLostWakeup, Full, TypeOK, Threads
<1>3. ret' \in [Producers -> {"0", "ETIMEDOUT"}]
  BY DEF TypeOK
<1>4. xtree' \in SUBSET Xmarks
  BY DEF TypeOK
<1> QED
  BY <1>1, <1>2, <1>3, <1>4, PcOnlyPreserves

(* The statistics thread moves a count into what it has reported.          *)
LEMMA StatsPreserves ==
  ASSUME IInv, queue_added \/ queue_delivered
  PROVE  IInv'
<1> USE DEF IInv
<1>1. /\ UNCHANGED <<list, xlist, xtree, length, count, pc, newmsg, msg, ret,
                     unread, dropped, taken>>
      /\ added' \in Nat /\ delivered' \in Nat
      /\ reported' \in [added : Nat, delivered : Nat]
      /\ reported'.added + added' = reported.added + added
      /\ reported'.delivered + delivered' = reported.delivered + delivered
  <2>1. /\ added \in Nat /\ delivered \in Nat
        /\ reported \in [added : Nat, delivered : Nat]
        /\ reported.added \in Nat /\ reported.delivered \in Nat
    BY DEF TypeOK
  <2>2. CASE queue_added
    <3>1. /\ reported' = [reported EXCEPT !.added = reported.added + added]
          /\ added' = 0 /\ delivered' = delivered
      BY <2>2 DEF queue_added
    <3>2. /\ reported' \in [added : Nat, delivered : Nat]
          /\ reported'.added = reported.added + added
          /\ reported'.delivered = reported.delivered
      BY <2>1, <3>1
    <3> QED
      BY <2>1, <2>2, <3>1, <3>2 DEF queue_added, lists, ledger
  <2>3. CASE queue_delivered
    <3>1. /\ reported' = [reported EXCEPT !.delivered = reported.delivered + delivered]
          /\ delivered' = 0 /\ added' = added
      BY <2>3 DEF queue_delivered
    <3>2. /\ reported' \in [added : Nat, delivered : Nat]
          /\ reported'.delivered = reported.delivered + delivered
          /\ reported'.added = reported.added
      BY <2>1, <3>1
    <3> QED
      BY <2>1, <2>3, <3>1, <3>2 DEF queue_delivered, lists, ledger
  <2> QED
    BY <2>2, <2>3
<1>2. TypeOK'
  BY <1>1, Zenon DEF TypeOK
<1>3. (CountersAgree /\ CapacityBound /\ ListsAgree /\ NoLostWakeup)'
  <2>1. ListsAgree'
    BY <1>1, ListsKept, Zenon
  <2>2. (CountersAgree /\ CapacityBound)'
    BY <1>1, ZenonT(30) DEF CountersAgree, CapacityBound
  <2>3. NoLostWakeup'
    BY <1>1, ZenonT(30) DEF NoLostWakeup, Full
  <2> QED
    BY <2>1, <2>2, <2>3, Zenon
<1>4. StatsAddUp'
  BY <1>1 DEF StatsAddUp
<1>5. InHand' = InHand /\ Queued' = Queued
  BY <1>1, Zenon DEF InHand, Queued
<1>6. Conservation'
  BY <1>1, <1>5 DEF Conservation
<1> QED
  BY <1>2, <1>3, <1>4, <1>6

(***************************************************************************)
(* The append of queue_add: the broadcasts reach everybody the new message *)
(* lets go on.                                                             *)
(***************************************************************************)
LEMMA AppendPreserves ==
  ASSUME IInv, NEW c \in Consumers, queue_add_append(c)
  PROVE  IInv'
<1> DEFINE n == newmsg[c]
           x == newmsg[c].xmark
<1>1. n \in Node /\ x \in Xmarks /\ n.msg \in Messages
  BY Zenon DEF IInv, queue_add_append, xmark_find, TypeOK, Node
<1>2. /\ list' = Append(list, n)
      /\ xlist' = [xlist EXCEPT ![x] = Append(xlist[x], n)]
      /\ count' = [count EXCEPT ![x] = count[x] + 1]
      /\ length' = length + 1 /\ added' = added + 1
      /\ xtree' = xtree \cup {x}
      /\ newmsg' = [newmsg EXCEPT ![c] = NoNode]
      /\ length <= MAX_QUEUE_SIZE
      /\ pc[c] # "idle"
      /\ UNCHANGED <<unread, dropped, taken, delivered, reported, msg, ret>>
  <2>1. length <= MAX_QUEUE_SIZE
    BY QueueAssumption DEF IInv, queue_add_append, xmark_find, Full, TypeOK
  <2> QED
    BY <2>1, Zenon DEF queue_add_append, xmark_find, link, ledger
<1>3. /\ pc'[c] = "idle"
      /\ \A d \in Consumers \ {c} : pc'[d] = pc[d]
      /\ pc' \in [Threads -> AddPc \cup GetPc]
      /\ \A p \in Producers :
           \/ pc'[p] = "get_woken" /\ pc[p] = "producer_cond" /\ length = 0
           \/ pc'[p] = "x_woken" /\ pc[p] = "x_producer_cond"
           \/ /\ pc'[p] = pc[p]
              /\ ~(pc[p] = "producer_cond" /\ length = 0)
              /\ ~(pc[p] = "x_producer_cond" /\ Xmark[p] = x /\ count[x] = 0)
  BY QueueAssumption, ZenonT(30)
     DEF IInv, queue_add_append, xmark_find, wake_producers, TypeOK, Threads, AddPc, GetPc
<1> HIDE DEF n, x
<1>4. /\ list' \in Seq(Node) /\ Len(list') = Len(list) + 1
      /\ \A i \in 1..Len(list) : list'[i] = list[i]
      /\ list'[Len(list) + 1] = n
  <2>1. list \in Seq(Node)
    BY Zenon DEF IInv, TypeOK
  <2>2. /\ Append(list, n) \in Seq(Node) /\ Len(Append(list, n)) = Len(list) + 1
        /\ \A i \in 1..Len(list) : Append(list, n)[i] = list[i]
        /\ Append(list, n)[Len(list) + 1] = n
    BY <1>1, <2>1, Appended, Zenon
  <2>3. list' = Append(list, n)
    BY <1>2, Zenon
  <2> QED
    BY <2>2, <2>3, Zenon
<1>5. /\ xlist' \in [Xmarks -> Seq(Node)]
      /\ \A y \in Xmarks \ {x} : xlist'[y] = xlist[y]
      /\ Len(xlist'[x]) = Len(xlist[x]) + 1
      /\ \A k \in 1..Len(xlist[x]) : xlist'[x][k] = xlist[x][k]
      /\ xlist'[x][Len(xlist[x]) + 1] = n
  <2>1. xlist \in [Xmarks -> Seq(Node)]
    BY Zenon DEF IInv, TypeOK
  <2>2. xlist[x] \in Seq(Node)
    BY <1>1, <2>1, Zenon
  <2>3. /\ Append(xlist[x], n) \in Seq(Node) /\ Len(Append(xlist[x], n)) = Len(xlist[x]) + 1
        /\ \A k \in 1..Len(xlist[x]) : Append(xlist[x], n)[k] = xlist[x][k]
        /\ Append(xlist[x], n)[Len(xlist[x]) + 1] = n
    BY <1>1, <2>2, Appended, ZenonT(30)
  <2>4. xlist' = [xlist EXCEPT ![x] = Append(xlist[x], n)]
    BY <1>2, Zenon
  <2>5. /\ xlist' \in [Xmarks -> Seq(Node)]
        /\ \A y \in Xmarks \ {x} : xlist'[y] = xlist[y]
        /\ xlist'[x] = Append(xlist[x], n)
    BY <1>1, <2>1, <2>3, <2>4, Zenon
  <2> QED
    BY <2>3, <2>5, Zenon
<1>6. TypeOK'
  <2>1. TypeOK
    BY Zenon DEF IInv
  <2>2. xtree' \in SUBSET Xmarks
    BY <1>1, <1>2, <2>1, Zenon DEF TypeOK
  <2>3. length' \in Nat /\ added' \in Nat /\ count' \in [Xmarks -> Nat]
    <3>1. length \in Nat /\ added \in Nat /\ count \in [Xmarks -> Nat] /\ count[x] \in Nat
      BY <1>1, <2>1, Zenon DEF TypeOK
    <3>2. length + 1 \in Nat /\ added + 1 \in Nat /\ count[x] + 1 \in Nat
      BY <3>1, OneMore, Zenon
    <3> QED
      BY <1>2, <3>1, <3>2, Zenon
  <2>4. /\ \A d \in Consumers : pc'[d] \in AddPc
        /\ \A p \in Producers : pc'[p] \in GetPc
    <3>1. "idle" \in AddPc /\ "get_woken" \in GetPc /\ "x_woken" \in GetPc
      BY DEF AddPc, GetPc
    <3> QED
      BY <1>3, <2>1, <3>1, Zenon DEF TypeOK
  <2>5. newmsg' \in [Consumers -> Node \cup {NoNode}]
    BY <1>2, <2>1, Zenon DEF TypeOK
  <2>6. \A d \in Consumers : newmsg'[d] = NoNode <=> pc'[d] = "idle"
    BY <1>2, <1>3, <2>1, Zenon DEF TypeOK
  <2> QED
    BY <1>2, <1>3, <1>4, <1>5, <2>1, <2>2, <2>3, <2>4, <2>5, <2>6, Zenon DEF TypeOK
<1>7. CountersAgree'
  BY <1>1, <1>2, <1>4, <1>5, Zenon DEF IInv, CountersAgree, TypeOK
<1>8. CapacityBound' /\ StatsAddUp'
  <2>1. Len(list) \in Nat /\ Len(list') = Len(list) + 1 /\ length = Len(list)
    BY <1>4 DEF IInv, CountersAgree, TypeOK
  <2>2. CapacityBound'
    BY <1>2, <2>1, QueueAssumption DEF IInv, CapacityBound
  <2>3. /\ added \in Nat /\ delivered \in Nat
        /\ reported.added \in Nat /\ reported.delivered \in Nat
    BY DEF IInv, TypeOK
  <2>4. StatsAddUp'
    BY <1>2, <2>1, <2>3, SMTT(30) DEF IInv, StatsAddUp
  <2> QED
    BY <2>2, <2>4, Zenon
<1>9. NoLostWakeup'
  <2>1. ASSUME NEW p \in Producers PROVE pc'[p] # "producer_cond"
    BY <1>3 DEF IInv, NoLostWakeup, Full, CountersAgree
  <2>2. ASSUME NEW p \in Producers, pc'[p] = "x_producer_cond"
        PROVE  xlist'[Xmark[p]] = <<>>
    <3>1. pc[p] = "x_producer_cond" /\ ~(Xmark[p] = x /\ count[x] = 0)
      BY <2>2, <1>3, Zenon
    <3>2. xlist[Xmark[p]] = <<>>
      BY <3>1, Zenon DEF IInv, NoLostWakeup
    <3>3. Xmark[p] # x
      BY <1>1, <3>1, <3>2, NothingIn, Zenon DEF IInv, CountersAgree
    <3>4. Xmark[p] \in Xmarks
      BY QueueAssumption, Zenon
    <3> QED
      BY <1>5, <3>2, <3>3, <3>4, Zenon
  <2>3. ASSUME NEW d \in Consumers PROVE pc'[d] # "consumer_cond"
    BY <1>2, <1>3, QueueAssumption DEF IInv, NoLostWakeup, Full, TypeOK
  <2> QED
    BY <2>1, <2>2, <2>3 DEF IInv, NoLostWakeup, Full
<1>10. /\ n.msg \in InHand
       /\ InHand' = InHand \ {n.msg}
       /\ \A d, e \in Consumers :
            d # e /\ pc'[d] # "idle" /\ pc'[e] # "idle" => newmsg'[d].msg # newmsg'[e].msg
  BY <1>2, <1>3, LeaveHand, Zenon DEF IInv, n
<1>. /\ DOMAIN list = 1..Len(list) /\ DOMAIN list' = 1..Len(list) + 1
     /\ Len(list) \in Nat
  BY <1>4 DEF IInv, TypeOK
<1>11. Queued' = Queued \cup {n.msg}
  <2>1. Queued' \subseteq Queued \cup {n.msg}
    <3> SUFFICES ASSUME NEW i \in 1..Len(list) + 1
                 PROVE  list'[i].msg \in Queued \cup {n.msg}
      BY DEF Queued
    <3>1. CASE i \in 1..Len(list)
      BY <1>4, <3>1 DEF Queued
    <3>2. CASE i = Len(list) + 1
      BY <1>4, <3>2
    <3> QED
      BY <3>1, <3>2
  <2>2. ASSUME NEW i \in 1..Len(list) PROVE list[i].msg \in Queued'
    BY <1>4 DEF Queued
  <2>3. n.msg \in Queued'
    BY <1>4 DEF Queued
  <2> QED
    BY <2>1, <2>2, <2>3, Zenon DEF Queued
<1>12. \A i \in 1..Len(list) : list[i].msg # n.msg
  <2>1. n.msg \notin Queued
    BY <1>10, ZenonT(30) DEF IInv, Conservation
  <2> QED
    BY <2>1, Zenon DEF Queued
<1>13. Conservation'
  <2>1. \A i, j \in DOMAIN list' : i # j => list'[i].msg # list'[j].msg
    <3> SUFFICES ASSUME NEW i \in 1..Len(list) + 1, NEW j \in 1..Len(list) + 1, i < j
                 PROVE  list'[i].msg # list'[j].msg
      OBVIOUS
    <3>1. list'[i] = list[i] /\ i \in 1..Len(list)
      BY <1>4
    <3>2. CASE j \in 1..Len(list)
      BY <1>4, <3>1, <3>2 DEF IInv, Conservation
    <3>3. CASE j = Len(list) + 1
      BY <1>4, <1>12, <3>1, <3>3, ZenonT(30)
    <3> QED
      BY <3>2, <3>3
  <2> QED
    BY <1>2, <1>10, <1>11, <2>1, HandToList, Zenon DEF IInv
<1>14. ListsAgree'
  <2>0. ASSUME NEW i \in DOMAIN list'
        PROVE  \/ i \in DOMAIN list /\ list'[i] = list[i]
               \/ i = Len(list) + 1 /\ list'[i] = n
    <3>1. CASE i \in DOMAIN list
      <4>1. i \in 1..Len(list)
        BY <3>1, Zenon
      <4> QED
        BY <1>4, <3>1, <4>1, Zenon
    <3>2. CASE i = Len(list) + 1
      BY <1>4, <3>2, Zenon
    <3> QED
      BY <3>1, <3>2
  <2>1. \A y \in Xmarks : DOMAIN xlist[y] = 1..Len(xlist[y]) /\ Len(xlist[y]) \in Nat
    BY DEF IInv, TypeOK
  <2>2. \A y \in Xmarks : DOMAIN xlist'[y] = 1..Len(xlist'[y])
    BY <1>5
  <2>3. ASSUME NEW y \in Xmarks, NEW k \in DOMAIN xlist'[y]
        PROVE  \/ k \in DOMAIN xlist[y] /\ xlist'[y][k] = xlist[y][k]
               \/ y = x /\ k = Len(xlist[x]) + 1 /\ xlist'[y][k] = n
    BY <1>1, <1>5, <2>1, <2>2, <2>3, SMTT(30)
  <2>4. ASSUME NEW i \in DOMAIN list'
        PROVE  \E k \in DOMAIN xlist'[list'[i].xmark] : xlist'[list'[i].xmark][k] = list'[i]
    <3>1. CASE i \in DOMAIN list
      <4>1. list[i] \in Node
        BY <3>1 DEF IInv, TypeOK
      <4>2. PICK y \in Xmarks : y = list[i].xmark
        BY <4>1, ZenonT(30) DEF Node
      <4>3. PICK k \in DOMAIN xlist[y] : xlist[y][k] = list[i]
        BY <3>1, <4>2 DEF IInv, ListsAgree
      <4>4. k \in DOMAIN xlist'[y] /\ xlist'[y][k] = list[i]
        <5>1. CASE y = x
          <6>1. k \in 1..Len(xlist[x]) /\ Len(xlist[x]) \in Nat
            BY <2>1, <4>3, <5>1, Zenon
          <6>2. xlist'[x][k] = xlist[x][k] /\ k \in 1..Len(xlist'[x])
            BY <1>5, <6>1, SMTT(30)
          <6> QED
            BY <2>2, <4>3, <5>1, <6>2
        <5>2. CASE y # x
          BY <1>5, <4>3, <5>2
        <5> QED
          BY <5>1, <5>2, Zenon
      <4>5. list'[i] = list[i]
        BY <1>4, <3>1, Zenon
      <4> QED
        BY <4>2, <4>4, <4>5
    <3>2. CASE i = Len(list) + 1
      <4>1. list'[i] = n /\ n.xmark = x
        BY <1>4, <3>2, Zenon DEF n, x
      <4>2. Len(xlist[x]) + 1 \in DOMAIN xlist'[x]
        BY <1>1, <1>5, <2>1, <2>2
      <4> QED
        BY <1>5, <4>1, <4>2, Zenon
    <3> QED
      BY <3>1, <3>2
  <2>5. ASSUME NEW y \in Xmarks, NEW k \in DOMAIN xlist'[y]
        PROVE  /\ xlist'[y][k].xmark = y
               /\ \E i \in DOMAIN list' : list'[i] = xlist'[y][k]
    <3>1. CASE k \in DOMAIN xlist[y] /\ xlist'[y][k] = xlist[y][k]
      <4>1. PICK i \in DOMAIN list : list[i] = xlist[y][k]
        BY <3>1, ZenonT(30) DEF IInv, ListsAgree
      <4> QED
        BY <1>4, <3>1, <4>1 DEF IInv, ListsAgree
    <3>2. CASE y = x /\ xlist'[y][k] = n
      BY <1>4, <3>2 DEF n, x
    <3> QED
      BY <2>3, <3>1, <3>2, Zenon
  <2>6. ASSUME NEW y \in Xmarks, NEW k \in DOMAIN xlist'[y], NEW l \in DOMAIN xlist'[y],
               NEW i \in DOMAIN list', NEW j \in DOMAIN list',
               k < l, list'[i] = xlist'[y][k], list'[j] = xlist'[y][l]
        PROVE  i < j
    <3>1. k \in DOMAIN xlist[y] /\ xlist'[y][k] = xlist[y][k]
      BY <1>5, <2>1, <2>2, <2>3, <2>6, SMTT(30)
    <3>2. PICK i0 \in DOMAIN list : list[i0] = xlist[y][k]
      BY <3>1, ZenonT(30) DEF IInv, ListsAgree
    <3>3. i \in DOMAIN list /\ list'[i] = list[i]
      BY <1>12, <2>0, <2>6, <3>1, <3>2, Zenon
    <3>4. CASE l \in DOMAIN xlist[y] /\ xlist'[y][l] = xlist[y][l]
      <4>1. PICK j0 \in DOMAIN list : list[j0] = xlist[y][l]
        BY <3>4, ZenonT(30) DEF IInv, ListsAgree
      <4>2. j \in DOMAIN list /\ list'[j] = list[j]
        BY <1>12, <2>0, <2>6, <3>4, <4>1, Zenon
      <4>3. list[i] = xlist[y][k] /\ list[j] = xlist[y][l]
        BY <2>6, <3>1, <3>3, <3>4, <4>2, Zenon
      <4> QED
        BY <2>6, <3>1, <3>3, <3>4, <4>2, <4>3, LaneOrder, Zenon DEF IInv
    <3>5. CASE y = x /\ xlist'[y][l] = n
      <4>1. j = Len(list) + 1
        BY <1>12, <2>0, <2>6, <3>5, Zenon
      <4> QED
        BY <3>3, <4>1
    <3> QED
      BY <2>3, <3>4, <3>5, Zenon
  <2> QED
    BY <2>4, <2>5, <2>6, ZenonT(30) DEF IInv, ListsAgree
<1> QED
  BY <1>6, <1>7, <1>8, <1>9, <1>13, <1>14, Zenon DEF IInv

(***************************************************************************)
(* The head of a lane is in the global list, once, so unlinking it there   *)
(* takes out exactly that node.                                            *)
(***************************************************************************)
LEMMA HeadInList ==
  ASSUME TypeOK, ListsAgree, Conservation, NEW x \in Xmarks, xlist[x] # <<>>
  PROVE  \E n \in 1..Len(list) :
           /\ list[n] = Head(xlist[x])
           /\ spliced(list, Head(xlist[x])) \in Seq(Node)
           /\ Len(spliced(list, Head(xlist[x]))) = Len(list) - 1
           /\ \A k \in 1..Len(list)-1 :
                spliced(list, Head(xlist[x]))[k] = IF k < n THEN list[k] ELSE list[k+1]
<1>1. xlist[x] \in Seq(Node) /\ 1 \in DOMAIN xlist[x] /\ Head(xlist[x]) = xlist[x][1]
  BY DEF TypeOK
<1>2. PICK n \in DOMAIN list : list[n] = Head(xlist[x])
  BY <1>1 DEF ListsAgree
<1>3. n \in 1..Len(list) /\ \A j \in 1..Len(list) : list[j] = list[n] => j = n
  <2>1. DOMAIN list = 1..Len(list)
    BY DEF TypeOK
  <2>2. \A j \in DOMAIN list : j # n => list[j].msg # list[n].msg
    BY <1>2 DEF Conservation
  <2> QED
    BY <2>1, <2>2
<1>4. list \in Seq(Node)
  BY DEF TypeOK
<1> QED
  BY <1>2, <1>3, <1>4, Splice, ZenonT(30)

(* One more delivered and one less queued balance.                         *)
LEMMA TakeCounted ==
  ASSUME TypeOK, StatsAddUp, added' = added, delivered' = delivered + 1,
         reported' = reported, Len(list') = Len(list) - 1
  PROVE  StatsAddUp'
<1>1. /\ added \in Nat /\ delivered \in Nat /\ Len(list) \in Nat
      /\ reported.added \in Nat /\ reported.delivered \in Nat
  BY DEF TypeOK
<1>2. PICK a \in Nat : a = reported.added
  BY <1>1
<1>3. PICK d \in Nat : d = reported.delivered
  BY <1>1
<1>4. PICK n \in Nat : n = Len(list)
  BY <1>1
<1>5. (a + added) - (d + delivered) = n
  BY <1>2, <1>3, <1>4 DEF StatsAddUp
<1>6. (a + added) - (d + (delivered + 1)) = n - 1
  BY <1>1, <1>5
<1>7. (reported.added + added) - (reported.delivered + (delivered + 1)) = Len(list) - 1
  BY <1>2, <1>3, <1>4, <1>6, Zenon
<1> QED
  BY <1>7, Zenon DEF StatsAddUp

(***************************************************************************)
(* The unlinking in queue_get.                                             *)
(***************************************************************************)
LEMMA TakePreserves ==
  ASSUME IInv, NEW p \in Producers, xtree' \in SUBSET Xmarks,
         xlist[Xmark[p]] # <<>>, queue_get_take(p)
  PROVE  IInv'
<1> DEFINE x == Xmark[p]
           f == Head(xlist[x])
<1>1. x \in Xmarks
  BY QueueAssumption, Zenon
<1>2. /\ xlist' = [xlist EXCEPT ![x] = Tail(xlist[x])]
      /\ list' = spliced(list, f)
      /\ count' = [count EXCEPT ![x] = IF xlist'[x] = <<>> THEN 0 ELSE count[x] - 1]
      /\ length' = IF list' = <<>> THEN 0 ELSE length - 1
      /\ delivered' = delivered + 1
      /\ msg' = [msg EXCEPT ![p] = f.msg]
      /\ ret' = [ret EXCEPT ![p] = "0"]
      /\ taken' = taken \cup {f.msg}
      /\ UNCHANGED <<unread, dropped, added, reported, newmsg>>
  BY Zenon DEF queue_get_take, unlink, uncount
<1>3. /\ pc' \in [Threads -> AddPc \cup GetPc]
      /\ pc'[p] = "idle"
      /\ \A q \in Producers \ {p} : pc'[q] = pc[q]
      /\ \A c \in Consumers : pc'[c] = IF pc[c] = "consumer_cond" THEN "add_woken" ELSE pc[c]
  <2>1. wake_consumers \in [Threads -> AddPc \cup GetPc]
    BY Zenon DEF IInv, wake_consumers, TypeOK, AddPc
  <2>2. pc' = [wake_consumers EXCEPT ![p] = "idle"]
    BY DEF queue_get_take, unlink, uncount
  <2>3. \A q \in Producers : wake_consumers[q] = pc[q]
    BY Zenon DEF IInv, wake_consumers, TypeOK, Threads, GetPc
  <2>4. \A c \in Consumers :
          wake_consumers[c] = IF pc[c] = "consumer_cond" THEN "add_woken" ELSE pc[c]
    BY Zenon DEF wake_consumers, Threads
  <2> QED
    BY <2>1, <2>2, <2>3, <2>4, QueueAssumption, Zenon DEF Threads, AddPc
<1> HIDE DEF x
<1>4. /\ xlist[x] \in Seq(Node) /\ xlist[x] # <<>>
      /\ f \in Node /\ f = xlist[x][1] /\ 1 \in DOMAIN xlist[x]
  BY <1>1, SMTT(30) DEF IInv, TypeOK, x
<1>5. PICK n \in 1..Len(list) :
        /\ list[n] = f
        /\ list' \in Seq(Node)
        /\ Len(list') = Len(list) - 1
        /\ \A k \in 1..Len(list)-1 : list'[k] = IF k < n THEN list[k] ELSE list[k+1]
  <2>1. TypeOK /\ ListsAgree /\ Conservation
    BY Zenon DEF IInv
  <2>2. \E n \in 1..Len(list) :
          /\ list[n] = f
          /\ spliced(list, f) \in Seq(Node)
          /\ Len(spliced(list, f)) = Len(list) - 1
          /\ \A k \in 1..Len(list)-1 :
               spliced(list, f)[k] = IF k < n THEN list[k] ELSE list[k+1]
    BY <1>1, <1>4, <2>1, HeadInList, Zenon
  <2>3. list' = spliced(list, f)
    BY <1>2, Zenon
  <2> QED
    BY <2>2, <2>3, Zenon
<1> HIDE DEF f
<1>6. /\ xlist' \in [Xmarks -> Seq(Node)]
      /\ \A y \in Xmarks \ {x} : xlist'[y] = xlist[y]
      /\ Len(xlist'[x]) = Len(xlist[x]) - 1
      /\ \A k \in 1..Len(xlist[x]) - 1 : xlist'[x][k] = xlist[x][k+1]
  <2>1. xlist \in [Xmarks -> Seq(Node)]
    BY Zenon DEF IInv, TypeOK
  <2>2. /\ Tail(xlist[x]) \in Seq(Node) /\ Len(Tail(xlist[x])) = Len(xlist[x]) - 1
        /\ \A k \in 1..Len(xlist[x]) - 1 : Tail(xlist[x])[k] = xlist[x][k+1]
    BY <1>4, Shortened, ZenonT(30)
  <2>3. xlist' = [xlist EXCEPT ![x] = Tail(xlist[x])]
    BY <1>2, Zenon
  <2>4. /\ xlist' \in [Xmarks -> Seq(Node)]
        /\ \A y \in Xmarks \ {x} : xlist'[y] = xlist[y]
        /\ xlist'[x] = Tail(xlist[x])
    BY <1>1, <2>1, <2>2, <2>3, Zenon
  <2> QED
    BY <2>2, <2>4, Zenon
<1> /\ Len(list) \in Nat /\ n <= Len(list)
    /\ DOMAIN list = 1..Len(list) /\ DOMAIN list' = 1..Len(list)-1
    /\ \A y \in Xmarks : /\ Len(xlist[y]) \in Nat
                          /\ DOMAIN xlist[y] = 1..Len(xlist[y])
                          /\ DOMAIN xlist'[y] = 1..Len(xlist'[y])
  <2>1. list \in Seq(Node) /\ xlist \in [Xmarks -> Seq(Node)]
    BY Zenon DEF IInv, TypeOK
  <2>2. n <= Len(list)
    BY ONLY <2>1, n \in 1..Len(list)
  <2> QED
    BY <1>5, <1>6, <2>1, <2>2, ListPlaces, Zenon
<1>7. CountersAgree'
  <2>1. Tail(xlist[x]) = xlist'[x]
    BY <1>1, <1>2 DEF IInv, TypeOK
  <2>2. count'[x] = Len(xlist'[x])
    BY <1>1, <1>2, <1>4, <1>6, <2>1, ZenonT(30) DEF IInv, CountersAgree, TypeOK
  <2>3. \A y \in Xmarks \ {x} : count'[y] = Len(xlist'[y])
    BY <1>1, <1>2, <1>6, ZenonT(30) DEF IInv, CountersAgree, TypeOK
  <2>4. length' = Len(list')
    BY <1>2, <1>5, Zenon DEF IInv, CountersAgree
  <2> QED
    BY <2>2, <2>3, <2>4, Zenon DEF IInv, CountersAgree
<1>8. TypeOK'
  <2>1. length' \in Nat
    BY <1>5, <1>7 DEF IInv, CountersAgree
  <2>2. count' \in [Xmarks -> Nat]
    <3>1. \A y \in Xmarks : count'[y] \in Nat
      BY <1>6, <1>7, SMTT(30) DEF IInv, CountersAgree
    <3> QED
      BY <1>2, <3>1, Zenon DEF IInv, TypeOK
  <2>3. /\ \A c \in Consumers : pc'[c] \in AddPc /\ (pc'[c] = "idle" <=> pc[c] = "idle")
        /\ \A q \in Producers : pc'[q] \in GetPc
    BY <1>3, Zenon DEF IInv, TypeOK, AddPc, GetPc
  <2>4. f.msg \in Messages
    BY <1>4, Zenon DEF Node, f
  <2>5. /\ msg' \in [Producers -> Messages \cup {NoMsg}]
        /\ ret' \in [Producers -> {"0", "ETIMEDOUT"}]
        /\ taken' \in SUBSET Messages /\ delivered' \in Nat
    BY <1>2, <2>4, OneMore, ZenonT(30) DEF IInv, TypeOK
  <2>6. \A c \in Consumers : newmsg'[c] = NoNode <=> pc'[c] = "idle"
    BY <1>2, <2>3, ZenonT(30) DEF IInv, TypeOK
  <2> QED
    BY <1>2, <1>3, <1>5, <1>6, <2>1, <2>2, <2>3, <2>5, <2>6, ZenonT(30) DEF IInv, TypeOK
<1>9. CapacityBound' /\ StatsAddUp'
  <2>1. CapacityBound'
    BY <1>5, ShorterFits, Zenon DEF IInv
  <2>3. /\ added' = added /\ delivered' = delivered + 1 /\ reported' = reported
        /\ Len(list') = Len(list) - 1
    BY <1>2, <1>5, Zenon
  <2> QED
    BY <2>1, <2>3, TakeCounted, Zenon DEF IInv
<1>10. NoLostWakeup'
  <2>0. list # <<>>
    <3>1. Len(list) # 0
      BY ONLY n \in 1..Len(list)
    <3> QED
      BY <3>1, NothingIn, Zenon
  <2>1. ASSUME NEW q \in Producers PROVE pc'[q] # "producer_cond"
    BY <1>3, <2>0, Zenon DEF IInv, NoLostWakeup
  <2>2. ASSUME NEW q \in Producers, pc'[q] = "x_producer_cond"
        PROVE  xlist'[Xmark[q]] = <<>>
    BY <2>2, <1>3, <1>4, <1>6, QueueAssumption, ZenonT(30) DEF IInv, NoLostWakeup, Full
  <2>3. ASSUME NEW c \in Consumers PROVE pc'[c] # "consumer_cond"
    BY <1>3, Zenon
  <2> QED
    BY <2>1, <2>2, <2>3, Zenon DEF IInv, NoLostWakeup, Full
<1>11. InHand' = InHand
  BY <1>2, <1>3, ZenonT(30) DEF InHand
<1>12. ASSUME NEW i \in DOMAIN list'
       PROVE  \E i0 \in DOMAIN list : /\ list[i0] = list'[i] /\ i0 # n
                                      /\ i0 = IF i < n THEN i ELSE i + 1
  BY <1>5, <1>12, SMTT(30)
<1>13. ASSUME NEW i0 \in DOMAIN list, i0 # n
       PROVE  \E i \in DOMAIN list' : list'[i] = list[i0]
  <2>1. CASE i0 < n
    <3>1. i0 \in 1..Len(list) /\ n \in 1..Len(list) /\ Len(list) \in Nat
      BY Zenon
    <3>2. i0 \in 1..Len(list)-1
      BY ONLY <2>1, <3>1
    <3> QED
      BY <1>5, <2>1, <3>2, Zenon
  <2>2. CASE i0 > n
    <3>1. i0 - 1 \in DOMAIN list' /\ list'[i0 - 1] = list[i0]
      BY <1>5, <2>2
    <3> QED
      BY <3>1, Zenon
  <2> QED
    BY <1>13, <2>1, <2>2
<1>14. Queued' = Queued \ {f.msg} /\ f.msg \in Queued
  <2>1. f.msg \in Queued
    BY <1>5 DEF Queued
  <2>2. Queued' \subseteq Queued \ {f.msg}
    <3> SUFFICES ASSUME NEW i \in DOMAIN list'
                 PROVE  list'[i].msg \in Queued \ {f.msg}
      BY Zenon DEF Queued
    <3>1. PICK i0 \in DOMAIN list : list[i0] = list'[i] /\ i0 # n
      BY <1>12, Zenon
    <3>2. list[i0].msg # list[n].msg
      BY <3>1, Zenon DEF IInv, Conservation
    <3> QED
      BY <1>5, <3>1, <3>2, Zenon DEF Queued
  <2>3. ASSUME NEW i0 \in DOMAIN list, list[i0].msg # f.msg
        PROVE  list[i0].msg \in Queued'
    BY <1>5, <1>13, <2>3, Zenon DEF Queued
  <2> QED
    BY <2>1, <2>2, <2>3, ZenonT(30) DEF Queued
<1>15. Conservation'
  <2>1. \A i, j \in DOMAIN list' : i # j => list'[i].msg # list'[j].msg
    <3> SUFFICES ASSUME NEW i \in DOMAIN list', NEW j \in DOMAIN list', i # j
                 PROVE  list'[i].msg # list'[j].msg
      BY Zenon
    <3>1. PICK i0 \in DOMAIN list : list[i0] = list'[i] /\ i0 = IF i < n THEN i ELSE i + 1
      BY <1>12, Zenon
    <3>2. PICK j0 \in DOMAIN list : list[j0] = list'[j] /\ j0 = IF j < n THEN j ELSE j + 1
      BY <1>12, Zenon
    <3>3. i0 # j0
      BY <3>1, <3>2, SMTT(30)
    <3> QED
      BY <3>1, <3>2, <3>3, ZenonT(30) DEF IInv, Conservation
  <2>2. \A c, d \in Consumers :
          c # d /\ pc'[c] # "idle" /\ pc'[d] # "idle" => newmsg'[c].msg # newmsg'[d].msg
    BY <1>2, <1>3, ZenonT(30) DEF IInv, Conservation
  <2> QED
    BY <1>2, <1>11, <1>14, <2>1, <2>2, ZenonT(30) DEF IInv, Conservation
<1>16. ASSUME NEW y \in Xmarks, NEW k \in DOMAIN xlist'[y]
       PROVE  \E k0 \in DOMAIN xlist[y] :
                /\ xlist'[y][k] = xlist[y][k0]
                /\ k0 = IF y = x THEN k + 1 ELSE k
  <2>1. CASE y = x
    <3>1. k + 1 \in DOMAIN xlist[x] /\ xlist'[x][k] = xlist[x][k+1]
      BY <1>6, <1>16, <2>1, SMTT(30)
    <3> QED
      BY <2>1, <3>1, Zenon
  <2>2. CASE y # x
    BY <1>6, <1>16, <2>2, Zenon
  <2> QED
    BY <2>1, <2>2, Zenon
<1>17. ASSUME NEW y \in Xmarks, NEW k \in DOMAIN xlist'[y], NEW i0 \in DOMAIN list,
              list[i0] = xlist'[y][k]
       PROVE  i0 # n
  <2>1. PICK k0 \in DOMAIN xlist[y] :
          xlist'[y][k] = xlist[y][k0] /\ k0 = IF y = x THEN k + 1 ELSE k
    BY <1>16, ZenonT(30)
  <2>2. CASE y = x
    <3>1. 1 < k0
      BY <1>6, <2>1, <2>2, SMTT(30)
    <3>2. list[n] = xlist[x][1] /\ list[i0] = xlist[x][k0] /\ k0 \in DOMAIN xlist[x]
      BY <1>4, <1>5, <1>17, <2>1, <2>2, Zenon
    <3>3. n < i0
      BY <1>1, <1>4, <3>1, <3>2, LaneOrder, Zenon DEF IInv
    <3>4. n \in Int
      BY ListPlaces, Zenon
    <3> QED
      BY ONLY <3>3, <3>4
  <2>3. CASE y # x
    <3>1. xlist[y][k0].xmark = y /\ xlist[x][1].xmark = x
      BY <1>1, <1>4, <2>1, NodeOfLane, Zenon DEF IInv
    <3> QED
      BY <1>4, <1>5, <1>17, <2>1, <2>3, <3>1, Zenon
  <2> QED
    BY <2>2, <2>3, Zenon
<1>18. ListsAgree'
  <2>1. ASSUME NEW i \in DOMAIN list'
        PROVE  \E k \in DOMAIN xlist'[list'[i].xmark] : xlist'[list'[i].xmark][k] = list'[i]
    <3>1. PICK i0 \in DOMAIN list : list[i0] = list'[i] /\ i0 # n
      BY <1>12, Zenon
    <3>2. list[i0] \in Node
      BY <3>1, ListElement, Zenon DEF IInv, TypeOK
    <3>3. PICK y \in Xmarks : y = list[i0].xmark
      BY <3>2, Zenon DEF Node
    <3>4. PICK k0 \in DOMAIN xlist[y] : xlist[y][k0] = list[i0]
      BY <3>3, Zenon DEF IInv, ListsAgree
    <3>5. CASE y = x
      <4>1. k0 # 1
        BY <1>4, <1>5, <3>1, <3>4, <3>5, ZenonT(30) DEF IInv, Conservation
      <4>2. k0 - 1 \in DOMAIN xlist'[x] /\ xlist'[x][k0 - 1] = xlist[x][k0]
        <5>1. Len(xlist[x]) \in Nat /\ k0 \in 1..Len(xlist[x]) /\ k0 # 1
          BY <1>1, <3>4, <3>5, <4>1, Zenon
        <5>2. k0 - 1 \in 1..Len(xlist[x]) - 1 /\ (k0 - 1) + 1 = k0
          BY ONLY <5>1
        <5> QED
          BY <1>1, <1>6, <5>2, Zenon
      <4> QED
        BY <3>1, <3>3, <3>4, <3>5, <4>2, Zenon
    <3>6. CASE y # x
      BY <1>6, <3>1, <3>3, <3>4, <3>6, ZenonT(30)
    <3> QED
      BY <3>5, <3>6, Zenon
  <2>2. ASSUME NEW y \in Xmarks, NEW k \in DOMAIN xlist'[y]
        PROVE  /\ xlist'[y][k].xmark = y
               /\ \E i \in DOMAIN list' : list'[i] = xlist'[y][k]
    <3>1. PICK k0 \in DOMAIN xlist[y] : xlist'[y][k] = xlist[y][k0]
      BY <1>16, Zenon
    <3>2. PICK i0 \in DOMAIN list : list[i0] = xlist[y][k0]
      BY ZenonT(30) DEF IInv, ListsAgree
    <3>3. i0 # n
      BY <1>17, <3>1, <3>2, Zenon
    <3>4. xlist[y][k0].xmark = y
      BY NodeOfLane, Zenon DEF IInv
    <3>5. PICK i \in DOMAIN list' : list'[i] = list[i0]
      BY <1>13, <3>3, Zenon
    <3> QED
      BY <3>1, <3>2, <3>4, <3>5, Zenon
  <2>3. ASSUME NEW y \in Xmarks, NEW k \in DOMAIN xlist'[y], NEW l \in DOMAIN xlist'[y],
               NEW i \in DOMAIN list', NEW j \in DOMAIN list',
               k < l, list'[i] = xlist'[y][k], list'[j] = xlist'[y][l]
        PROVE  i < j
    <3>1. PICK k0 \in DOMAIN xlist[y] :
            xlist'[y][k] = xlist[y][k0] /\ k0 = IF y = x THEN k + 1 ELSE k
      BY <1>16, Zenon
    <3>2. PICK l0 \in DOMAIN xlist[y] :
            xlist'[y][l] = xlist[y][l0] /\ l0 = IF y = x THEN l + 1 ELSE l
      BY <1>16, Zenon
    <3>3. PICK i0 \in DOMAIN list : list[i0] = list'[i] /\ i0 = IF i < n THEN i ELSE i + 1
      BY <1>12, Zenon
    <3>4. PICK j0 \in DOMAIN list : list[j0] = list'[j] /\ j0 = IF j < n THEN j ELSE j + 1
      BY <1>12, Zenon
    <3>5. k0 < l0
      <4>1. k \in Int /\ l \in Int
        BY ListPlaces, Zenon
      <4>2. CASE y = x
        <5>1. k < l /\ k0 = k + 1 /\ l0 = l + 1
          BY <2>3, <3>1, <3>2, <4>2, Zenon
        <5> QED
          BY ONLY <4>1, <5>1
      <4>3. CASE y # x
        BY <2>3, <3>1, <3>2, <4>3, Zenon
      <4> QED
        BY <4>2, <4>3, Zenon
    <3>6. list[i0] = xlist[y][k0] /\ list[j0] = xlist[y][l0]
      BY <2>3, <3>1, <3>2, <3>3, <3>4, ZenonT(30)
    <3>7. i0 < j0
      BY <3>5, <3>6, LaneOrder, Zenon DEF IInv
    <3>8. i \in Int /\ j \in Int /\ n \in Int
      BY ListPlaces, Zenon
    <3> QED
      BY <3>3, <3>4, <3>7, <3>8, PlacesKept, Zenon
  <2>4. \A y \in Xmarks : \A k, l \in DOMAIN xlist'[y] : \A i, j \in DOMAIN list' :
          k < l /\ list'[i] = xlist'[y][k] /\ list'[j] = xlist'[y][l] => i < j
    BY <2>3, Zenon
  <2> QED
    BY <2>1, <2>2, <2>4, ZenonT(30) DEF ListsAgree
<1> QED
  BY <1>7, <1>8, <1>9, <1>10, <1>15, <1>18, Zenon DEF IInv

(* queue_get, on entry or after a wakeup: sleep or take.                   *)
LEMMA GetPreserves ==
  ASSUME IInv, NEW p \in Producers, xtree' \in SUBSET Xmarks,
         queue_get_any(p) \/ queue_get_lane(p)
  PROVE  IInv'
<1>1. CASE list = <<>> /\ asleep_on(p, "producer_cond")
  BY <1>1, AsleepPreserves, SMTT(30)
<1>2. CASE queue_get_lane(p)
  BY <1>2, AsleepPreserves, TakePreserves DEF queue_get_lane
<1> QED
  BY <1>1, <1>2 DEF queue_get_any

(* Every step of every thread keeps the invariant.                         *)
LEMMA NextPreserves == IInv /\ [Next]_vars => IInv'
<1> SUFFICES ASSUME IInv, [Next]_vars PROVE IInv'
  OBVIOUS
<1>1. ASSUME NEW c \in Consumers, Offer(c) PROVE IInv'
  BY <1>1, AddPreserves, RefusedPreserves DEF Offer
<1>2. ASSUME NEW c \in Consumers, AddStep(c) PROVE IInv'
  BY <1>2, NoXmarkPreserves, FullPreserves, AppendPreserves, Zenon DEF AddStep
<1>3. ASSUME NEW p \in Producers, queue_get(p) PROVE IInv'
  <2>1. xtree' \in SUBSET Xmarks
    BY <1>3, QueueAssumption DEF queue_get, xmark_find, IInv, TypeOK
  <2> QED
    BY <1>3, <2>1, GetPreserves, Zenon DEF queue_get
<1>4. ASSUME NEW p \in Producers, queue_get_woken(p) PROVE IInv'
  <2>1. xtree' \in SUBSET Xmarks
    BY <1>4 DEF queue_get_woken, IInv, TypeOK
  <2> QED
    BY <1>4, <2>1, GetPreserves, Zenon DEF queue_get_woken
<1>5. ASSUME NEW p \in Producers, queue_get_timedout(p) \/ timeout(p) PROVE IInv'
  BY <1>5, TimeoutPreserves
<1>6. ASSUME NEW t \in Threads, spurious_wakeup(t) PROVE IInv'
  BY <1>6, SpuriousPreserves
<1>7. CASE queue_added \/ queue_delivered
  BY <1>7, StatsPreserves, Zenon
<1>8. CASE UNCHANGED vars
  <2>1. UNCHANGED <<ledger, list, xlist, length, count, counters, newmsg, msg>>
    BY <1>8 DEF vars, ledger, counters
  <2>2. UNCHANGED <<xtree, ret, pc>>
    BY <1>8, Zenon DEF vars
  <2>3. NoLostWakeup'
    BY <2>1, <2>2 DEF NoLostWakeup, Full, IInv
  <2> QED
    BY <2>1, <2>2, <2>3, PcOnlyPreserves, Zenon DEF IInv, TypeOK
<1> QED
  BY <1>1, <1>2, <1>3, <1>4, <1>5, <1>6, <1>7, <1>8, SMTT(30) DEF Next, GetStep

(***************************************************************************)
(* All of it holds in every reachable state.                               *)
(***************************************************************************)
THEOREM Invariance == Spec => []IInv
  BY InitIInv, NextPreserves, PTL DEF Spec

(***************************************************************************)
(* No wakeup of queue.c is lost, for any number of threads and xmarks.     *)
(***************************************************************************)
THEOREM WakeupsReachEverybody == Spec => []NoLostWakeup
<1>1. IInv => NoLostWakeup
  BY DEF IInv
<1> QED
  BY <1>1, Invariance, PTL

(***************************************************************************)
(* Nothing is lost and nothing is delivered twice, whatever the order in   *)
(* which consumers and producers run (queue.c:239-432).                    *)
(***************************************************************************)
THEOREM NothingLost == Spec => []Conservation
<1>1. IInv => Conservation
  BY DEF IInv
<1> QED
  BY <1>1, Invariance, PTL

(***************************************************************************)
(* The two linked lists hold the same nodes in the same order, and never   *)
(* more than MAX_QUEUE_SIZE + 1 of them.                                   *)
(***************************************************************************)
THEOREM ListsSound == Spec => [](ListsAgree /\ CapacityBound)
<1>1. IInv => ListsAgree /\ CapacityBound
  BY DEF IInv
<1> QED
  BY <1>1, Invariance, PTL

-----------------------------------------------------------------------------
(* An append to the lists of queue.c is a Put of the abstract queue.       *)
LEMMA AppendIsPut ==
  ASSUME IInv, NEW c \in Consumers, queue_add_append(c)
  PROVE  Lanes!Next
<1> DEFINE x == newmsg[c].xmark
<1>1. newmsg[c] \in Node
  BY DEF IInv, TypeOK, queue_add_append, xmark_find
<1>2. x \in Xmarks
  BY <1>1, Zenon DEF Node
<1>3. /\ length <= MAX_QUEUE_SIZE /\ length' = length + 1
      /\ xlist' = [xlist EXCEPT ![x] = Append(@, newmsg[c])]
  <2>1. ~ length > MAX_QUEUE_SIZE /\ length \in Nat /\ MAX_QUEUE_SIZE \in Nat
    BY QueueAssumption, ZenonT(30) DEF queue_add_append, Full, IInv, TypeOK
  <2>2. length <= MAX_QUEUE_SIZE
    BY ONLY <2>1
  <2> QED
    BY <2>2, ZenonT(30) DEF queue_add_append, link
<1>4. length < MAX_QUEUE_SIZE + 1
  BY <1>3, QueueAssumption DEF IInv, TypeOK
<1>5. Lanes!Put(x, newmsg[c])
  BY <1>3, <1>4, Zenon DEF Lanes!Put
<1> QED
  BY <1>1, <1>2, <1>5, Zenon DEF Lanes!Next

(***************************************************************************)
(* Unlinking the head of a lane is a Take: the global length, which        *)
(* queue_get sets to 0 on an emptied list, goes down by exactly one.       *)
(***************************************************************************)
LEMMA TakeIsTake ==
  ASSUME IInv, NEW p \in Producers, xlist[Xmark[p]] # <<>>, queue_get_take(p)
  PROVE  Lanes!Next
<1> DEFINE x == Xmark[p]
           others == spliced(list, Head(xlist[x]))
<1>1. x \in Xmarks
  BY QueueAssumption, Zenon
<1>2. /\ xlist' = [xlist EXCEPT ![x] = Tail(xlist[x])]
      /\ list' = others
      /\ length' = IF list' = <<>> THEN 0 ELSE length - 1
  BY Zenon DEF queue_get_take, unlink, uncount
<1>3. others \in Seq(Node) /\ Len(others) = Len(list) - 1
  BY <1>1, HeadInList, Zenon DEF IInv
<1>4. length = Len(list) /\ length \in Nat
  BY DEF IInv, CountersAgree, TypeOK
<1> HIDE DEF others
<1>5. length' = length - 1
  BY <1>2, <1>3, <1>4, Zenon
<1>6. Lanes!Take(x)
  BY <1>2, <1>5 DEF Lanes!Take
<1> QED
  BY <1>1, <1>6, Zenon DEF Lanes!Next

(***************************************************************************)
(* Every step of queue.c is a step of the abstract queue or leaves its     *)
(* lanes alone.                                                            *)
(***************************************************************************)
LEMMA StepRefines == IInv /\ [Next]_vars => [Lanes!Next]_<<xlist, length>>
<1> SUFFICES ASSUME IInv, [Next]_vars, ~ UNCHANGED <<xlist, length>>
             PROVE  Lanes!Next
  BY Zenon
<1> USE DEF lists
<1>1. ASSUME NEW c \in Consumers, Offer(c) \/ AddStep(c) PROVE Lanes!Next
  <2>1. CASE queue_add_append(c)
    BY <2>1, AppendIsPut, Zenon
  <2> QED
    BY <1>1, <2>1 DEF Offer, queue_add, queue_add_refused, AddStep, queue_add_no_xmark,
                      queue_add_full
<1>2. ASSUME NEW p \in Producers, queue_get_lane(p) PROVE Lanes!Next
  BY <1>2, TakeIsTake, ZenonT(30) DEF queue_get_lane, asleep_on
<1>3. ASSUME NEW p \in Producers, queue_get(p) \/ GetStep(p) \/ timeout(p)
      PROVE  Lanes!Next
  <2>1. CASE queue_get_any(p) \/ queue_get_lane(p)
    BY <1>2, <2>1 DEF queue_get_any, asleep_on
  <2> QED
    BY <1>3, <2>1, ZenonT(30) DEF queue_get, xmark_find, GetStep, queue_get_woken, queue_get_timedout, timeout
<1>4. ASSUME NEW t \in Threads, spurious_wakeup(t) PROVE FALSE
  BY <1>4 DEF spurious_wakeup
<1>5. ~ queue_added /\ ~ queue_delivered /\ ~ UNCHANGED vars
  BY DEF queue_added, queue_delivered, vars
<1> QED
  BY <1>1, <1>3, <1>4, <1>5 DEF Next

(***************************************************************************)
(* queue.c implements the abstract queue: one first-in first-out lane per  *)
(* xmark under a common bound, for any number of threads.                  *)
(***************************************************************************)
THEOREM Refinement == Spec => LanesFIFO
<1>1. Init => Lanes!Init
  BY DEF Init, Lanes!Init
<1> QED
  BY <1>1, Invariance, StepRefines, PTL DEF Spec, LanesFIFO, Lanes!Spec

(***************************************************************************)
(* q->length, the counts of the xmarks and the statistics say what the     *)
(* lists hold whenever the mutex is free, for any number of threads and    *)
(* any bound (queue.c:313-319, 398-412, 479-499).                          *)
(***************************************************************************)
THEOREM CountersSound == Spec => []CountersRight
<1>1. IInv => CountersRight
  BY DEF IInv, CountersRight
<1> QED
  BY <1>1, Invariance, PTL
-----------------------------------------------------------------------------
(***************************************************************************)
(* A thread is inside of the queue only from within its loop, and one that *)
(* has not started has not been told of a timeout.                         *)
(***************************************************************************)
Places ==
  /\ at \in [Threads -> {"none", "init", "wait", "check", "poll", "get", "got", "exit"}]
  /\ \A c \in Consumers : at[c] # "check" => pc[c] = "idle"
  /\ \A p \in Producers : at[p] # "got" => pc[p] = "idle"
  /\ \A p \in Producers : at[p] \in {"none", "init"} => ret[p] = "0"

(* Whom main() has joined has returned.                                    *)
Joined ==
  /\ main \in {"join_producers", "join_stats", "free", "done"} => \A c \in Consumers : at[c] = "exit"
  /\ main \in {"join_stats", "free", "done"} => \A p \in Producers : at[p] = "exit"
  /\ main \in {"free", "done"} => stat = "exit"

(* What producers hold, and what they have produced, was taken.            *)
Held ==
  /\ produced \subseteq taken
  /\ \A p \in Producers : msg[p] \in taken \cup {NoMsg}
  /\ ProducedOnce

SInv == IInv /\ Places /\ Joined /\ Held /\ LaneAttended
-----------------------------------------------------------------------------
(* Nothing has started.                                                    *)
LEMMA SchaufelInitInv == SchaufelInit => SInv
<1> SUFFICES ASSUME SchaufelInit PROVE SInv
  OBVIOUS
<1>1. IInv
  BY InitIInv, Zenon DEF SchaufelInit
<1>2. Places
  BY DEF SchaufelInit, Init, Places, Threads
<1>3. Joined
  BY Zenon DEF SchaufelInit, Joined
<1>4. Held
  BY QueueAssumption, Zenon DEF SchaufelInit, Init, Held, ProducedOnce
<1>5. LaneAttended
  BY ListPlaces, Zenon DEF SchaufelInit, Init, LaneAttended
<1> QED
  BY <1>1, <1>2, <1>3, <1>4, <1>5 DEF SInv

(***************************************************************************)
(* Messages stay looked after while none comes, and no producer gives up   *)
(* whose lane holds some.                                                  *)
(***************************************************************************)
LEMMA AttendedKept ==
  ASSUME LaneAttended, late \subseteq late',
         \A i \in DOMAIN list' : \E j \in DOMAIN list : list'[i] = list[j],
         \A p \in Producers : leaving(p)' =>
            leaving(p) \/ \A j \in DOMAIN list : list[j].xmark # Xmark[p]
  PROVE  LaneAttended'
<1> SUFFICES ASSUME NEW i \in DOMAIN list', list'[i].msg \notin late'
             PROVE  \E p \in served(list'[i].xmark) : ~leaving(p)'
  BY Zenon DEF LaneAttended, served
<1>1. PICK j \in DOMAIN list : list'[i] = list[j]
  BY Zenon
<1>2. PICK p \in served(list[j].xmark) : ~leaving(p)
  BY <1>1, Zenon DEF LaneAttended
<1>3. p \in Producers /\ Xmark[p] = list[j].xmark
  BY <1>2, Zenon DEF served
<1> QED
  BY <1>1, <1>2, <1>3, Zenon

(* A step that touches neither messages nor what was taken.                *)
LEMMA HeldKept ==
  ASSUME Held, UNCHANGED <<msg, produced, taken>>
  PROVE  Held'
  BY DEF Held, ProducedOnce

(* Steps outside of the queue: starting, joining, the heads of the loops.  *)
LEMMA ControlInv ==
  ASSUME SInv, UNCHANGED <<vars, produced, late>>,
         \/ \E c \in Consumers : consume_init(c) \/ consume_wait(c) \/ consume_check(c) \/ consume_nothing(c)
         \/ \E p \in Producers : produce_init(p) \/ produce_check(p)
         \/ stats \/ stop \/ main_step \/ UNCHANGED allvars
  PROVE  SInv'
<1>1. /\ IInv /\ Places /\ Joined /\ Held /\ LaneAttended
      /\ UNCHANGED <<list, xlist, xtree, length, count, added, delivered, pc, newmsg,
                     msg, ret, unread, dropped, taken, reported>>
  BY Zenon DEF SInv, vars
<1>2. IInv'
  BY <1>1, NextPreserves, Zenon DEF vars
<1>3. \/ at' = at
      \/ \E c \in Consumers : \E a \in {"wait", "check", "poll", "exit"} :
           at[c] \in {"init", "wait", "check", "poll"} /\ pc[c] = "idle" /\ at' = [at EXCEPT ![c] = a]
      \/ \E p \in Producers : at[p] = "init" /\ at' = [at EXCEPT ![p] = "got"]
      \/ \E p \in Producers : \E a \in {"get", "exit"} :
           /\ at[p] = "got" /\ pc[p] = "idle" /\ at' = [at EXCEPT ![p] = a]
           /\ a = "exit" => ret[p] = "ETIMEDOUT"
      \/ \E t \in Threads : /\ at[t] = "none" /\ at' = [at EXCEPT ![t] = "init"]
                            /\ main \in {"create_consumers", "create_producers"}
  <2>1. ASSUME NEW c \in Consumers, consume_init(c) \/ consume_wait(c) \/ consume_check(c) \/ consume_nothing(c)
        PROVE  \E a \in {"wait", "check", "poll", "exit"} :
                 at[c] \in {"init", "wait", "check", "poll"} /\ pc[c] = "idle" /\ at' = [at EXCEPT ![c] = a]
    BY <1>1, <2>1, ZenonT(30) DEF consume_init, consume_wait, consume_check, consume_nothing, Goto, Places
  <2>2. ASSUME NEW p \in Producers, produce_init(p)
        PROVE  at[p] = "init" /\ at' = [at EXCEPT ![p] = "got"]
    BY <2>2 DEF produce_init, Goto
  <2>3. ASSUME NEW p \in Producers, produce_check(p)
        PROVE  \E a \in {"get", "exit"} :
                 /\ at[p] = "got" /\ pc[p] = "idle" /\ at' = [at EXCEPT ![p] = a]
                 /\ a = "exit" => ret[p] = "ETIMEDOUT"
    BY <2>3, ZenonT(30) DEF produce_check, Goto, stopping
  <2>4. CASE stats \/ stop \/ UNCHANGED allvars
    BY <2>4, ZenonT(30) DEF stats, stop, allvars
  <2>5. CASE main_step
    <3>1. CASE create_stats \/ join_consumers \/ join_producers \/ join_stats \/ main_free
      BY <3>1, Zenon DEF create_stats, join_consumers, join_producers, join_stats, main_free
    <3>2. CASE init_threads(Consumers, "create_consumers", "create_producers")
      BY <3>2, Zenon DEF init_threads, Goto, Threads
    <3>3. CASE init_threads(Producers, "create_producers", "create_stats")
      BY <3>3, ZenonT(30) DEF init_threads, Goto, Threads
    <3> QED
      BY <2>5, <3>1, <3>2, <3>3, ZenonT(30) DEF main_step
  <2> QED
    BY <2>1, <2>2, <2>3, <2>4, <2>5, Zenon
<1>4. Consumers \cap Producers = {} /\ Consumers \subseteq Threads /\ Producers \subseteq Threads
  BY QueueAssumption, SMTT(30) DEF Threads
<1>5. Places'
  BY <1>1, <1>3, <1>4, ZenonT(30) DEF Places
<1>6. \A t \in Threads : at[t] = "exit" => at'[t] = "exit"
  BY <1>1, <1>3, <1>4, ZenonT(30) DEF Places
<1>7. \/ main' = main /\ (stat = "exit" => stat' = "exit")
      \/ main' \in {"create_consumers", "create_producers", "create_stats", "join_consumers"}
      \/ /\ main' = "join_producers" /\ \A c \in Consumers : at[c] = "exit"
      \/ /\ main = "join_producers" /\ main' = "join_stats" /\ \A p \in Producers : at[p] = "exit"
      \/ /\ main = "join_stats" /\ main' = "free" /\ stat = "exit" /\ stat' = stat
      \/ /\ main = "free" /\ main' = "done" /\ stat' = stat
  <2>1. CASE main_step
    BY <2>1, Zenon DEF main_step, init_threads, create_stats, join_consumers, join_producers, join_stats, main_free
  <2>2. CASE stats \/ stop \/ UNCHANGED allvars
    BY <2>2, Zenon DEF stats, stop, allvars
  <2>3. ASSUME NEW c \in Consumers, consume_init(c) \/ consume_wait(c) \/ consume_check(c) \/ consume_nothing(c)
        PROVE  main' = main /\ stat' = stat
    BY <2>3, Zenon DEF consume_init, consume_wait, consume_check, consume_nothing, control
  <2>4. ASSUME NEW p \in Producers, produce_init(p) \/ produce_check(p)
        PROVE  main' = main /\ stat' = stat
    BY <2>4, ZenonT(30) DEF produce_init, produce_check, control
  <2> QED
    BY <2>1, <2>2, <2>3, <2>4, SMTT(30)
<1>8. Joined'
  BY <1>1, <1>4, <1>6, <1>7, Zenon DEF Joined
<1>9. Held'
  BY <1>1, HeldKept, SMTT(30)
<1>10. \A p \in Producers : leaving(p)' => leaving(p)
  BY <1>1, <1>3, <1>4, ZenonT(30) DEF Places, leaving
<1>11. LaneAttended'
  BY <1>1, <1>10, AttendedKept, ZenonT(30)
<1> QED
  BY <1>2, <1>5, <1>8, <1>9, <1>11, Zenon DEF SInv

(***************************************************************************)
(* A step that leaves main() and the statistics thread where they are, and *)
(* lets nobody come back who has returned.                                 *)
(***************************************************************************)
LEMMA JoinedKept ==
  ASSUME Joined, UNCHANGED <<main, stat>>, \A t \in Threads : at[t] = "exit" => at'[t] = "exit"
  PROVE  Joined'
  BY Zenon DEF Joined, Threads

(* consume_message: a message is refused, or taken into queue_add.         *)
LEMMA OfferInv ==
  ASSUME SInv, NEW c \in Consumers, consume_message(c)
  PROVE  SInv'
<1>1. /\ IInv /\ Places /\ Joined /\ Held /\ LaneAttended
      /\ at[c] = "poll" /\ at' = [at EXCEPT ![c] = "check"]
      /\ UNCHANGED <<main, stat, produced, late>> /\ Offer(c)
  BY Zenon DEF SInv, consume_message, Goto, control
<1>2. /\ UNCHANGED <<list, msg, ret, taken>>
      /\ pc' = pc \/ pc' = [pc EXCEPT ![c] = "add"]
  BY <1>1, Zenon DEF Offer, queue_add, queue_add_refused, lists
<1>3. IInv'
  BY <1>1, NextPreserves DEF Next
<1>4. Consumers \cap Producers = {} /\ c \in Threads /\ Producers \subseteq Threads /\ Consumers \subseteq Threads
  BY QueueAssumption, Zenon DEF Threads
<1>5. pc \in [Threads -> AddPc \cup GetPc]
  BY <1>1 DEF IInv, TypeOK
<1>6. Places'
  BY <1>1, <1>2, <1>4, <1>5, Zenon DEF Places
<1>7. Joined'
  BY <1>1, <1>4, JoinedKept, Zenon DEF Places
<1>8. \A p \in Producers : leaving(p)' => leaving(p)
  BY <1>1, <1>2, <1>4, <1>5, ZenonT(30) DEF leaving, Places
<1>9. LaneAttended'
  BY <1>1, <1>2, <1>8, AttendedKept, Zenon
<1> QED
  BY <1>1, <1>2, <1>3, <1>6, <1>7, <1>9, HeldKept, Zenon DEF SInv

(* queue_add goes on: it appends, waits, or gives the message up.          *)
LEMMA AddInv ==
  ASSUME SInv, NEW c \in Consumers, consume_add(c)
  PROVE  SInv'
<1> DEFINE n == newmsg[c]
<1>1. /\ IInv /\ Places /\ Joined /\ Held /\ LaneAttended /\ AddStep(c)
      /\ UNCHANGED <<main, stat, produced, at>>
      /\ late' = IF list' # list /\ \A p \in served(n.xmark) : leaving(p)
                 THEN late \cup {n.msg} ELSE late
  BY Zenon DEF SInv, consume_add, control
<1>2. IInv'
  BY <1>1, NextPreserves, Zenon DEF Next
<1>3. Consumers \cap Producers = {} /\ c \in Threads /\ Producers \subseteq Threads /\ Consumers \subseteq Threads
  BY QueueAssumption DEF Threads
<1>4. pc \in [Threads -> AddPc \cup GetPc] /\ pc[c] # "idle"
  BY <1>1, Zenon DEF IInv, TypeOK, AddStep, queue_add_no_xmark, queue_add_full, queue_add_append
<1>5. /\ UNCHANGED <<msg, ret, taken>>
      /\ \A d \in Consumers \ {c} : pc'[d] = pc[d]
      /\ \A p \in Producers : /\ pc'[p] # "timedout" \/ pc[p] = "timedout"
                              /\ pc'[p] = "idle" <=> pc[p] = "idle"
  <2>1. CASE queue_add_no_xmark(c)
    BY <2>1, <1>3, <1>4, Zenon DEF queue_add_no_xmark
  <2>2. CASE queue_add_full(c)
    BY <2>2, <1>3, <1>4, Zenon DEF queue_add_full, ledger
  <2>3. CASE queue_add_append(c)
    <3>1. \A d \in Consumers : pc[d] \in AddPc
      BY <1>1, Zenon DEF IInv, TypeOK
    <3> QED
      BY <2>3, <3>1, <1>3, <1>4, Zenon DEF queue_add_append, wake_producers, ledger, AddPc
  <2> QED
    BY <1>1, <2>1, <2>2, <2>3, ZenonT(30) DEF AddStep
<1>6. Places'
  BY <1>1, <1>3, <1>4, <1>5, Zenon DEF Places
<1>7. Joined'
  BY <1>1, JoinedKept, SMTT(30)
<1>8. \A p \in Producers : leaving(p)' => leaving(p)
  BY <1>1, <1>5, Zenon DEF leaving
<1>9. LaneAttended'
  <2>1. CASE list' = list
    BY <2>1, <1>1, <1>8, AttendedKept, Zenon
  <2>2. CASE list' # list
    <3>1. list' = Append(list, n) /\ list \in Seq(Node)
      BY <1>1, <2>2, Zenon DEF AddStep, queue_add_no_xmark, queue_add_full, queue_add_append, link, lists, IInv, TypeOK
    <3>2. \A i \in DOMAIN list' : (i \in DOMAIN list /\ list'[i] = list[i]) \/ list'[i] = n
      BY <3>1, SMTT(30)
    <3> SUFFICES ASSUME NEW i \in DOMAIN list', list'[i].msg \notin late'
                 PROVE  \E p \in served(list'[i].xmark) : ~leaving(p)'
      BY Zenon DEF LaneAttended, served
    <3>3. CASE i \in DOMAIN list /\ list'[i] = list[i]
      BY <3>3, <1>1, <1>8, ZenonT(30) DEF LaneAttended, served
    <3>4. CASE list'[i] = n
      BY <3>4, <2>2, <1>1, <1>8, Zenon DEF served
    <3> QED
      BY <3>2, <3>3, <3>4, Zenon
  <2> QED
    BY <2>1, <2>2, Zenon
<1> QED
  BY <1>1, <1>2, <1>5, <1>6, <1>7, <1>9, HeldKept, Zenon DEF SInv

(* A producer calls queue_get, or goes on inside of it; it gives up only   *)
(* when its lane is empty.                                                 *)
LEMMA TimeoutInv ==
  ASSUME SInv, NEW p \in Producers, timeout(p) \/ queue_get_timedout(p), UNCHANGED <<control, at, late>>
  PROVE  SInv'
<1>1. /\ IInv /\ Places /\ Joined /\ Held /\ LaneAttended
      /\ UNCHANGED <<main, stat, produced, at, late, list, msg, taken>>
  BY Zenon DEF SInv, control, timeout, queue_get_timedout, lists, ledger
<1>2. IInv'
  BY NextPreserves, <1>1 DEF Next, GetStep
<1>3. Consumers \cap Producers = {} /\ p \in Threads /\ Producers \subseteq Threads /\ Consumers \subseteq Threads
  BY QueueAssumption, Zenon DEF Threads
<1>4. /\ pc \in [Threads -> AddPc \cup GetPc] /\ ret \in [Producers -> {"0", "ETIMEDOUT"}]
      /\ list \in Seq(Node) /\ Xmark[p] \in Xmarks
  BY <1>1, QueueAssumption, Zenon DEF IInv, TypeOK
<1>5. /\ pc[p] # "idle" /\ at[p] = "got"
      /\ \A t \in Threads \ {p} : pc'[t] = pc[t]
      /\ \A q \in Producers \ {p} : ret'[q] = ret[q]
  BY <1>1, <1>3, <1>4, ZenonT(30) DEF timeout, queue_get_timedout, Places
<1>6. Places'
  BY <1>1, <1>3, <1>5, ZenonT(30) DEF Places
<1>7. Joined'
  BY <1>1, JoinedKept
<1>8. leaving(p) \/ \A j \in DOMAIN list : list[j].xmark # Xmark[p]
  <2>1. CASE queue_get_timedout(p)
    BY <2>1, <1>5, Zenon DEF queue_get_timedout, leaving
  <2>2. CASE timeout(p)
    <3>1. list = <<>> \/ xlist[Xmark[p]] = <<>>
      BY <2>2, <1>1, Zenon DEF timeout, IInv, NoLostWakeup
    <3>2. CASE list = <<>>
      BY <3>2, ListPlaces, ZenonT(30)
    <3>3. CASE xlist[Xmark[p]] = <<>>
      BY <3>3, <1>1, LaneOfNode, ListPlaces, Zenon DEF IInv
    <3> QED
      BY <3>1, <3>2, <3>3, Zenon
  <2> QED
    BY <2>1, <2>2, ZenonT(30)
<1>9. \A q \in Producers : leaving(q)' => leaving(q) \/ \A j \in DOMAIN list : list[j].xmark # Xmark[q]
  BY <1>1, <1>3, <1>5, <1>8, Zenon DEF leaving
<1>10. LaneAttended'
  BY <1>1, <1>9, AttendedKept, Zenon
<1> QED
  BY <1>1, <1>2, <1>6, <1>7, <1>10, HeldKept, Zenon DEF SInv

(* queue_get sleeps, or takes the oldest message of its lane.              *)
LEMMA GetInv ==
  ASSUME SInv, NEW p \in Producers, produce_get(p) \/ (queue_get_woken(p) /\ UNCHANGED <<control, at, late>>)
  PROVE  SInv'
<1>1. /\ IInv /\ Places /\ Joined /\ Held /\ LaneAttended
      /\ UNCHANGED <<main, stat, produced, late>>
      /\ queue_get_any(p) \/ queue_get_lane(p)
  BY Zenon DEF SInv, produce_get, control, queue_get, queue_get_woken
<1>2. IInv'
  BY <1>1, NextPreserves, Zenon DEF Next, GetStep, produce_get
<1>3. Consumers \cap Producers = {} /\ p \in Threads /\ Producers \subseteq Threads /\ Consumers \subseteq Threads
  BY QueueAssumption, Zenon DEF Threads
<1>4. /\ pc \in [Threads -> AddPc \cup GetPc] /\ ret \in [Producers -> {"0", "ETIMEDOUT"}]
      /\ msg \in [Producers -> Messages \cup {NoMsg}]
      /\ list \in Seq(Node) /\ Xmark[p] \in Xmarks
      /\ \A d \in Consumers : pc[d] \in AddPc
      /\ \A q \in Producers : pc[q] \in GetPc
  BY <1>1, QueueAssumption, Zenon DEF IInv, TypeOK
<1>5. /\ at[p] \in {"get", "got"} /\ at' \in [Threads -> {"none", "init", "wait", "check", "poll", "get", "got", "exit"}]
      /\ at'[p] = "got" /\ \A t \in Threads \ {p} : at'[t] = at[t]
  <2>1. CASE produce_get(p)
    BY <2>1, <1>1, <1>3, Zenon DEF produce_get, Goto, Places
  <2>2. CASE queue_get_woken(p) /\ UNCHANGED <<control, at, late>>
    BY <2>2, <1>1, <1>3, Zenon DEF queue_get_woken, Places
  <2> QED
    BY <2>1, <2>2, Zenon
<1>6. \/ /\ asleep_on(p, "producer_cond") \/ asleep_on(p, "x_producer_cond")
      \/ xlist[Xmark[p]] # <<>> /\ queue_get_take(p)
  BY <1>1, Zenon DEF queue_get_any, queue_get_lane
<1>7. Joined'
  <2>1. \A t \in Threads : at[t] = "exit" => at'[t] = "exit"
    BY <1>5, Zenon
  <2> QED
    BY <1>1, <2>1, JoinedKept, Zenon
<1>8. CASE asleep_on(p, "producer_cond") \/ asleep_on(p, "x_producer_cond")
  <2>1. /\ UNCHANGED <<list, msg, ret, taken>>
        /\ pc'[p] \in {"producer_cond", "x_producer_cond"}
        /\ \A t \in Threads \ {p} : pc'[t] = pc[t]
    <3>1. \E cond \in {"producer_cond", "x_producer_cond"} : pc' = [pc EXCEPT ![p] = cond]
      BY <1>8, Zenon DEF asleep_on
    <3>2. UNCHANGED <<list, msg, ret, taken>>
      BY <1>8, Zenon DEF asleep_on, ledger
    <3> QED
      BY <1>3, <1>4, <3>1, <3>2, Zenon
  <2>2. Places'
    <3>1. \A d \in Consumers : at'[d] # "check" => pc'[d] = "idle"
      <4> SUFFICES ASSUME NEW d \in Consumers, at'[d] # "check" PROVE pc'[d] = "idle"
        BY ZenonT(30)
      <4>1. at'[d] = at[d]
        BY <1>3, <1>5, Zenon
      <4>2. pc[d] = "idle"
        BY <1>1, <4>1, Zenon DEF Places
      <4> QED
        BY <4>2, <1>3, <2>1, ZenonT(30)
    <3>2. \A q \in Producers : at'[q] # "got" => pc'[q] = "idle"
      <4> SUFFICES ASSUME NEW q \in Producers \ {p}, at'[q] # "got" PROVE pc'[q] = "idle"
        BY <1>5, Zenon
      <4>1. at'[q] = at[q]
        BY <1>3, <1>5, Zenon
      <4> QED
        BY <1>1, <4>1, <1>3, <2>1, Zenon DEF Places
    <3>3. \A q \in Producers : at'[q] \in {"none", "init"} => ret'[q] = "0"
      <4> SUFFICES ASSUME NEW q \in Producers \ {p}, at'[q] \in {"none", "init"} PROVE ret'[q] = "0"
        BY <1>5
      <4>1. at'[q] = at[q]
        BY <1>3, <1>5, Zenon
      <4> QED
        BY <1>1, <4>1, <2>1, Zenon DEF Places
    <3> QED
      BY <1>5, <3>1, <3>2, <3>3, Zenon DEF Places
  <2>3. \A q \in Producers : leaving(q)' => leaving(q)
    BY <1>3, <1>5, <2>1, Zenon DEF leaving
  <2>4. LaneAttended'
    BY <1>1, <2>1, <2>3, AttendedKept, Zenon
  <2> QED
    BY <1>1, <1>2, <1>7, <2>1, <2>2, <2>4, HeldKept, Zenon DEF SInv
<1>9. CASE xlist[Xmark[p]] # <<>> /\ queue_get_take(p)
  <2> DEFINE f == Head(xlist[Xmark[p]])
  <2>1. PICK n \in 1..Len(list) :
          /\ list[n] = f
          /\ spliced(list, f) \in Seq(Node)
          /\ Len(spliced(list, f)) = Len(list) - 1
          /\ \A k \in 1..Len(list)-1 :
               spliced(list, f)[k] = IF k < n THEN list[k] ELSE list[k+1]
    BY <1>1, <1>4, <1>9, HeadInList, Zenon DEF IInv
  <2>2. /\ list' = spliced(list, f) /\ ret' = [ret EXCEPT ![p] = "0"]
        /\ msg' = [msg EXCEPT ![p] = f.msg] /\ taken' = taken \cup {f.msg}
        /\ pc' = [wake_consumers EXCEPT ![p] = "idle"]
    BY <1>9, ZenonT(30) DEF queue_get_take, unlink
  <2>3. \A i \in DOMAIN list' : \E j \in DOMAIN list : list'[i] = list[j]
    <3>1. list \in Seq(Node) /\ list' \in Seq(Node)
      BY <1>4, <2>1, <2>2, Zenon
    <3>2. MovedUp(list, list', n)
      BY <2>1, <2>2, Zenon DEF MovedUp
    <3> QED
      BY <3>1, <3>2, SplicedFrom
  <2>4. f.msg \in Queued /\ f.msg \in Messages
    <3>1. n \in DOMAIN list /\ list[n] \in Node
      BY <1>4
    <3>2. list[n].msg \in Messages
      BY <3>1, ZenonT(30) DEF Node
    <3>3. list[n].msg \in Queued
      BY <3>1, Zenon DEF Queued
    <3> QED
      BY <2>1, <3>2, <3>3, Zenon
  <2>5. f.msg \notin taken /\ taken \subseteq Messages /\ f.msg # NoMsg
    BY <2>4, <1>1, QueueAssumption, Zenon DEF IInv, Conservation, TypeOK
  <2> HIDE DEF f
  <2>6. Held'
    <3>1. produced' \subseteq taken'
      BY <1>1, <2>2, Zenon DEF Held
    <3>2. /\ msg'[p] = f.msg
          /\ \A q \in Producers \ {p} : msg'[q] = msg[q]
      BY <1>4, <2>2, Zenon
    <3>3. \A q \in Producers : msg'[q] \in taken' \cup {NoMsg}
      BY <1>1, <2>2, <3>2, SMTT(30) DEF Held
    <3>4. f.msg \notin produced /\ \A q \in Producers : msg[q] # f.msg
      BY <1>1, <2>5, Zenon DEF Held
    <3>5. ProducedOnce'
      BY <1>1, <3>2, <3>4, Zenon DEF Held, ProducedOnce
    <3> QED
      BY <3>1, <3>3, <3>5, Zenon DEF Held
  <2>7. /\ pc'[p] = "idle" /\ ret'[p] = "0"
        /\ \A q \in Producers \ {p} : pc'[q] = pc[q] /\ ret'[q] = ret[q]
        /\ \A d \in Consumers : pc'[d] = "idle" <=> pc[d] = "idle"
    <3>1. pc'[p] = "idle" /\ \A t \in Threads \ {p} : pc'[t] = wake_consumers[t]
      BY <1>3, <2>2, Zenon DEF wake_consumers
    <3>2. \A q \in Producers : wake_consumers[q] = pc[q]
      BY <1>3, <1>4 DEF wake_consumers, GetPc
    <3>3. \A d \in Consumers : wake_consumers[d] = "idle" <=> pc[d] = "idle"
      BY <1>3, Zenon DEF wake_consumers
    <3>4. ret'[p] = "0" /\ \A q \in Producers \ {p} : ret'[q] = ret[q]
      BY <1>4, <2>2, Zenon
    <3> QED
      BY <1>3, <3>1, <3>2, <3>3, <3>4, Zenon
  <2>8. Places'
    <3>1. \A d \in Consumers : at'[d] # "check" => pc'[d] = "idle"
      <4> SUFFICES ASSUME NEW d \in Consumers, at'[d] # "check" PROVE pc'[d] = "idle"
        BY Zenon
      <4>1. at'[d] = at[d]
        BY <1>3, <1>5, Zenon
      <4>2. pc[d] = "idle"
        BY <1>1, <4>1, ZenonT(30) DEF Places
      <4> QED
        BY <4>2, <2>7, Zenon
    <3>2. \A q \in Producers : at'[q] # "got" => pc'[q] = "idle"
      <4> SUFFICES ASSUME NEW q \in Producers \ {p}, at'[q] # "got" PROVE pc'[q] = "idle"
        BY <1>5, Zenon
      <4>1. at'[q] = at[q]
        BY <1>3, <1>5, Zenon
      <4> QED
        BY <1>1, <4>1, <2>7, Zenon DEF Places
    <3>3. \A q \in Producers : at'[q] \in {"none", "init"} => ret'[q] = "0"
      <4> SUFFICES ASSUME NEW q \in Producers \ {p}, at'[q] \in {"none", "init"} PROVE ret'[q] = "0"
        BY <1>5, Zenon
      <4>1. at'[q] = at[q]
        BY <1>3, <1>5, Zenon
      <4> QED
        BY <1>1, <4>1, <2>7, Zenon DEF Places
    <3> QED
      BY <1>5, <3>1, <3>2, <3>3, Zenon DEF Places
  <2>9. \A q \in Producers : leaving(q)' => leaving(q)
    BY <1>3, <1>5, <2>7, ZenonT(30) DEF leaving
  <2>10. LaneAttended'
    BY <1>1, <2>3, <2>9, AttendedKept, ZenonT(30)
  <2> QED
    BY <1>2, <1>7, <2>6, <2>8, <2>10, Zenon DEF SInv
<1> QED
  BY <1>6, <1>8, <1>9, Zenon

(* A message goes to the output, or a hook refuses it; either way it is    *)
(* freed and msg->data reset.                                              *)
LEMMA ProduceMessageInv ==
  ASSUME SInv, NEW p \in Producers, produce_message(p)
  PROVE  SInv'
<1>1. /\ IInv /\ Places /\ Joined /\ Held /\ LaneAttended
      /\ UNCHANGED <<list, xlist, xtree, length, count, added, delivered, reported, unread,
                     dropped, taken, pc, newmsg, ret, main, at, stat, late>>
      /\ msg' = [msg EXCEPT ![p] = NoMsg] /\ msg[p] # NoMsg
      /\ produced' \in {produced, produced \cup {msg[p]}}
  BY ZenonT(30) DEF SInv, produce_message, lists, counters, ledger
<1>2. TypeOK /\ msg \in [Producers -> Messages \cup {NoMsg}] /\ taken \subseteq Messages
  BY <1>1, Zenon DEF IInv, TypeOK
<1>3. IInv'
  <2>1. TypeOK'
    BY <1>1, <1>2, Zenon DEF TypeOK
  <2>2. (CountersAgree /\ CapacityBound /\ StatsAddUp /\ ListsAgree /\ NoLostWakeup)'
    <3>1. CountersAgree' /\ CapacityBound' /\ StatsAddUp'
      BY <1>1, ZenonT(30) DEF IInv, CountersAgree, CapacityBound, StatsAddUp
    <3>2. ListsAgree'
      BY <1>1, ListsKept, Zenon DEF IInv
    <3>3. NoLostWakeup'
      BY <1>1, ZenonT(30) DEF IInv, NoLostWakeup, Full
    <3> QED
      BY <3>1, <3>2, <3>3, Zenon
  <2>3. Conservation'
    BY <1>1, MessagesKept, Zenon DEF IInv
  <2> QED
    BY <2>1, <2>2, <2>3, Zenon DEF IInv
<1>4. Places'
  BY <1>1, ZenonT(30) DEF Places
<1>5. Joined'
  BY <1>1, JoinedKept, Zenon
<1>6. Held'
  <2>1. msg'[p] = NoMsg /\ \A q \in Producers \ {p} : msg'[q] = msg[q]
    BY <1>1, <1>2, Zenon
  <2>2. produced' \subseteq taken
    BY <1>1 DEF Held
  <2>3. NoMsg \notin produced'
    BY <1>2, <2>2, QueueAssumption, Zenon
  <2>4. \A q \in Producers \ {p} : msg[q] \notin produced'
    BY <1>1, Zenon DEF Held, ProducedOnce
  <2>5. ProducedOnce'
    BY <1>1, <2>1, <2>3, <2>4, SMTT(30) DEF Held, ProducedOnce
  <2> QED
    BY <1>1, <2>1, <2>2, <2>5, Zenon DEF Held
<1>7. \A q \in Producers : leaving(q)' => leaving(q)
  BY <1>1, ZenonT(30) DEF leaving
<1>8. LaneAttended'
  BY <1>1, <1>7, AttendedKept, Zenon
<1> QED
  BY <1>3, <1>4, <1>5, <1>6, <1>8, SMTT(30) DEF SInv

(* Wakeups without a broadcast, and the counters read by stats().          *)
LEMMA AsideInv ==
  ASSUME SInv, \/ (\E t \in Threads : spurious_wakeup(t) /\ UNCHANGED <<control, at, late>>)
               \/ (stats /\ (queue_added \/ queue_delivered))
  PROVE  SInv'
<1>1. /\ IInv /\ Places /\ Joined /\ Held /\ LaneAttended
      /\ UNCHANGED <<main, at, produced, late, list, msg, ret, taken>>
      /\ stat = "exit" => stat' = "exit"
  BY Zenon DEF SInv, stats, control, spurious_wakeup, queue_added, queue_delivered, lists, ledger
<1>2. IInv'
  BY <1>1, NextPreserves DEF Next
<1>3. /\ pc \in [Threads -> AddPc \cup GetPc]
      /\ \A t \in Threads : /\ pc'[t] = "idle" <=> pc[t] = "idle"
                            /\ pc'[t] = "timedout" => pc[t] = "timedout"
  BY <1>1, SMTT(30) DEF IInv, TypeOK, spurious_wakeup, queue_added, queue_delivered
<1>4. Places'
  BY <1>1, <1>3, ZenonT(30) DEF Places, Threads
<1>5. Joined'
  BY <1>1, Zenon DEF Joined
<1>6. \A q \in Producers : leaving(q)' => leaving(q)
  BY <1>1, <1>3, Zenon DEF leaving, Threads
<1>7. LaneAttended'
  BY <1>1, <1>6, AttendedKept, Zenon
<1> QED
  BY <1>1, <1>2, <1>4, <1>5, <1>7, HeldKept, SMTT(30) DEF SInv
-----------------------------------------------------------------------------
(* Every step of the process keeps the invariant.                          *)
LEMMA StepInv == SInv /\ [SchaufelNext]_allvars => SInv'
<1> SUFFICES ASSUME SInv, [SchaufelNext]_allvars PROVE SInv'
  OBVIOUS
<1>1. CASE UNCHANGED allvars
  BY <1>1, ControlInv, Zenon DEF allvars
<1>2. ASSUME NEW c \in Consumers, consume(c) PROVE SInv'
  <2>1. CASE consume_init(c) \/ consume_wait(c) \/ consume_check(c) \/ consume_nothing(c)
    <3>1. UNCHANGED <<vars, produced, late>>
      BY <2>1, Zenon DEF consume_init, consume_wait, consume_check, consume_nothing, control
    <3> QED
      BY <2>1, <3>1, ControlInv, Zenon
  <2> QED
    BY <1>2, <2>1, OfferInv, AddInv, Zenon DEF consume
<1>3. ASSUME NEW p \in Producers, produce(p) PROVE SInv'
  <2>1. CASE produce_init(p) \/ produce_check(p)
    <3>1. UNCHANGED <<vars, produced, late>>
      BY <2>1, Zenon DEF produce_init, produce_check, control
    <3> QED
      BY <2>1, <3>1, ControlInv, Zenon
  <2>2. CASE produce_getting(p)
    BY <2>2, TimeoutInv, GetInv, Zenon DEF produce_getting, GetStep
  <2> QED
    BY <1>3, <2>1, <2>2, GetInv, ProduceMessageInv, Zenon DEF produce
<1>4. CASE stats \/ stop \/ main_step
  <2>1. CASE stats /\ (queue_added \/ queue_delivered)
    BY <2>1, AsideInv, Zenon
  <2>2. CASE UNCHANGED <<vars, produced, late>>
    BY <2>2, <1>4, ControlInv, Zenon
  <2>3. stats => (UNCHANGED <<vars, produced, late>>) \/ queue_added \/ queue_delivered
    BY Zenon DEF stats
  <2>4. stop => UNCHANGED <<vars, produced, late>>
    BY Zenon DEF stop
  <2>5. main_step => UNCHANGED <<vars, produced, late>>
    BY Zenon DEF main_step, init_threads, create_stats, join_consumers, join_producers, join_stats, main_free
  <2> QED
    BY <1>4, <2>1, <2>2, <2>3, <2>4, <2>5, Zenon
<1>5. ASSUME NEW t \in Threads, spurious_wakeup(t), UNCHANGED <<control, at, late>> PROVE SInv'
  BY <1>5, AsideInv
<1> QED
  BY <1>1, <1>2, <1>3, <1>4, <1>5, Zenon DEF SchaufelNext

(***************************************************************************)
(* The inductive invariant of the process: that of the queue, where the    *)
(* threads stand, what they hold, and who attends to which lane.           *)
(***************************************************************************)
THEOREM ProcessInvariance == SchaufelSpec => []SInv
  BY SchaufelInitInv, StepInv, PTL DEF SchaufelSpec

(***************************************************************************)
(* A message that is queued is left only if all producers of its lane were *)
(* leaving when it was queued (main.c:190-196).                            *)
(***************************************************************************)
THEOREM LanesAttended == SchaufelSpec => []LaneAttended
<1>1. SInv => LaneAttended
  BY Zenon DEF SInv
<1> QED
  BY <1>1, ProcessInvariance, PTL

(***************************************************************************)
(* queue_free runs when all threads have returned, and frees only messages *)
(* that came too late, for any number of threads (main.c:390-402).         *)
(***************************************************************************)
THEOREM FreedLast == SchaufelSpec => []QueueFreedLast
<1>1. SInv => QueueFreedLast
  <2> SUFFICES ASSUME SInv, main \in {"free", "done"}
               PROVE  /\ \A t \in Threads : at[t] = "exit" /\ pc[t] = "idle"
                      /\ stat = "exit"
                      /\ Queued \subseteq late
    BY DEF QueueFreedLast
  <2>1. Places /\ Joined /\ LaneAttended
    BY Zenon DEF SInv
  <2>2. stat = "exit" /\ \A t \in Threads : at[t] = "exit"
    BY <2>1, Zenon DEF Joined, Threads
  <2>3. \A t \in Threads : pc[t] = "idle"
    BY <2>1, <2>2, Zenon DEF Places, Threads
  <2>4. \A p \in Producers : leaving(p)
    BY <2>2, Zenon DEF leaving, Threads
  <2>5. Queued \subseteq late
    BY <2>1, <2>4, Zenon DEF LaneAttended, served, Queued
  <2> QED
    BY <2>2, <2>3, <2>5, Zenon
<1> QED
  BY <1>1, ProcessInvariance, PTL

(***************************************************************************)
(* No message is written twice, although producers use one struct for all  *)
(* their messages (main.c:190-213).                                        *)
(***************************************************************************)
THEOREM NothingTwice == SchaufelSpec => []ProducedOnce
<1>1. SInv => ProducedOnce
  BY DEF SInv, Held
<1> QED
  BY <1>1, ProcessInvariance, PTL

(* In the process the steps of the queue are those of Queue.tla, and no    *)
(* other step touches the lanes.                                           *)
LEMMA StepLanes == SInv /\ [SchaufelNext]_allvars => [Lanes!Next]_<<xlist, length>>
<1> SUFFICES ASSUME SInv, [SchaufelNext]_allvars PROVE [Lanes!Next]_<<xlist, length>>
  BY Zenon
<1>1. [Next]_vars \/ UNCHANGED <<xlist, length>>
  <2>1. CASE UNCHANGED allvars
    BY <2>1, Zenon DEF allvars, vars
  <2>2. ASSUME NEW c \in Consumers, consume(c) PROVE [Next]_vars
    <3>1. CASE consume_init(c) \/ consume_wait(c) \/ consume_check(c) \/ consume_nothing(c)
      BY <3>1, Zenon DEF consume_init, consume_wait, consume_check, consume_nothing
    <3>2. CASE consume_message(c) \/ consume_add(c)
      BY <3>2, Zenon DEF consume_message, consume_add, Next
    <3> QED
      BY <2>2, <3>1, <3>2, Zenon DEF consume
  <2>3. ASSUME NEW p \in Producers, produce(p) PROVE [Next]_vars \/ UNCHANGED <<xlist, length>>
    <3>1. CASE produce_init(p) \/ produce_check(p)
      BY <3>1, ZenonT(30) DEF produce_init, produce_check
    <3>2. CASE produce_get(p) \/ produce_getting(p)
      BY <3>2, Zenon DEF produce_get, produce_getting, Next
    <3>3. CASE produce_message(p)
      BY <3>3, Zenon DEF produce_message, lists
    <3> QED
      BY <2>3, <3>1, <3>2, <3>3, SMTT(30) DEF produce
  <2>4. CASE stats
    BY <2>4, ZenonT(30) DEF stats, Next
  <2>5. CASE stop \/ main_step
    BY <2>5 DEF stop, main_step, init_threads, create_stats, join_consumers, join_producers, join_stats, main_free
  <2>6. ASSUME NEW t \in Threads, spurious_wakeup(t) PROVE [Next]_vars
    BY <2>6 DEF Next
  <2> QED
    BY <2>1, <2>2, <2>3, <2>4, <2>5, <2>6, Zenon DEF SchaufelNext
<1>2. IInv
  BY DEF SInv
<1> QED
  BY <1>1, <1>2, StepRefines

(***************************************************************************)
(* The queue keeps its promise inside of the process, from the first       *)
(* thread to queue_free: bounded first-in first-out lanes.                 *)
(***************************************************************************)
THEOREM ProcessRefinesLanes == SchaufelSpec => LanesFIFO
<1>1. SchaufelInit => Lanes!Init
  BY DEF SchaufelInit, Init, Lanes!Init
<1> QED
  BY <1>1, ProcessInvariance, StepLanes, PTL DEF SchaufelSpec, LanesFIFO, Lanes!Spec
=============================================================================
