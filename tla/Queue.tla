------------------------------- MODULE Queue -------------------------------
(***************************************************************************)
(* queue.c: the bounded message queue between the consumer threads, which  *)
(* call queue_add, and the producer threads, which call queue_get.         *)
(*                                                                         *)
(* Every field of struct Queue and struct Xmark is read and written with   *)
(* q->mutex held, so the code between taking the mutex and giving it up    *)
(* (by unlocking it, or by waiting on a condition variable) is one step.   *)
(* What happens without the mutex (the hooks, being asleep, being woken    *)
(* but not yet scheduled) lies between the steps.                          *)
(*                                                                         *)
(* The two linked lists of struct MessageList are sequences here;          *)
(* MessageLists.tla models the pointers.                                   *)
(***************************************************************************)
EXTENDS Integers, Sequences

CONSTANTS Consumers,       \* threads that call queue_add
          Producers,       \* threads that call queue_get
          Xmarks,          \* the routing marks in use
          Xmark,           \* Xmark[p]: the mark producer p asks for
          Messages,        \* the messages offered to the queue, each once
          MAX_QUEUE_SIZE,
          NoMsg            \* a NULL data pointer

Threads == Consumers \cup Producers

ASSUME QueueAssumption ==
  /\ Consumers \cap Producers = {}
  /\ Xmark \in [Producers -> Xmarks]
  /\ MAX_QUEUE_SIZE \in Nat
  /\ NoMsg \notin Messages

Node == [msg : Messages, xmark : Xmarks]
NoNode == [msg |-> NoMsg, xmark |-> NoMsg]

VARIABLES
  list,       \* q->first .. q->last along next: all queued nodes
  xlist,      \* xlist[x]: x->first .. x->last along xnext
  xtree,      \* the xmarks that have a struct Xmark in q->xtree
  length,     \* q->length
  count,      \* count[x]: x->count
  added,      \* q->added, since queue_added last read it
  delivered,  \* q->delivered, since queue_delivered last read it
  pc,         \* pc[t]: where thread t stands in queue_add or queue_get
  newmsg,     \* newmsg[c]: the node queue_add is about to append
  msg,        \* msg[p]: msg->data, as the last queue_get left it
  ret         \* ret[p]: what the last queue_get of p returned

(***************************************************************************)
(* History: messages not offered yet, given up on an error path of         *)
(* queue_add, and returned by queue_get; and the sums of what queue_added  *)
(* and queue_delivered have reported.                                      *)
(***************************************************************************)
VARIABLES unread, dropped, taken, reported

lists    == <<list, xlist, xtree, length, count>>
counters == <<added, delivered, reported>>
ledger   == <<unread, dropped, taken>>
vars     == <<list, xlist, xtree, length, count, added, delivered, pc, newmsg,
              msg, ret, unread, dropped, taken, reported>>

(***************************************************************************)
(* "add": in queue_add, before the mutex.  "consumer_cond",                *)
(* "producer_cond", "x_producer_cond": asleep on q->consumer_cond,         *)
(* q->producer_cond, x->producer_cond.  "*_woken": woken, mutex not yet    *)
(* taken back.  "timedout": a timed wait ran out, mutex not yet taken      *)
(* back.  "idle": outside of the queue.                                    *)
(***************************************************************************)
AddPc == {"idle", "add", "consumer_cond", "add_woken"}
GetPc == {"idle", "producer_cond", "get_woken", "x_producer_cond", "x_woken",
          "timedout"}

Init ==
  /\ list = <<>>
  /\ xlist = [x \in Xmarks |-> <<>>]
  /\ xtree = {}
  /\ length = 0
  /\ count = [x \in Xmarks |-> 0]
  /\ added = 0
  /\ delivered = 0
  /\ pc = [t \in Threads |-> "idle"]
  /\ newmsg = [c \in Consumers |-> NoNode]
  /\ msg = [p \in Producers |-> NoMsg]
  /\ ret = [p \in Producers |-> "0"]
  /\ unread = Messages
  /\ dropped = {}
  /\ taken = {}
  /\ reported = [added |-> 0, delivered |-> 0]
-----------------------------------------------------------------------------
(***************************************************************************)
(* queue_add up to the mutex: the node is allocated and the postadd hooks  *)
(* run on it.  They may move the message to any xmark.                     *)
(***************************************************************************)
queue_add(c, m) ==
  /\ pc[c] = "idle"
  /\ \E x \in Xmarks : newmsg' = [newmsg EXCEPT ![c] = [msg |-> m, xmark |-> x]]
  /\ pc' = [pc EXCEPT ![c] = "add"]
  /\ UNCHANGED <<dropped, taken, lists, counters, msg, ret>>

(***************************************************************************)
(* No node could be allocated (ENOMEM), or a hook refused the message      *)
(* (EBADMSG): queue_add returns and the message is gone.                   *)
(***************************************************************************)
queue_add_refused(c, m) ==
  /\ pc[c] = "idle"
  /\ dropped' = dropped \cup {m}
  /\ UNCHANGED <<taken, lists, counters, pc, newmsg, msg, ret>>

(* _xmark_find: the struct Xmark of x is made on first use.                *)
xmark_find(x) == xtree' = xtree \cup {x}

(***************************************************************************)
(* The mutex is taken, but the struct Xmark the message needs does not     *)
(* exist and cannot be allocated: ENOMEM.                                  *)
(***************************************************************************)
queue_add_no_xmark(c) ==
  /\ pc[c] = "add"
  /\ newmsg[c].xmark \notin xtree
  /\ dropped' = dropped \cup {newmsg[c].msg}
  /\ newmsg' = [newmsg EXCEPT ![c] = NoNode]
  /\ pc' = [pc EXCEPT ![c] = "idle"]
  /\ UNCHANGED <<unread, taken, lists, counters, msg, ret>>

Full == length > MAX_QUEUE_SIZE

(* The mutex is taken, or taken back: the queue is too long, (again) wait. *)
queue_add_full(c) ==
  /\ pc[c] \in {"add", "add_woken"}
  /\ Full
  /\ xmark_find(newmsg[c].xmark)
  /\ pc' = [pc EXCEPT ![c] = "consumer_cond"]
  /\ UNCHANGED <<ledger, list, xlist, length, count, counters, newmsg, msg, ret>>

wake_producers_queue_only(x) ==
  [t \in Threads |-> IF pc[t] = "producer_cond" /\ length = 0 THEN "get_woken" ELSE pc[t]]

(***************************************************************************)
(* pthread_cond_broadcast: q->producer_cond when the queue was empty,      *)
(* x->producer_cond when the lane was.                                     *)
(***************************************************************************)
wake_producers(x) ==
  [t \in Threads |->
     CASE pc[t] = "producer_cond" /\ length = 0 -> "get_woken"
       [] pc[t] = "x_producer_cond" /\ Xmark[t] = x /\ count[x] = 0 -> "x_woken"
       [] OTHER -> pc[t]]

link_global_front(x, n) ==
  /\ xlist' = [xlist EXCEPT ![x] = Append(@, n)]
  /\ list' = <<n>> \o list

(* The new node goes to the end of its lane and of the global list.        *)
link(x, n) ==
  /\ xlist' = [xlist EXCEPT ![x] = Append(@, n)]
  /\ list' = Append(list, n)

(* The mutex is taken, or taken back, and there is room: append and return. *)
queue_add_append(c) ==
  LET x == newmsg[c].xmark IN
  /\ pc[c] \in {"add", "add_woken"}
  /\ ~Full
  /\ xmark_find(x)
  /\ link(x, newmsg[c])
  /\ count' = [count EXCEPT ![x] = @ + 1]
  /\ length' = length + 1
  /\ added' = added + 1
  /\ pc' = [wake_producers(x) EXCEPT ![c] = "idle"]
  /\ newmsg' = [newmsg EXCEPT ![c] = NoNode]
  /\ UNCHANGED <<ledger, delivered, reported, msg, ret>>
-----------------------------------------------------------------------------
(* pthread_cond_broadcast(&q->consumer_cond); nobody waits on x's.         *)
wake_consumers ==
  [t \in Threads |-> IF pc[t] = "consumer_cond" THEN "add_woken" ELSE pc[t]]

(* The list l without its node n.                                          *)
spliced(l, n) ==
  LET i == CHOOSE j \in DOMAIN l : l[j] = n IN SubSeq(l, 1, i - 1) \o SubSeq(l, i + 1, Len(l))

unlink_lane_only(x) ==
  /\ xlist' = [xlist EXCEPT ![x] = Tail(@)]
  /\ list' = list
unlink_newest(x) ==
  /\ xlist' = [xlist EXCEPT ![x] = SubSeq(@, 1, Len(@) - 1)]
  /\ list' = spliced(list, Head(xlist[x]))

(* The head of the lane is unlinked and spliced out of the global list.    *)
unlink(x) ==
  /\ xlist' = [xlist EXCEPT ![x] = Tail(@)]
  /\ list' = spliced(list, Head(xlist[x]))

uncount_lane_once(x) ==
  /\ count' = [count EXCEPT ![x] = IF xlist'[x] = <<>> THEN 0 ELSE @]
  /\ length' = IF list' = <<>> THEN 0 ELSE length - 1

(* Both counters go down; an empty list sets its counter to 0.             *)
uncount(x) ==
  /\ count' = [count EXCEPT ![x] = IF xlist'[x] = <<>> THEN 0 ELSE @ - 1]
  /\ length' = IF list' = <<>> THEN 0 ELSE length - 1

(***************************************************************************)
(* queue_get from the point where both lists are known to hold a message.  *)
(* The preget hooks that would follow are never there: queue_init hangs    *)
(* them on q->postadd.                                                     *)
(***************************************************************************)
queue_get_take(p) ==
  LET x == Xmark[p]
      firstrec == Head(xlist[x])
  IN /\ unlink(x)
     /\ uncount(x)
     /\ delivered' = delivered + 1
     /\ msg' = [msg EXCEPT ![p] = firstrec.msg]
     /\ ret' = [ret EXCEPT ![p] = "0"]
     /\ pc' = [wake_consumers EXCEPT ![p] = "idle"]
     /\ taken' = taken \cup {firstrec.msg}
     /\ UNCHANGED <<unread, dropped, added, reported, newmsg>>

asleep_on(p, cond) ==
  /\ pc' = [pc EXCEPT ![p] = cond]
  /\ UNCHANGED <<ledger, list, xlist, length, count, counters, newmsg, msg, ret>>

(* The second wait loop of queue_get: is there a message in p's own lane?  *)
queue_get_lane(p) ==
  \/ xlist[Xmark[p]] = <<>> /\ asleep_on(p, "x_producer_cond")
  \/ xlist[Xmark[p]] # <<>> /\ queue_get_take(p)

(* The first wait loop: is there any message?  Then look into the lane.    *)
queue_get_any(p) ==
  \/ list = <<>> /\ asleep_on(p, "producer_cond")
  \/ list # <<>> /\ queue_get_lane(p)

queue_get(p) ==
  /\ pc[p] = "idle"
  /\ xmark_find(Xmark[p])
  /\ queue_get_any(p)

(* pthread_cond_timedwait returned 0: the loop it is in tests again.       *)
queue_get_woken(p) ==
  /\ \/ pc[p] = "get_woken" /\ queue_get_any(p)
     \/ pc[p] = "x_woken" /\ queue_get_lane(p)
  /\ UNCHANGED xtree

queue_get_timedout_waits(p) ==
  /\ pc[p] = "timedout"
  /\ asleep_on(p, "producer_cond")
  /\ UNCHANGED xtree

(***************************************************************************)
(* pthread_cond_timedwait returned ETIMEDOUT and the mutex is back: both   *)
(* loops end, whatever the lists hold by now.                              *)
(***************************************************************************)
queue_get_timedout(p) ==
  /\ pc[p] = "timedout"
  /\ pc' = [pc EXCEPT ![p] = "idle"]
  /\ ret' = [ret EXCEPT ![p] = "ETIMEDOUT"]
  /\ UNCHANGED <<ledger, lists, counters, newmsg, msg>>
-----------------------------------------------------------------------------
(* The deadline of a timed wait passes while p is asleep.                  *)
timeout(p) ==
  /\ pc[p] \in {"producer_cond", "x_producer_cond"}
  /\ pc' = [pc EXCEPT ![p] = "timedout"]
  /\ UNCHANGED <<ledger, lists, counters, newmsg, msg, ret>>

(* POSIX lets any wait on a condition variable end without a wakeup.       *)
spurious_wakeup(t) ==
  /\ pc[t] \in {"consumer_cond", "producer_cond", "x_producer_cond"}
  /\ pc' = [pc EXCEPT ![t] = CASE @ = "consumer_cond" -> "add_woken"
                               [] @ = "producer_cond" -> "get_woken"
                               [] OTHER -> "x_woken"]
  /\ UNCHANGED <<ledger, lists, counters, newmsg, msg, ret>>

(* The statistics thread reads a counter and resets it.                    *)
queue_added ==
  /\ reported' = [reported EXCEPT !.added = @ + added]
  /\ added' = 0
  /\ UNCHANGED <<ledger, lists, delivered, pc, newmsg, msg, ret>>

queue_delivered ==
  /\ reported' = [reported EXCEPT !.delivered = @ + delivered]
  /\ delivered' = 0
  /\ UNCHANGED <<ledger, lists, added, pc, newmsg, msg, ret>>
-----------------------------------------------------------------------------
(* What a thread inside queue_add or queue_get does next, on its own.      *)
AddStep(c) == queue_add_no_xmark(c) \/ queue_add_full(c) \/ queue_add_append(c)
GetStep(p) == queue_get_woken(p) \/ queue_get_timedout(p)

(* The callers: any consumer thread offers any message not offered yet.    *)
Offer(c) ==
  \E m \in unread :
    /\ unread' = unread \ {m}
    /\ queue_add(c, m) \/ queue_add_refused(c, m)

Next ==
  \/ \E c \in Consumers : Offer(c) \/ AddStep(c)
  \/ \E p \in Producers : queue_get(p) \/ GetStep(p) \/ timeout(p)
  \/ \E t \in Threads : spurious_wakeup(t)
  \/ queue_added \/ queue_delivered

(***************************************************************************)
(* A thread that is inside of the queue and not asleep is scheduled, and a *)
(* timed wait ends however often it is woken in between: queue_get         *)
(* computes one absolute deadline per call, hence the strong fairness.     *)
(***************************************************************************)
Fairness ==
  /\ \A c \in Consumers : WF_vars(AddStep(c))
  /\ \A p \in Producers : WF_vars(GetStep(p)) /\ SF_vars(timeout(p))

Spec == Init /\ [][Next]_vars
FairSpec == Spec /\ Fairness
-----------------------------------------------------------------------------
(* Every variable has the type its C declaration gives it, and a consumer  *)
(* holds a node exactly while it is inside queue_add.                      *)
TypeOK ==
  /\ list \in Seq(Node)
  /\ xlist \in [Xmarks -> Seq(Node)]
  /\ xtree \in SUBSET Xmarks
  /\ length \in Nat
  /\ count \in [Xmarks -> Nat]
  /\ added \in Nat
  /\ delivered \in Nat
  /\ pc \in [Threads -> AddPc \cup GetPc]
  /\ \A c \in Consumers : pc[c] \in AddPc
  /\ \A p \in Producers : pc[p] \in GetPc
  /\ newmsg \in [Consumers -> Node \cup {NoNode}]
  /\ \A c \in Consumers : newmsg[c] = NoNode <=> pc[c] = "idle"
  /\ msg \in [Producers -> Messages \cup {NoMsg}]
  /\ ret \in [Producers -> {"0", "ETIMEDOUT"}]
  /\ unread \in SUBSET Messages
  /\ dropped \in SUBSET Messages
  /\ taken \in SUBSET Messages
  /\ reported \in [added : Nat, delivered : Nat]

(***************************************************************************)
(* The counters queue_add decides its broadcasts by say what the lists     *)
(* hold, although queue_get resets them on an empty list and waits on the  *)
(* list heads (queue.c:313-319, 351, 370, 398-412).                        *)
(***************************************************************************)
CountersAgree ==
  /\ length = Len(list)
  /\ \A x \in Xmarks : count[x] = Len(xlist[x])

(***************************************************************************)
(* The queue never holds more than MAX_QUEUE_SIZE + 1 messages, however    *)
(* many consumers were woken at once: each one tests again before it       *)
(* appends (queue.c:282-285).                                              *)
(***************************************************************************)
CapacityBound == Len(list) <= MAX_QUEUE_SIZE + 1

(***************************************************************************)
(* No wakeup is lost.  A producer sleeps on q->producer_cond only while    *)
(* the queue is empty and on x->producer_cond only while its lane is; a    *)
(* consumer sleeps on q->consumer_cond only while the queue is full.  So   *)
(* the broadcasts, which queue_add makes conditional on the two counters,  *)
(* reach everybody who could go on.                                        *)
(***************************************************************************)
NoLostWakeup ==
  /\ \A p \in Producers :
       /\ pc[p] = "producer_cond" => list = <<>>
       /\ pc[p] = "x_producer_cond" => xlist[Xmark[p]] = <<>>
  /\ \A c \in Consumers : pc[c] = "consumer_cond" => Full

(***************************************************************************)
(* The lanes partition the global list and keep its order: what a lane     *)
(* holds is in the global list, what the global list holds is in the lane  *)
(* of its xmark, and two nodes of a lane stand in the same order in both,  *)
(* although queue_get splices a lane's head out of the middle of the list  *)
(* (queue.c:287-310, 381-395).                                             *)
(***************************************************************************)
ListsAgree ==
  /\ \A i \in DOMAIN list : \E k \in DOMAIN xlist[list[i].xmark] :
       xlist[list[i].xmark][k] = list[i]
  /\ \A x \in Xmarks : \A k \in DOMAIN xlist[x] :
       /\ xlist[x][k].xmark = x
       /\ \E i \in DOMAIN list : list[i] = xlist[x][k]
  /\ \A x \in Xmarks : \A k, l \in DOMAIN xlist[x] : \A i, j \in DOMAIN list :
       k < l /\ list[i] = xlist[x][k] /\ list[j] = xlist[x][l] => i < j

(***************************************************************************)
(* Where a message can be: not offered, in the hands of a queue_add, in    *)
(* the queue, given up with an error code, or returned by queue_get.       *)
(***************************************************************************)
InHand == {newmsg[c].msg : c \in {d \in Consumers : pc[d] # "idle"}}
Queued == {list[i].msg : i \in DOMAIN list}

(***************************************************************************)
(* No message is lost or delivered twice: every message is in exactly one  *)
(* of those places, in one consumer's hands, and once in the queue.        *)
(***************************************************************************)
Conservation ==
  /\ Messages = unread \cup InHand \cup Queued \cup dropped \cup taken
  /\ unread \cap (InHand \cup Queued \cup dropped \cup taken) = {}
  /\ InHand \cap (Queued \cup dropped \cup taken) = {}
  /\ Queued \cap (dropped \cup taken) = {}
  /\ dropped \cap taken = {}
  /\ \A c, d \in Consumers :
       c # d /\ pc[c] # "idle" /\ pc[d] # "idle" => newmsg[c].msg # newmsg[d].msg
  /\ \A i, j \in DOMAIN list : i # j => list[i].msg # list[j].msg

(***************************************************************************)
(* What the statistics thread was told adds up: read and reset are one     *)
(* step under the mutex, so no message is counted twice or not at all      *)
(* (queue.c:479-499).                                                      *)
(***************************************************************************)
StatsAddUp ==
  (reported.added + added) - (reported.delivered + delivered) = Len(list)

(***************************************************************************)
(* Both: what the counters say, to the threads that decide by them and to  *)
(* the statistics, is what the lists hold (queue.c:313-319, 398-412,       *)
(* 479-499).                                                               *)
(***************************************************************************)
CountersRight == CountersAgree /\ StatsAddUp

(***************************************************************************)
(* The promise: FIFO lanes with a common bound, for any number of threads. *)
(***************************************************************************)
Lanes == INSTANCE LaneQueue WITH
           lane <- xlist, size <- length,
           Entries <- Node, Capacity <- MAX_QUEUE_SIZE + 1
LanesFIFO == Lanes!Spec

(***************************************************************************)
(* queue_get returns: with a message, or with ETIMEDOUT when its deadline  *)
(* passes, whatever the other threads do.  One absolute deadline per call  *)
(* covers both waits, and no wakeup moves it (queue.c:339-379).            *)
(***************************************************************************)
GetReturns == \A p \in Producers : pc[p] # "idle" ~> pc[p] = "idle"
=============================================================================
