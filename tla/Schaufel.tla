------------------------------ MODULE Schaufel ------------------------------
(***************************************************************************)
(* main.c: the life of the process.  main starts the consumer threads,     *)
(* then the producer threads, then the statistics thread, and joins them   *)
(* in that order; two atomic flags tell the threads when to start and when *)
(* to stop.  What the threads do inside of the queue is Queue.tla, whose   *)
(* steps are used here unchanged.                                          *)
(*                                                                         *)
(* A consumer reads from an input (a source) and calls queue_add; a        *)
(* producer calls queue_get and writes to an output.  Which kind of input  *)
(* or output it is does not matter here.                                   *)
(*                                                                         *)
(* abort(), which a failing pthread_create, input or output calls, ends    *)
(* the process where it stands: a behaviour that stops.                    *)
(***************************************************************************)
EXTENDS Queue

VARIABLES
  consume_state,  \* TRUE until main has joined the consumers, or a signal
  produce_state,  \* TRUE from the first producer up until all are joined
  main,           \* where main() stands
  at,             \* at[t]: where thread t stands in consume() or produce()
  stat,           \* where the statistics thread stands in stats()
  produced,       \* history: messages handed to producer_produce
  late            \* history: messages queued when no producer of their lane
                  \* was going to look again

control == <<consume_state, produce_state, main, stat, produced>>
allvars == <<vars, consume_state, produce_state, main, at, stat, produced, late>>

(***************************************************************************)
(* "none": not created.  Consumers: "init", "wait" (for a producer),       *)
(* "check" (consume_state; or inside queue_add), "poll" (the input).       *)
(* Producers: "init", "get" (about to call queue_get), "got" (in queue_get *)
(* or past it).  "exit": the thread function has returned.                 *)
(***************************************************************************)

SchaufelInit ==
  /\ Init
  /\ consume_state = TRUE
  /\ produce_state = FALSE
  /\ main = "create_consumers"
  /\ at = [t \in Threads |-> "none"]
  /\ stat = "none"
  /\ produced = {}
  /\ late = {}

Goto(t, place) == at' = [at EXCEPT ![t] = place]
-----------------------------------------------------------------------------
(* consume(): the message and the consumer are allocated, or the thread    *)
(* gives up ("could not init consumer").                                   *)
consume_init(c) ==
  /\ at[c] = "init"
  /\ Goto(c, "wait") \/ Goto(c, "exit")
  /\ UNCHANGED <<vars, control, late>>

(* while (!get_state(&produce_state)) sleep(1); a signal does not end it.  *)
consume_wait(c) ==
  /\ at[c] = "wait"
  /\ produce_state
  /\ Goto(c, "check")
  /\ UNCHANGED <<vars, control, late>>

(* while (get_state(&consume_state)), then free and return.                *)
consume_check(c) ==
  /\ at[c] = "check"
  /\ pc[c] = "idle"
  /\ Goto(c, IF consume_state THEN "poll" ELSE "exit")
  /\ UNCHANGED <<vars, control, late>>

(* consumer_consume returned -1 (end of file), or 0 without a message.     *)
consume_nothing(c) ==
  /\ at[c] = "poll"
  /\ Goto(c, "exit") \/ Goto(c, "check")
  /\ UNCHANGED <<vars, control, late>>

(***************************************************************************)
(* consumer_consume returned a message: a preadd hook refuses it, or       *)
(* queue_add is called, whose result is ignored.                           *)
(***************************************************************************)
consume_message(c) ==
  /\ at[c] = "poll"
  /\ Offer(c)
  /\ Goto(c, "check")
  /\ UNCHANGED <<control, late>>

(***************************************************************************)
(* Producer p will not call queue_get again if consume_state is false: it  *)
(* has returned, or its last wait in queue_get has run out.                *)
(***************************************************************************)
leaving(p) ==
  \/ at[p] = "exit"
  \/ at[p] = "got" /\ pc[p] = "timedout"
  \/ at[p] = "got" /\ pc[p] = "idle" /\ ret[p] = "ETIMEDOUT"

served(x) == {p \in Producers : Xmark[p] = x}

(* The rest of queue_add.                                                  *)
consume_add(c) ==
  LET n == newmsg[c] IN
  /\ AddStep(c)
  /\ late' = IF list' # list /\ \A p \in served(n.xmark) : leaving(p)
             THEN late \cup {n.msg} ELSE late
  /\ UNCHANGED <<control, at>>
-----------------------------------------------------------------------------
(***************************************************************************)
(* produce(): the producer is set up, and the consumers may start.  (There *)
(* is a producer_init for every type that config_validate lets through;    *)
(* one that fails aborts.)                                                 *)
(***************************************************************************)
produce_init(p) ==
  /\ at[p] = "init"
  /\ produce_state' = TRUE
  /\ Goto(p, "got")
  /\ UNCHANGED <<vars, consume_state, main, stat, produced, late>>

stopping_no_timeout(p) == ~consume_state
stopping_other_flag(p) == ~produce_state /\ ret[p] = "ETIMEDOUT"
stopping(p) == ~consume_state /\ ret[p] = "ETIMEDOUT"

(* The head of the loop: leave, or call queue_get (again).                 *)
produce_check(p) ==
  /\ at[p] = "got"
  /\ pc[p] = "idle"
  /\ ret[p] = "ETIMEDOUT" \/ msg[p] = NoMsg
  /\ Goto(p, IF stopping(p) THEN "exit" ELSE "get")
  /\ UNCHANGED <<vars, control, late>>

produce_get(p) ==
  /\ at[p] = "get"
  /\ queue_get(p)
  /\ Goto(p, "got")
  /\ UNCHANGED <<control, late>>

(* Inside of queue_get: woken, timed out, or the deadline passes.          *)
produce_getting(p) ==
  /\ GetStep(p) \/ timeout(p)
  /\ UNCHANGED <<control, at, late>>

produce_message_kept(p) ==
  /\ at[p] = "got"
  /\ pc[p] = "idle"
  /\ ret[p] = "0" /\ msg[p] # NoMsg
  /\ produced' \in {produced, produced \cup {msg[p]}}
  /\ UNCHANGED <<vars, consume_state, produce_state, main, at, stat, late>>

(***************************************************************************)
(* A message was returned: a postget hook refuses it, or it is handed to   *)
(* producer_produce.  Either way it is freed and msg->data reset.          *)
(***************************************************************************)
produce_message(p) ==
  /\ at[p] = "got"
  /\ pc[p] = "idle"
  /\ ret[p] = "0" /\ msg[p] # NoMsg
  /\ produced' \in {produced, produced \cup {msg[p]}}
  /\ msg' = [msg EXCEPT ![p] = NoMsg]
  /\ UNCHANGED <<lists, counters, ledger, pc, newmsg, ret, consume_state,
                 produce_state, main, at, stat, late>>
-----------------------------------------------------------------------------
(* stats(): read both counters while consume_state, with a sleep between.  *)
stats ==
  /\ \/ /\ stat = "check"
        /\ stat' = IF consume_state THEN "added" ELSE "exit"
        /\ UNCHANGED vars
     \/ stat = "added" /\ stat' = "delivered" /\ queue_added
     \/ stat = "delivered" /\ stat' = "check" /\ queue_delivered
  /\ UNCHANGED <<consume_state, produce_state, main, at, produced, late>>

(* SIGINT or SIGTERM.                                                      *)
stop ==
  /\ consume_state' = FALSE
  /\ UNCHANGED <<vars, produce_state, main, at, stat, produced, late>>
-----------------------------------------------------------------------------
(* pthread_create for one thread of T; after the last, main goes on.       *)
init_threads(T, here, next) ==
  /\ main = here
  /\ \E t \in T :
       /\ at[t] = "none"
       /\ Goto(t, "init")
       /\ main' = IF \A u \in T \ {t} : at[u] # "none" THEN next ELSE here
  /\ UNCHANGED <<vars, consume_state, produce_state, stat, produced, late>>

create_stats ==
  /\ main = "create_stats"
  /\ stat' = "check"
  /\ main' = "join_consumers"
  /\ UNCHANGED <<vars, consume_state, produce_state, at, produced, late>>

join_consumers ==
  /\ main = "join_consumers"
  /\ \A c \in Consumers : at[c] = "exit"
  /\ consume_state' = FALSE
  /\ main' = "join_producers"
  /\ UNCHANGED <<vars, produce_state, at, stat, produced, late>>

join_producers ==
  /\ main = "join_producers"
  /\ \A p \in Producers : at[p] = "exit"
  /\ produce_state' = FALSE
  /\ main' = "join_stats"
  /\ UNCHANGED <<vars, consume_state, at, stat, produced, late>>

join_stats_not ==
  /\ main = "join_stats"
  /\ main' = "free"
  /\ UNCHANGED <<vars, consume_state, produce_state, at, stat, produced, late>>

join_stats ==
  /\ main = "join_stats"
  /\ stat = "exit"
  /\ main' = "free"
  /\ UNCHANGED <<vars, consume_state, produce_state, at, stat, produced, late>>

(* queue_free and the rest; what is still queued goes with the queue.      *)
main_free ==
  /\ main = "free"
  /\ main' = "done"
  /\ UNCHANGED <<vars, consume_state, produce_state, at, stat, produced, late>>

main_step ==
  \/ init_threads(Consumers, "create_consumers", "create_producers")
  \/ init_threads(Producers, "create_producers", "create_stats")
  \/ create_stats \/ join_consumers \/ join_producers \/ join_stats \/ main_free

Ended == main = "done"
-----------------------------------------------------------------------------
consume(c) ==
  \/ consume_init(c) \/ consume_wait(c) \/ consume_check(c)
  \/ consume_nothing(c) \/ consume_message(c) \/ consume_add(c)

produce(p) ==
  \/ produce_init(p) \/ produce_check(p) \/ produce_get(p)
  \/ produce_getting(p) \/ produce_message(p)

SchaufelNext ==
  \/ /\ ~Ended
     /\ \/ \E c \in Consumers : consume(c)
        \/ \E p \in Producers : produce(p)
        \/ \E t \in Threads : spurious_wakeup(t) /\ UNCHANGED <<control, at, late>>
        \/ stats \/ stop \/ main_step
  \/ Ended /\ UNCHANGED allvars

(***************************************************************************)
(* A thread that can run is scheduled, an input returns from               *)
(* consumer_consume (they all poll with a timeout, save for a file), and a *)
(* timed wait ends, however often it is woken: queue_get computes one      *)
(* absolute deadline per call, hence the strong fairness.  No thread       *)
(* aborts.  Nothing is assumed of signals.                                 *)
(***************************************************************************)
SchaufelFairness ==
  /\ \A c \in Consumers : WF_allvars(~Ended /\ consume(c))
  /\ \A p \in Producers : /\ WF_allvars(~Ended /\ produce(p))
                          /\ SF_allvars(~Ended /\ timeout(p) /\ UNCHANGED <<control, at, late>>)
  /\ WF_allvars(~Ended /\ stats)
  /\ WF_allvars(~Ended /\ main_step)

SchaufelSpec == SchaufelInit /\ [][SchaufelNext]_allvars
SchaufelFairSpec == SchaufelSpec /\ SchaufelFairness
-----------------------------------------------------------------------------
(***************************************************************************)
(* A queued message is looked after: unless no producer of its lane was    *)
(* going to look again when it was queued, one of them still will, so it   *)
(* leaves the queue before the producers do (main.c:190-196 with           *)
(* queue.c:351-379).                                                       *)
(***************************************************************************)
LaneAttended ==
  \A i \in DOMAIN list :
    list[i].msg \notin late => \E p \in served(list[i].xmark) : ~leaving(p)

(***************************************************************************)
(* When main frees the queue nobody is in it or will call it again, and    *)
(* what it still holds is only what came too late (main.c:390-402).        *)
(***************************************************************************)
QueueFreedLast ==
  main \in {"free", "done"} =>
    /\ \A t \in Threads : at[t] = "exit" /\ pc[t] = "idle"
    /\ stat = "exit"
    /\ Queued \subseteq late

(***************************************************************************)
(* No message reaches an output twice: what a producer holds has not been  *)
(* produced, although msg is reused for every call and queue_get leaves it *)
(* alone when it times out (main.c:190-213).                               *)
(***************************************************************************)
ProducedOnce ==
  /\ \A p \in Producers : msg[p] \notin produced
  /\ \A p, q \in Producers : p # q /\ msg[p] # NoMsg => msg[p] # msg[q]

(***************************************************************************)
(* Shutdown completes: once consume_state is false the process ends,       *)
(* unless the queue is full of messages whose producers have all returned  *)
(* (or that never had one), for then a consumer waits for room for ever    *)
(* (main.c:139-159, 190-196, 390-396 with queue.c:282-285).                *)
(***************************************************************************)
Abandoned ==
  /\ length > MAX_QUEUE_SIZE
  /\ \A i \in DOMAIN list : \A p \in served(list[i].xmark) : at[p] = "exit"
ShutdownCompletes == ~consume_state ~> Ended \/ Abandoned
=============================================================================
