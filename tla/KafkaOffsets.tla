---------------------------- MODULE KafkaOffsets ----------------------------
(***************************************************************************)
(* kafka.c with "transactional = true": a consumer polls one partition, a  *)
(* producer thread writes a message out and then runs the message's        *)
(* callback, consumer_commit_offset, which stores the offset; librdkafka   *)
(* commits the stored offset from time to time.  After a crash the         *)
(* partition is read again from the committed offset.                      *)
(*                                                                         *)
(* Messages are named by their offsets, and the queue between the threads  *)
(* is one lane of LaneQueue.tla.                                           *)
(*                                                                         *)
(* A message's payload belongs to librdkafka, so the hook that replaces or *)
(* refuses payloads (jsonexport) cannot be used here; the others let every *)
(* message pass.  Every message has a payload: what becomes of one that    *)
(* has none is in Ownership.tla.                                           *)
(***************************************************************************)
EXTENDS Integers, Sequences, FiniteSets

CONSTANTS End,        \* the partition holds the offsets 0 .. End-1
          Teams,      \* the sets of producer threads there may be
          Outputs,    \* the values sync may have
          Crashes     \* how often the process may crash

ASSUME KafkaAssumption ==
  /\ End \in Nat /\ Crashes \in Nat
  /\ \A team \in Teams : IsFiniteSet(team) /\ team # {}
  /\ Outputs \subseteq BOOLEAN

Offsets == 0..End-1
None == -1

(***************************************************************************)
(* The configuration: which producer threads there are, and whether the    *)
(* output has a message when produce returns (redis without a pipeline) or *)
(* is kafka_producer_produce, which hands it to librdkafka's own buffer.   *)
(***************************************************************************)
VARIABLES Producers, sync
config == <<Producers, sync>>

VARIABLES
  position,   \* the next offset rd_kafka_consumer_poll returns
  queue,      \* the lane between the consumer and the producers
  held,       \* held[p]: the message producer p has taken, or None
  done,       \* done[p]: producer_produce has returned for it
  outq,       \* messages in librdkafka's buffer, not at the broker yet
  stored,     \* the offset last stored, in memory
  committed,  \* the offset last committed, at the broker
  delivered,  \* messages the output has
  failed,     \* history: messages the output refused or could not deliver
  crashes     \* crashes so far

vars == <<Producers, sync, position, queue, held, done, outq, stored, committed,
          delivered, failed, crashes>>

Init ==
  /\ Producers \in Teams
  /\ sync \in Outputs
  /\ position = 0
  /\ queue = <<>>
  /\ held = [p \in Producers |-> None]
  /\ done = [p \in Producers |-> FALSE]
  /\ outq = {}
  /\ stored = 0
  /\ committed = 0
  /\ delivered = {}
  /\ failed = {}
  /\ crashes = 0
-----------------------------------------------------------------------------
(* A message is polled, gets its callback and envelope, and is queued.     *)
transactional_consumer_consume ==
  /\ position < End
  /\ queue' = Append(queue, position)
  /\ position' = position + 1
  /\ UNCHANGED <<config, held, done, outq, stored, committed, delivered, failed, crashes>>

queue_get_newest(p) ==
  /\ held[p] = None /\ queue # <<>>
  /\ held' = [held EXCEPT ![p] = queue[Len(queue)]]
  /\ queue' = SubSeq(queue, 1, Len(queue) - 1)
  /\ UNCHANGED <<config, position, done, outq, stored, committed, delivered, failed, crashes>>

queue_get(p) ==
  /\ held[p] = None /\ queue # <<>>
  /\ held' = [held EXCEPT ![p] = Head(queue)]
  /\ queue' = Tail(queue)
  /\ UNCHANGED <<config, position, done, outq, stored, committed, delivered, failed, crashes>>

(***************************************************************************)
(* producer_produce returns nothing, so what it could not write counts as  *)
(* done.  kafka_producer_produce waits while librdkafka's buffer is full   *)
(* and logs any other error; redis may answer a command by an error.       *)
(***************************************************************************)
produce(p) ==
  /\ held[p] # None /\ ~done[p]
  /\ done' = [done EXCEPT ![p] = TRUE]
  /\ \/ sync /\ delivered' = delivered \cup {held[p]} /\ UNCHANGED <<outq, failed>>
     \/ ~sync /\ outq' = outq \cup {held[p]} /\ UNCHANGED <<delivered, failed>>
     \/ failed' = failed \cup {held[p]} /\ UNCHANGED <<delivered, outq>>
  /\ UNCHANGED <<config, position, queue, held, stored, committed, crashes>>

offset_store_beyond(o) == stored' = o + 2

(* rd_kafka_offset_store: the partition is to be continued after offset o. *)
offset_store(o) == stored' = o + 1

consumer_commit_offset_keeps(p) ==
  /\ held[p] # None /\ done[p]
  /\ offset_store(held[p])
  /\ UNCHANGED <<config, position, queue, held, done, outq, committed, delivered, failed, crashes>>

consumer_commit_offset_first(p) ==
  /\ held[p] # None
  /\ offset_store(held[p])
  /\ held' = [held EXCEPT ![p] = None]
  /\ done' = [done EXCEPT ![p] = FALSE]
  /\ UNCHANGED <<config, position, queue, outq, committed, delivered, failed, crashes>>

(* metadata_callback_run after produce; then the message is freed.         *)
consumer_commit_offset(p) ==
  /\ held[p] # None /\ done[p]
  /\ offset_store(held[p])
  /\ held' = [held EXCEPT ![p] = None]
  /\ done' = [done EXCEPT ![p] = FALSE]
  /\ UNCHANGED <<config, position, queue, outq, committed, delivered, failed, crashes>>
-----------------------------------------------------------------------------
(* librdkafka: a buffered message reaches the broker, or its delivery      *)
(* fails for good, which dr_msg_cb logs.                                   *)
deliver(o) ==
  /\ outq' = outq \ {o}
  /\ \/ delivered' = delivered \cup {o} /\ UNCHANGED failed
     \/ failed' = failed \cup {o} /\ UNCHANGED delivered
  /\ UNCHANGED <<config, position, queue, held, done, stored, committed, crashes>>

(* librdkafka: the automatic commit, which only ever moves forward.        *)
auto_commit ==
  /\ stored > committed
  /\ committed' = stored
  /\ UNCHANGED <<config, position, queue, held, done, outq, stored, delivered, failed, crashes>>

(***************************************************************************)
(* The process ends, by a failing rd_kafka_offset_store or any other       *)
(* abort(), or by being killed, and is started again.                      *)
(***************************************************************************)
crash ==
  /\ crashes < Crashes
  /\ crashes' = crashes + 1
  /\ position' = committed
  /\ queue' = <<>>
  /\ held' = [p \in Producers |-> None]
  /\ done' = [p \in Producers |-> FALSE]
  /\ outq' = {}
  /\ stored' = committed
  /\ UNCHANGED <<config, committed, delivered, failed>>
-----------------------------------------------------------------------------
threads ==
  \/ transactional_consumer_consume
  \/ \E p \in Producers : queue_get(p) \/ produce(p) \/ consumer_commit_offset(p)
  \/ \E o \in outq : deliver(o)
  \/ auto_commit

Next == threads \/ crash

(* The threads, librdkafka's among them, run.                              *)
Spec == Init /\ [][Next]_vars
FairSpec == Spec /\ WF_vars(threads)
-----------------------------------------------------------------------------
(* Every variable has its type, and only a producer that holds a message   *)
(* has produced one.                                                       *)
TypeOK ==
  /\ Producers \in Teams /\ sync \in Outputs
  /\ position \in 0..End
  /\ queue \in Seq(Offsets)
  /\ held \in [Producers -> Offsets \cup {None}]
  /\ done \in [Producers -> BOOLEAN]
  /\ \A p \in Producers : done[p] => held[p] # None
  /\ outq \in SUBSET Offsets
  /\ stored \in 0..End
  /\ committed \in 0..End
  /\ delivered \in SUBSET Offsets
  /\ failed \in SUBSET Offsets
  /\ crashes \in 0..Crashes

(***************************************************************************)
(* "only commiting consumer offsets after they have been produced (at      *)
(* least once delivery with good guarantees)" (man/schaufel.conf.5:187-    *)
(* 188): no message before the committed offset is still on its way, for   *)
(* after a crash it would not be read again; the output has it, or had it  *)
(* and refused it.                                                         *)
(***************************************************************************)
AtLeastOnce == \A o \in 0..committed-1 : o \in delivered \cup failed

(***************************************************************************)
(* The conditions under which that holds: one producer thread and an       *)
(* output that answers.                                                    *)
(***************************************************************************)
Single == sync /\ \A p, q \in Producers : p = q
AtLeastOnceIfSingle == Single => AtLeastOnce

(***************************************************************************)
(* Messages before the committed offset, so that they will not be read     *)
(* again, that no output has and that neither a producer nor librdkafka is *)
(* going to write any more.                                                *)
(***************************************************************************)
Lost == {o \in 0..committed-1 : /\ o \notin delivered \cup outq
                                /\ \A p \in Producers : held[p] # o}

(***************************************************************************)
(* What several producers still guarantee: the offsets are stored in the   *)
(* order the producers finish, so besides what the output refused a crash  *)
(* loses the messages the slower ones hold, one each, and never the one    *)
(* that was stored last (kafka.c:36 with main.c:204-207).                  *)
(***************************************************************************)
LossBound == sync => Cardinality(Lost \ failed) <= crashes * (Cardinality(Producers) - 1)

(***************************************************************************)
(* Every loss has a cause, whatever the output and however many producers. *)
(* While the process lives it is an error of produce or of the delivery    *)
(* that is logged and ignored (kafka.c:71-74, kafka.c:511-519): the offset *)
(* is stored and committed as if there were none.  A crash loses what      *)
(* producers hold or librdkafka has buffered, and nothing from the queue   *)
(* or from before.                                                         *)
(***************************************************************************)
LossExplained ==
  [][Lost' \ Lost \subseteq IF crashes' = crashes THEN failed'
                            ELSE outq \cup {held[p] : p \in Producers}]_vars

(***************************************************************************)
(* With one producer and an output that answers, everything in the         *)
(* partition reaches the output, which may refuse it, however the crashes  *)
(* fall.                                                                   *)
(***************************************************************************)
AllMoved == <>[](Single => Offsets \subseteq delivered \cup failed)
=============================================================================
