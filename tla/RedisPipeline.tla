--------------------------- MODULE RedisPipeline ---------------------------
(***************************************************************************)
(* redis.c: a redis producer and a redis consumer on the same list, with   *)
(* or without pipelining, each the only thread of its connection.          *)
(*                                                                         *)
(* A connection is hiredis' view of a socket: redisAppendCommand only adds *)
(* to obuf; redisGetReply takes the next reply it has already read or else *)
(* writes all of obuf, waits, and reads as many replies as have arrived.   *)
(* The server answers the commands of a connection in order.               *)
(***************************************************************************)
EXTENDS Integers, Sequences, FiniteSets, FiniteSetsExt, SequencesExt

CONSTANTS Messages,    \* what is handed to the producer, each once
          PipeMax      \* the values of the setting pipeline

BLPOP == "BLPOP"
nil == "nil"     \* the reply to a BLPOP whose second has passed
ok == "ok"       \* the reply to an LPUSH, also to one that is refused

ASSUME PipeAssumption == PipeMax \subseteq Nat /\ nil \notin Messages

VARIABLES
  pipe_max,     \* pipe_max[r], r the producer or the consumer; never changes
  pipe_cur,     \* pipe_cur[r]: m->pipe_cur
  pipe_full,    \* m->pipe_full, of the consumer
  pc,           \* pc[r]: "idle", in "command", "check" or "reply"; "freed", "aborted"
  obuf,         \* obuf[r]: commands not yet written
  sent,         \* sent[r]: commands the server has not answered
  wire,         \* wire[r]: replies not yet read
  reader,       \* reader[r]: replies read and not yet taken
  list,         \* the list on the server
  produced, refused, popped, consumed   \* history: sets of messages

conn == <<obuf, sent, wire, reader>>
history == <<produced, refused, popped, consumed>>
vars == <<pipe_max, pipe_cur, pipe_full, pc, obuf, sent, wire, reader, list,
          produced, refused, popped, consumed>>

Roles == {"producer", "consumer"}
Waiting == {"command", "check", "reply"}

Init ==
  /\ pipe_max \in [Roles -> PipeMax]
  /\ pipe_cur = [r \in Roles |-> 0]
  /\ pipe_full = FALSE
  /\ pc = [r \in Roles |-> "idle"]
  /\ obuf = [r \in Roles |-> <<>>] /\ sent = obuf /\ wire = obuf /\ reader = obuf
  /\ list = <<>>
  /\ produced = {} /\ refused = {} /\ popped = {} /\ consumed = {}

append_unchecked(r, command) == UNCHANGED obuf

(* redisAppendCommand, with the abort() that follows an error.             *)
redisAppendCommand(r, command) == obuf' = [obuf EXCEPT ![r] = Append(@, command)]
-----------------------------------------------------------------------------
(***************************************************************************)
(* redis_producer_produce: without a pipe redisCommand, which waits for    *)
(* its reply, and with one redis_meta_check_pipeline when it is full.      *)
(***************************************************************************)
full_late(cur, max) == cur > max
full(cur, max) == cur >= max

produce(msg) ==
  LET max == pipe_max["producer"]
      cur == pipe_cur["producer"] + 1
  IN /\ pc["producer"] = "idle" /\ msg \notin produced
     /\ redisAppendCommand("producer", msg)
     /\ produced' = produced \cup {msg}
     /\ IF max = 0
        THEN pc' = [pc EXCEPT !["producer"] = "command"] /\ UNCHANGED pipe_cur
        ELSE /\ pipe_cur' = [pipe_cur EXCEPT !["producer"] = cur]
             /\ pc' = [pc EXCEPT !["producer"] = IF full(cur, max) THEN "check" ELSE "idle"]
     /\ UNCHANGED <<pipe_max, pipe_full, sent, wire, reader, list, refused, popped, consumed>>

(* Taking a reply inside of redis_meta_check_pipeline or redisCommand.     *)
producer_reply ==
  /\ pc["producer"] \in Waiting /\ reader["producer"] # <<>>
  /\ reader' = [reader EXCEPT !["producer"] = Tail(@)]
  /\ IF pc["producer"] = "command"
     THEN pc' = [pc EXCEPT !["producer"] = "idle"] /\ UNCHANGED pipe_cur
     ELSE /\ pipe_cur' = [pipe_cur EXCEPT !["producer"] = @ - 1]
          /\ pc' = [pc EXCEPT !["producer"] =
                      CASE pipe_cur["producer"] > 1 -> @
                        [] pipe_cur["producer"] <= 1 /\ @ = "check" -> "idle"
                        [] pipe_cur["producer"] <= 1 /\ @ = "reply" -> "freed"]
  /\ UNCHANGED <<pipe_max, pipe_full, obuf, sent, wire, list, history>>

producer_free_at_once ==
  /\ pc["producer"] = "idle"
  /\ pc' = [pc EXCEPT !["producer"] = "freed"]
  /\ UNCHANGED <<pipe_max, pipe_cur, pipe_full, conn, list, history>>

(* redis_producer_free: check_pipeline, not lazy; pc "reply" is this one.  *)
producer_free ==
  /\ pc["producer"] = "idle"
  /\ pc' = [pc EXCEPT !["producer"] = IF pipe_cur["producer"] = 0 THEN "freed" ELSE "reply"]
  /\ UNCHANGED <<pipe_max, pipe_cur, pipe_full, conn, list, history>>
-----------------------------------------------------------------------------
(***************************************************************************)
(* redis_consumer_consume: fills the pipe by one, and takes a reply once   *)
(* the pipe has been full.                                                 *)
(***************************************************************************)
has_room(cur, max) == cur < max
pipe_full_now(cur, max) == pipe_full \/ cur >= max

consume ==
  LET max == pipe_max["consumer"]
      cur == IF has_room(pipe_cur["consumer"], max) THEN pipe_cur["consumer"] + 1 ELSE pipe_cur["consumer"]
  IN /\ pc["consumer"] = "idle"
     /\ \/ /\ max = 0
           /\ redisAppendCommand("consumer", BLPOP)
           /\ pc' = [pc EXCEPT !["consumer"] = "command"]
           /\ UNCHANGED <<pipe_cur, pipe_full>>
        \/ /\ max > 0
           /\ IF cur > pipe_cur["consumer"] THEN redisAppendCommand("consumer", BLPOP)
                                            ELSE UNCHANGED obuf
           /\ pipe_cur' = [pipe_cur EXCEPT !["consumer"] = cur]
           /\ pipe_full' = pipe_full_now(cur, max)
           /\ pc' = [pc EXCEPT !["consumer"] = IF pipe_full_now(cur, max) THEN "reply" ELSE "idle"]
     /\ UNCHANGED <<pipe_max, sent, wire, reader, list, history>>

handle_no_reply(reply) == {}

(* A reply that is no pair of list and value leaves the message without    *)
(* data.                                                                   *)
redis_consumer_handle_reply(reply) == {reply} \ {nil}

consumer_reply ==
  LET reply == Head(reader["consumer"])
      cur == pipe_cur["consumer"] - 1
  IN /\ pc["consumer"] \in Waiting /\ reader["consumer"] # <<>>
     /\ reader' = [reader EXCEPT !["consumer"] = Tail(@)]
     /\ consumed' = consumed \cup redis_consumer_handle_reply(reply)
     /\ pc' = [pc EXCEPT !["consumer"] = "idle"]
     /\ IF pc["consumer"] = "command" THEN UNCHANGED <<pipe_cur, pipe_full>>
        ELSE /\ pipe_cur' = [pipe_cur EXCEPT !["consumer"] = cur]
             /\ pipe_full' = (pipe_full /\ cur # 0)
     /\ UNCHANGED <<pipe_max, obuf, sent, wire, list, produced, refused, popped>>

(* redis_consumer_free: replies still to come are not waited for.          *)
consumer_free ==
  /\ pc["consumer"] = "idle"
  /\ pc' = [pc EXCEPT !["consumer"] = "freed"]
  /\ UNCHANGED <<pipe_max, pipe_cur, pipe_full, conn, list, history>>
-----------------------------------------------------------------------------
(***************************************************************************)
(* redisGetReply and the server.                                           *)
(***************************************************************************)
flush(r) ==
  /\ pc[r] \in Waiting /\ reader[r] = <<>> /\ obuf[r] # <<>>
  /\ sent' = [sent EXCEPT ![r] = @ \o obuf[r]]
  /\ obuf' = [obuf EXCEPT ![r] = <<>>]
  /\ UNCHANGED <<pipe_max, pipe_cur, pipe_full, pc, wire, reader, list, history>>

read(r) ==
  /\ pc[r] \in Waiting /\ reader[r] = <<>> /\ obuf[r] = <<>>
  /\ \E n \in 1..Len(wire[r]) :
       /\ reader' = [reader EXCEPT ![r] = SubSeq(wire[r], 1, n)]
       /\ wire' = [wire EXCEPT ![r] = SubSeq(@, n + 1, Len(@))]
  /\ UNCHANGED <<pipe_max, pipe_cur, pipe_full, pc, obuf, sent, list, history>>

(* An error of the connection, met while waiting, ends the process.        *)
abort(r) ==
  /\ pc[r] \in Waiting
  /\ pc' = [pc EXCEPT ![r] = "aborted"]
  /\ UNCHANGED <<pipe_max, pipe_cur, pipe_full, conn, list, history>>

answer(r, reply) ==
  /\ sent' = [sent EXCEPT ![r] = Tail(@)]
  /\ wire' = [wire EXCEPT ![r] = Append(@, reply)]
  /\ UNCHANGED <<pipe_max, pipe_cur, pipe_full, pc, obuf, reader, produced, consumed>>

(* The producer does not look at replies, a refusal is an error reply.     *)
LPUSH ==
  /\ sent["producer"] # <<>>
  /\ answer("producer", ok)
  /\ \/ list' = <<Head(sent["producer"])>> \o list /\ UNCHANGED refused
     \/ refused' = refused \cup {Head(sent["producer"])} /\ UNCHANGED list
  /\ UNCHANGED popped

pop ==
  /\ sent["consumer"] # <<>> /\ list # <<>>
  /\ answer("consumer", Head(list))
  /\ list' = Tail(list)
  /\ popped' = popped \cup {Head(list)}
  /\ UNCHANGED refused

timeout ==
  /\ sent["consumer"] # <<>> /\ list = <<>>
  /\ answer("consumer", nil)
  /\ UNCHANGED <<list, refused, popped>>

Client(r) == flush(r) \/ read(r) \/ (IF r = "producer" THEN producer_reply ELSE consumer_reply)

Next ==
  \/ \E msg \in Messages : produce(msg)
  \/ producer_reply \/ producer_free
  \/ consume \/ consumer_reply \/ consumer_free
  \/ \E r \in Roles : flush(r) \/ read(r) \/ abort(r)
  \/ LPUSH \/ pop \/ timeout

Spec == Init /\ [][Next]_vars

(***************************************************************************)
(* A call that waits goes on when it can, and the server answers every     *)
(* command, a BLPOP after its second at the latest.                        *)
(***************************************************************************)
Fairness ==
  /\ \A r \in Roles : WF_vars(Client(r))
  /\ WF_vars(LPUSH) /\ WF_vars(pop \/ timeout)

FairSpec == Spec /\ Fairness
-----------------------------------------------------------------------------
Outstanding(r) == Len(obuf[r]) + Len(sent[r]) + Len(wire[r]) + Len(reader[r])

(* pipe_cur counts exactly the commands whose reply has not been taken, so *)
(* a reply that is waited for is always on its way, and replies are never  *)
(* taken for those of other commands.  Without a pipe it stays 0, and one  *)
(* command at most is under way.                                           *)
RepliesMatch ==
  \A r \in Roles :
    IF pipe_max[r] > 0
    THEN /\ Outstanding(r) = pipe_cur[r] /\ pipe_cur[r] <= pipe_max[r]
         /\ pc[r] \in Waiting => Outstanding(r) > 0
    ELSE /\ pipe_cur[r] = 0
         /\ pc[r] \in {"idle", "freed"} => Outstanding(r) = 0
         /\ pc[r] \in Waiting => Outstanding(r) = 1

(* What can be lost on the producer's side: nothing once it is freed, less *)
(* than a pipe while it is between two calls, and when the connection      *)
(* fails a pipe, or one message without.  A message whose LPUSH is         *)
(* answered by an error is not counted: the producer looks at no reply.    *)
ProducerLoss ==
  LET unsaved == produced \ (refused \cup Range(list) \cup popped) IN
  CASE pc["producer"] = "freed" -> unsaved = {}
    [] pc["producer"] = "idle" /\ pipe_max["producer"] > 0 ->
         Cardinality(unsaved) < pipe_max["producer"]
    [] pc["producer"] = "idle" /\ pipe_max["producer"] = 0 -> unsaved = {}
    [] OTHER -> Cardinality(unsaved) <= Max({pipe_max["producer"], 1})

(* What the server has given out and no call of consume() has returned is  *)
(* lost when the consumer ends: less than a pipe in redis_consumer_free,   *)
(* nothing without a pipe, and a pipe or one message when the connection   *)
(* fails.                                                                  *)
ConsumerLoss ==
  LET unseen == popped \ consumed
      max == pipe_max["consumer"]
  IN /\ pc["consumer"] \in {"idle", "freed"} =>
          Cardinality(unseen) <= IF max = 0 THEN 0 ELSE max - 1
     /\ Cardinality(unseen) <= Max({max, 1})

(* Every call of produce(), consume() or producer_free() that waits for a  *)
(* reply returns, or the connection fails.                                 *)
CallReturns == \A r \in Roles : pc[r] \in Waiting ~> pc[r] \notin Waiting
=============================================================================
