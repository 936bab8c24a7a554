----------------------------- MODULE Ownership -----------------------------
(***************************************************************************)
(* Who owns what a message is made of: its data, its table of metadata     *)
(* and, for a transactional kafka consumer, librdkafka's envelope, on the  *)
(* way from consume() through hooks and queue to produce() and the         *)
(* callback.  One consumer thread and one producer thread, which each use  *)
(* one struct Message for everything; how several of them share the queue  *)
(* is Queue.tla.                                                           *)
(*                                                                         *)
(* free() of what is freed or is librdkafka's, and the use of what is      *)
(* freed, are recorded as the fault of the heap; the program's behaviour   *)
(* is undefined from there on, and the model stops.                        *)
(***************************************************************************)
EXTENDS Integers, Sequences, Functions

CONSTANTS Messages,        \* the offsets of the input's messages, each read once
          NULL

(* What is allocated for message m: its data, the row that jsonexport      *)
(* makes of it, its table and its envelope.                                *)
payload(m) == [of |-> m, is |-> "payload"]
exported(m) == [of |-> m, is |-> "row"]
table(m) == [of |-> m, is |-> "table"]
envelope(m) == [of |-> m, is |-> "envelope"]

Objects(m) == {payload(m), exported(m), table(m), envelope(m)}

ASSUME OwnershipAssumption == Messages \subseteq Nat /\ \A m \in Messages : NULL \notin Objects(m)

(* The xmark of the producer, and one that no producer has.                *)
Xmarks == {"served", "unserved"}

VARIABLES
  setup,     \* hooks, consumer and producer; chosen by the configuration
  heap,      \* what is allocated
  input,     \* messages not yet read
  cmsg,      \* the consumer's struct Message
  newmsg,    \* the struct Message of the cell that queue_add fills
  queue,     \* the struct Messages of the queued cells
  pmsg,      \* the producer's struct Message
  cat, pat,  \* where the consumer and the producer stand
  consume_state,
  ret,       \* what the last queue_get returned
  handle,    \* librdkafka's handle of the consumer: "open" or "closed"
  stored,    \* history: messages whose offset was stored
  skipped,   \* history: messages without data
  nomem      \* history: an allocation in queue_add failed

flow == <<heap, input, cmsg, newmsg, queue, pmsg, cat, pat, consume_state, ret, handle,
          stored, skipped, nomem>>

(***************************************************************************)
(* preadd, postget: the hooks of consumer and producer; postadd, preget:   *)
(* those of the queue.  transactional: the kafka consumer that hands out   *)
(* librdkafka's own buffer; the others hand out a copy.                    *)
(***************************************************************************)

(* of: the message it is about.                                            *)
Empty == [of |-> NULL, data |-> NULL, metadata |-> NULL, xmark |-> "served"]

(* envelopes: the tables whose rk_message still points to the envelope.    *)
NewHeap == [live |-> {}, freed |-> {}, envelopes |-> {}, fault |-> "none"]

FlowInit ==
  /\ heap = NewHeap
  /\ cmsg = Empty /\ newmsg = Empty /\ pmsg = Empty
  /\ queue = <<>>
  /\ cat = "consume" /\ pat = "get"
  /\ consume_state = TRUE
  /\ ret = "0"
  /\ handle = "open"
  /\ stored = {} /\ skipped = {}
  /\ nomem = FALSE
-----------------------------------------------------------------------------
(* The heap h after one more call; the first fault is the one that counts. *)
fails(h, f) == IF h.fault = "none" THEN [h EXCEPT !.fault = f] ELSE h
allocates(h, o) == [h EXCEPT !.live = @ \cup {o}]
uses(h, o) == IF o \in h.freed THEN fails(h, "use_after_free") ELSE h

(* librdkafka allocates the envelope and the payload in it.                *)
Foreign(o) == o.is = "envelope" \/ (o.is = "payload" /\ setup.transactional)

frees(h, o) ==
  IF o = NULL THEN h
  ELSE IF o \in h.freed THEN fails(h, "double_free")
  ELSE IF Foreign(o) THEN fails(h, "foreign_free")
  ELSE [h EXCEPT !.live = @ \ {o}, !.freed = @ \cup {o}]

metadata_find(h, md) == IF md = NULL THEN h ELSE uses(h, md)

(* A table is made if there is none; the pointer to it is in the result.   *)
metadata_insert(h, msg) ==
  IF msg.metadata = NULL
  THEN [h |-> allocates(h, table(msg.of)), msg |-> [msg EXCEPT !.metadata = table(msg.of)]]
  ELSE [h |-> uses(h, msg.metadata), msg |-> msg]

(* mdatum_free frees the value of every datum; for rk_message that is the  *)
(* envelope, unless the callback took it out.  The caller's pointer stays. *)
metadata_free(h, md) ==
  IF md = NULL THEN h
  ELSE IF md \in h.freed THEN fails(h, "use_after_free")
  ELSE frees(IF md \in h.envelopes THEN frees(h, envelope(md.of)) ELSE h, md)

(* A new rk_message takes the place of one that is still there, whose      *)
(* value mdatum_free frees.                                                *)
insert_rk_message(h, msg) ==
  LET md == msg.metadata
      r == metadata_insert(IF md \in h.envelopes THEN frees(h, envelope(md.of)) ELSE h, msg)
  IN [r EXCEPT !.h.envelopes = @ \cup {r.msg.metadata}]
-----------------------------------------------------------------------------
(***************************************************************************)
(* The hooks.  s: the heap, the message and whether it is accepted; chance *)
(* is what depends on the data: the xmark that it hashes to, and whether   *)
(* jsonexport finds what it needs in it and stores metadata.               *)
(***************************************************************************)
Chances == [xmark : Xmarks, json : {"refused", "exported", "exported_meta"}]

(* Without a field, the xmark of the configuration.                        *)
h_xmark(s, field, chance) ==
  [s EXCEPT !.h = IF field THEN metadata_find(@, s.msg.metadata) ELSE @,
            !.msg.xmark = chance.xmark]

(* A hash that is not known is a NULL pointer, and called when the table    *)
(* holds the field, which is the one that jsonexport writes.                *)
h_xmark_unknown(s, chance) ==
  LET found == s.msg.metadata # NULL /\ s.msg.metadata \notin s.h.envelopes
      xmarked == h_xmark(s, TRUE, chance)
  IN IF found THEN [xmarked EXCEPT !.h = fails(@, "no_function")] ELSE xmarked

h_jsonexport_keeps(s, chance) ==
  IF chance.json = "refused" \/ s.msg.data.is = "row"
  THEN [s EXCEPT !.h = uses(@, s.msg.data), !.ok = FALSE]
  ELSE [s EXCEPT !.h = allocates(uses(@, s.msg.data), exported(s.msg.of)),
                 !.msg.data = exported(s.msg.of)]

(* An exported row begins with a NUL: it is no JSON.                       *)
h_jsonexport(s, chance) ==
  LET read == uses(s.h, s.msg.data)
      built == allocates(read, exported(s.msg.of))
      meta == IF chance.json = "exported_meta" THEN metadata_insert(built, s.msg)
              ELSE [h |-> built, msg |-> s.msg]
  IN IF chance.json = "refused" \/ s.msg.data.is = "row"
     THEN [s EXCEPT !.h = read, !.ok = FALSE]
     ELSE [s EXCEPT !.h = frees(meta.h, s.msg.data),
                    !.msg = [meta.msg EXCEPT !.data = exported(s.msg.of)]]

hook(name, s, chance) ==
  CASE name \in {"xmark", "xmark_of_field"} -> h_xmark(s, name = "xmark_of_field", chance)
    [] name = "xmark_unknown" -> h_xmark_unknown(s, chance)
    [] name = "jsonexport" -> h_jsonexport(s, chance)
    [] name = "dummy" -> s

(* After a refusal the message has no data; its metadata is freed, but the *)
(* pointer to it is left.                                                  *)
hooklist_run(hooks, h, msg, chance) ==
  LET after[i \in 0 .. Len(hooks)] ==
        IF i = 0 THEN [h |-> h, msg |-> msg, ok |-> TRUE]
        ELSE LET s == after[i - 1] IN IF s.ok THEN hook(hooks[i], s, chance) ELSE s
      s == after[Len(hooks)]
  IN IF s.ok THEN s
     ELSE [s EXCEPT !.h = metadata_free(frees(@, s.msg.data), s.msg.metadata),
                    !.msg.data = NULL]

(* queue_init puts the hooks of both places into q->postadd.               *)
postadd == setup.postadd \o setup.preget
preget == <<>>
-----------------------------------------------------------------------------
Runs == heap.fault = "none"

(***************************************************************************)
(* The consumer thread.  consume() gives the next message, in the order of *)
(* the input; with one of librdkafka's comes a table with the callback and *)
(* the envelope.  Then the hooks run, and after a refusal the loop just    *)
(* continues.  A message of librdkafka's may have no data (a tombstone):   *)
(* the loop continues without the hooks, and table and envelope stay in    *)
(* the struct.  Nothing is said of what follows a fault.                   *)
(***************************************************************************)
received(m, tombstone) ==
  LET read == IF tombstone THEN heap ELSE allocates(heap, payload(m))
      msg == [cmsg EXCEPT !.of = m, !.data = IF tombstone THEN NULL ELSE payload(m)]
  IN IF setup.transactional THEN insert_rk_message(allocates(read, envelope(m)), msg)
     ELSE [h |-> read, msg |-> msg]

consume(m, tombstone, chance) ==
  /\ Runs /\ cat = "consume" /\ consume_state
  /\ m \in input /\ \A o \in input : m <= o
  /\ tombstone => setup.transactional
  /\ LET got == received(m, tombstone)
         s == hooklist_run(setup.preadd, got.h, got.msg, chance)
     IN IF tombstone \/ got.h.fault # "none"
        THEN heap' = got.h /\ cmsg' = got.msg /\ UNCHANGED cat
        ELSE heap' = s.h /\ cmsg' = s.msg /\ cat' = IF s.ok THEN "add" ELSE "consume"
  /\ input' = input \ {m}
  /\ skipped' = IF tombstone THEN skipped \cup {m} ELSE skipped
  /\ UNCHANGED <<setup, newmsg, queue, pmsg, pat, consume_state, ret, handle, stored, nomem>>

(* The thread ends when told to, or when its source has ended.  Closing    *)
(* librdkafka's handle does not wait for messages that are under way.      *)
consumer_free ==
  /\ Runs /\ cat = "consume"
  /\ ~consume_state \/ ~setup.transactional
  /\ cat' = "done"
  /\ handle' = "closed"
  /\ UNCHANGED <<setup, heap, input, cmsg, newmsg, queue, pmsg, pat, consume_state, ret,
                 stored, skipped, nomem>>

(* Whatever queue_add returned, the consumer gives up data and metadata.   *)
given_up == [cmsg EXCEPT !.data = NULL, !.metadata = NULL]

(* No cell: the data is freed, and what metadata there is is forgotten.    *)
queue_add_nomem ==
  /\ Runs /\ cat = "add"
  /\ heap' = frees(heap, cmsg.data)
  /\ nomem' = TRUE
  /\ cmsg' = given_up /\ cat' = "consume"
  /\ UNCHANGED <<setup, input, newmsg, queue, pmsg, pat, consume_state, ret, handle, stored, skipped>>

(* The cell has a copy of the pointers; hooks work on that copy.  After a  *)
(* refusal the caller's metadata is freed as well.                         *)
queue_add(chance) ==
  /\ Runs /\ cat = "add"
  /\ LET s == hooklist_run(postadd, heap, cmsg, chance) IN
     IF s.ok
     THEN /\ heap' = s.h /\ newmsg' = s.msg
          /\ cat' = "link" /\ UNCHANGED cmsg
     ELSE /\ heap' = metadata_free(s.h, cmsg.metadata)
          /\ cmsg' = given_up /\ cat' = "consume" /\ UNCHANGED newmsg
  /\ UNCHANGED <<setup, input, queue, pmsg, pat, consume_state, ret, handle, stored, skipped, nomem>>

(* No lane for the xmark: data and metadata as the caller gave them go.    *)
queue_add_no_xmark ==
  /\ Runs /\ cat = "link"
  /\ heap' = metadata_free(frees(heap, cmsg.data), cmsg.metadata)
  /\ nomem' = TRUE
  /\ newmsg' = Empty
  /\ cmsg' = given_up /\ cat' = "consume"
  /\ UNCHANGED <<setup, input, queue, pmsg, pat, consume_state, ret, handle, stored, skipped>>

(* Waiting for room only delays this step: see Queue.tla.                  *)
queue_add_link ==
  /\ Runs /\ cat = "link"
  /\ queue' = Append(queue, newmsg)
  /\ newmsg' = Empty
  /\ cmsg' = given_up /\ cat' = "consume"
  /\ UNCHANGED <<setup, heap, input, pmsg, pat, consume_state, ret, handle, stored, skipped, nomem>>
-----------------------------------------------------------------------------
(***************************************************************************)
(* The producer thread; it takes from the lane of its own xmark.           *)
(***************************************************************************)
Mine == {i \in DOMAIN queue : queue[i].xmark = pmsg.xmark}
first_newest == CHOOSE i \in Mine : \A j \in Mine : j <= i
first == CHOOSE i \in Mine : \A j \in Mine : i <= j

queue_get(chance) ==
  /\ Runs /\ pat = "get"
  /\ Mine # {}
  /\ LET cell == queue[first]
         s == hooklist_run(preget, heap, [cell EXCEPT !.xmark = pmsg.xmark], chance)
     IN /\ heap' = s.h
        /\ pmsg' = s.msg
        /\ pat' = IF s.ok THEN "produce" ELSE "get"
        /\ ret' = IF s.ok THEN "0" ELSE "EBADMSG"
  /\ queue' = SubSeq(queue, 1, first - 1) \o SubSeq(queue, first + 1, Len(queue))
  /\ UNCHANGED <<setup, input, cmsg, newmsg, cat, consume_state, handle, stored, skipped, nomem>>

queue_get_timedout ==
  /\ Runs /\ pat = "get"
  /\ Mine = {}
  /\ ret' = "ETIMEDOUT"
  /\ UNCHANGED <<setup, heap, input, cmsg, newmsg, queue, pmsg, cat, pat, consume_state, handle,
                 stored, skipped, nomem>>

(* The loop checks both before it gets the next message.                   *)
producer_free ==
  /\ Runs /\ pat = "get"
  /\ ~consume_state /\ ret = "ETIMEDOUT"
  /\ pat' = "done"
  /\ UNCHANGED <<setup, heap, input, cmsg, newmsg, queue, pmsg, cat, consume_state, ret, handle,
                 stored, skipped, nomem>>

(* consumer_commit_offset: the offset is stored, the envelope and the      *)
(* payload in it go back to librdkafka, and the message has no data.       *)
has_callback(h, msg) == msg.metadata \in h.envelopes

callback(h, msg) ==
  IF handle = "closed" THEN fails(h, "closed_handle")
  ELSE [h EXCEPT !.live = @ \ {envelope(msg.of), payload(msg.of)},
                 !.freed = @ \cup {envelope(msg.of), payload(msg.of)},
                 !.envelopes = @ \ {msg.metadata}]

handled_twice(h, msg) ==
  frees(IF has_callback(h, msg) THEN callback(h, msg) ELSE h, msg.data)

(* metadata_callback_run, and the free() of the data that is left.         *)
handled(h, msg) == IF has_callback(h, msg) THEN callback(h, msg) ELSE frees(h, msg.data)

(* Whether the output keeps the message or drops it is not looked at: the  *)
(* callback runs.                                                          *)
produce(chance) ==
  /\ Runs /\ pat = "produce"
  /\ LET s == hooklist_run(setup.postget, heap, pmsg, chance)
         put == uses(s.h, s.msg.data)
         done == handled(put, s.msg)
     IN IF ~s.ok
        THEN heap' = s.h /\ pmsg' = s.msg /\ UNCHANGED stored
        ELSE /\ heap' = metadata_free(done, s.msg.metadata)
             /\ pmsg' = [s.msg EXCEPT !.data = NULL]
             /\ stored' = IF has_callback(put, s.msg) /\ handle = "open"
                          THEN stored \cup {s.msg.of} ELSE stored
  /\ pat' = "get"
  /\ UNCHANGED <<setup, input, cmsg, newmsg, queue, cat, consume_state, ret, handle, skipped, nomem>>
-----------------------------------------------------------------------------
(* The signal handler; and main(), once the consumer thread has ended.     *)
stop ==
  /\ Runs /\ consume_state
  /\ consume_state' = FALSE
  /\ UNCHANGED <<setup, heap, input, cmsg, newmsg, queue, pmsg, cat, pat, ret, handle,
                 stored, skipped, nomem>>

Ended == cat = "done" /\ pat = "done"

Halted == ~Runs \/ Ended

FlowNext ==
  \/ \E m \in Messages, tombstone \in BOOLEAN, chance \in Chances : consume(m, tombstone, chance)
  \/ consumer_free
  \/ queue_add_nomem
  \/ \E chance \in Chances : queue_add(chance)
  \/ queue_add_no_xmark
  \/ queue_add_link
  \/ \E chance \in Chances : queue_get(chance) \/ produce(chance)
  \/ queue_get_timedout
  \/ producer_free
  \/ stop
-----------------------------------------------------------------------------
Exports(hooks) == "jsonexport" \in Range(hooks)
ExportsTwice(hooks) ==
  \E i, j \in DOMAIN hooks : i < j /\ hooks[i] = "jsonexport" /\ hooks[j] = "jsonexport"

(***************************************************************************)
(* Which memory faults there are.  frees() and uses() never go wrong, but: *)
(*  - librdkafka's payload is freed by every hook that exports or refuses  *)
(*    it, and by queue_add when it runs out of memory; its envelope when   *)
(*    a message without data was skipped and the next one's rk_message     *)
(*    takes the place in the table that was left;                          *)
(*  - a message that has metadata before queue_add and is refused in it    *)
(*    loses its table twice; and so does the next message that comes with  *)
(*    the table of one that the consumer's hooks refused;                  *)
(*  - a message exported in queue_add loses its old data twice when there  *)
(*    is no memory for its lane;                                           *)
(*  - an offset is stored through a handle that is closed, when the        *)
(*    transactional consumer ends before its messages are through;         *)
(*  - an xmark with an unknown hash meets metadata from a jsonexport.      *)
(***************************************************************************)
FaultsKnown ==
  /\ heap.fault = "foreign_free" =>
       /\ setup.transactional
       /\ nomem \/ skipped # {} \/ Exports(setup.preadd) \/ Exports(postadd) \/ Exports(setup.postget)
  /\ heap.fault = "use_after_free" =>
       ExportsTwice(setup.preadd) \/ (Exports(setup.preadd) /\ Exports(postadd))
  /\ heap.fault = "double_free" =>
       nomem /\ Exports(postadd)
  /\ heap.fault = "closed_handle" =>
       setup.transactional /\ cat = "done"
  /\ heap.fault = "no_function" =>
       /\ ~setup.transactional
       /\ \E hooks \in {setup.preadd, postadd, setup.postget} : "xmark_unknown" \in Range(hooks)
       /\ Exports(setup.preadd) \/ Exports(postadd) \/ Exports(setup.postget)

(***************************************************************************)
(* Whatever is allocated has one owner: the message that the consumer has  *)
(* read, then its cell, then the producer's message.  Owners never share,  *)
(* all they refer to is allocated, and as long as queue_add got its memory *)
(* everything allocated has one: at the end, a message left in the queue,  *)
(* of which queue_free() frees the cell only.  The consumer's struct keeps *)
(* table and envelope of a message without data; they are lost when the    *)
(* thread ends, as message_free() frees the struct only.                   *)
(***************************************************************************)
holds(msg) ==
  ({msg.data, msg.metadata} \ {NULL})
    \cup (IF msg.metadata \in heap.envelopes THEN {envelope(msg.of)} ELSE {})

Owners ==
  Range(queue) \cup (IF cat = "add" \/ (cat = "consume" /\ skipped # {}) THEN {cmsg} ELSE {})
               \cup (IF cat = "link" THEN {newmsg} ELSE {})
               \cup (IF pat = "produce" THEN {pmsg} ELSE {})

OwnedOnce ==
  Runs =>
    /\ \A msg \in Owners : /\ msg.data # NULL \/ msg.of \in skipped
                           /\ holds(msg) # {} /\ holds(msg) \subseteq heap.live
    /\ \A x, y \in Owners : x # y => holds(x) \cap holds(y) = {}
    /\ ~nomem /\ (cat = "done" => skipped = {}) =>
         heap.live = UNION {holds(msg) : msg \in Owners}

(***************************************************************************)
(* To store an offset is to give up every message before it.  The callback *)
(* (main.c, consumer_commit_offset) stores them in the order of the input, *)
(* but for the messages that wait in a lane that the producer does not     *)
(* serve; they alone are overtaken.  A hook that gives the producer's      *)
(* message an xmark moves the producer to another lane, and voids this.    *)
(***************************************************************************)
Marks(hooks) == Range(hooks) \cap {"xmark", "xmark_of_field", "xmark_unknown"} # {}

OffsetsInOrder ==
  Runs /\ ~Marks(setup.postget) =>
    \A m \in stored : \A o \in Messages :
      o < m => \/ o \in stored
               \/ \E i \in DOMAIN queue : queue[i].of = o /\ queue[i].xmark # pmsg.xmark
=============================================================================
