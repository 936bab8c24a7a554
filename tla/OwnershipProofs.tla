-------------------------- MODULE OwnershipProofs --------------------------
(***************************************************************************)
(* Who owns what, from consume() to the callback: for any lists of hooks,  *)
(* any messages and any order of the two threads' steps.                   *)
(***************************************************************************)
EXTENDS HookProofs

(* Any lists of hooks that are known by name, as hooks_validate leaves     *)
(* them, with any kind of consumer.                                        *)
Setups == [preadd : Seq(HookNames), postadd : Seq(HookNames), preget : Seq(HookNames),
           postget : Seq(HookNames), transactional : BOOLEAN]

(* The flow of messages on its own, in any setup.                          *)
FlowSpec ==
  /\ setup \in Setups /\ input = Messages
  /\ FlowInit
  /\ [][FlowNext]_<<setup, flow>>
-----------------------------------------------------------------------------
(* A message on its way: read, sound, and whatever is odd about it has its *)
(* reason in the setup s.                                                  *)
OwnedIn(s, h, unread, msg) ==
  /\ SoundIn(s.transactional, h, msg)
  /\ msg.of \notin unread
  /\ ~s.transactional /\ msg.metadata # NULL =>
       Exports(s.preadd) \/ Exports(s.postadd \o s.preget)
Owned(msg) == OwnedIn(setup, heap, input, msg)

(* What the consumer gave to queue_add, and what became of it there.       *)
Linked ==
  /\ Owned(newmsg)
  /\ newmsg.of = cmsg.of
  /\ \/ cmsg.data = newmsg.data /\ cmsg.metadata = newmsg.metadata
     \/ /\ Exports(postadd) /\ ~setup.transactional
        /\ cmsg.data = payload(cmsg.of) /\ newmsg.data = exported(cmsg.of)

(* No two places hold the same message.                                    *)
Apart ==
  /\ \A i, j \in DOMAIN queue : i # j => queue[i].of # queue[j].of
  /\ cat \in {"add", "link"} => \A i \in DOMAIN queue : queue[i].of # cmsg.of
  /\ pat = "produce" => \A i \in DOMAIN queue : queue[i].of # pmsg.of
  /\ cat \in {"add", "link"} /\ pat = "produce" => cmsg.of # pmsg.of

(* Somebody holds m.                                                       *)
UnderWay(m) ==
  \/ \E i \in DOMAIN queue : queue[i].of = m
  \/ cat \in {"add", "link"} /\ cmsg.of = m
  \/ pat = "produce" /\ pmsg.of = m
  \/ m \in skipped

(* The consumer's struct still points to a table that went with a message  *)
(* that was refused.                                                       *)
Stale ==
  /\ ~setup.transactional /\ ExportsTwice(setup.preadd) /\ cmsg.metadata \in heap.freed
  /\ \E m \in Messages : cmsg.metadata = table(m)

(* What heap h has of a message without data.                              *)
TombstoneIn(h, msg) ==
  LET m == msg.of IN
  /\ msg.data = NULL /\ msg.metadata = table(m)
  /\ {table(m), envelope(m)} \subseteq h.live /\ table(m) \in h.envelopes
  /\ payload(m) \notin h.live /\ exported(m) \notin h.live
  /\ h.freed \cap Objects(m) = {}

(* The consumer's struct still has the table and the envelope of the one   *)
(* message without data: the next one to be read ends in a fault.          *)
Left ==
  /\ cat \in {"consume", "done"} /\ setup.transactional
  /\ skipped = {cmsg.of} /\ cmsg.of \in Messages \ input /\ TombstoneIn(heap, cmsg)
  /\ \A i \in DOMAIN queue : queue[i].of # cmsg.of
  /\ pat = "produce" => pmsg.of # cmsg.of

FlowType ==
  /\ setup \in Setups
  /\ heap \in Heap /\ input \subseteq Messages
  /\ cmsg \in Struct /\ newmsg \in Struct /\ pmsg \in Struct /\ queue \in Seq(Struct)
  /\ cat \in {"consume", "add", "link", "done"} /\ pat \in {"get", "produce", "done"}
  /\ handle = IF cat = "done" THEN "closed" ELSE "open"
  /\ nomem \in BOOLEAN /\ skipped \subseteq Messages

(* No message of librdkafka's gets lost: the offset of each one that was   *)
(* read is stored, or somebody holds it.                                   *)
Accounted ==
  /\ ~setup.transactional => stored = {}
  /\ setup.transactional => /\ ~nomem /\ stored \subseteq Messages \ input
                            /\ \A m \in Messages \ input : m \in stored \/ UnderWay(m)

(* As long as there is no fault: what is owned is sound and owned once,    *)
(* and what nobody owns is gone.                                           *)
FlowSafe ==
  /\ \A m \in input : Unread(heap, m)
  /\ \A i \in DOMAIN queue : Owned(queue[i])
  /\ cat = "add" => /\ Owned(cmsg)
                    /\ ~setup.transactional /\ cmsg.metadata # NULL => Exports(setup.preadd)
  /\ cat = "link" => Linked
  /\ pat = "produce" => Owned(pmsg)
  /\ Apart
  /\ skipped # {} => Left
  /\ cat = "consume" /\ skipped = {} => cmsg.metadata = NULL \/ Stale
  /\ ~nomem => \A m \in Messages : UnderWay(m) \/ Gone(heap, m)
  /\ Accounted

(* The inductive invariant.                                                *)
OInv == FlowType /\ (Runs => FlowSafe) /\ FaultsKnown
-----------------------------------------------------------------------------
(* A message stays sound through what happens to another.                  *)
LEMMA OthersSound ==
  ASSUME NEW tr, NEW h, NEW h1, NEW m \in Messages, NEW msg, SoundIn(tr, h, msg), msg.of # m,
         Same(h, h1, m)
  PROVE  SoundIn(tr, h1, msg)
  <1> DEFINE n == msg.of
  <1>1. n \in Messages
    BY DEF SoundIn
  <1>2. Objects(n) \subseteq Memory \ Objects(m)
    BY <1>1, MemoryFacts, ObjectsApart
  <1>3. /\ payload(n) \in Memory \ Objects(m) /\ exported(n) \in Memory \ Objects(m)
        /\ table(n) \in Memory \ Objects(m) /\ envelope(n) \in Memory \ Objects(m)
    BY <1>2 DEF Objects
  <1>. QED BY <1>3 DEF SoundIn, Same

(* It stays owned through what happens to another.                         *)
LEMMA OthersOwned ==
  ASSUME NEW s, NEW h, NEW h1, NEW m \in Messages, NEW msg, NEW in, NEW in1,
         OwnedIn(s, h, in, msg), msg.of # m, Same(h, h1, m), in1 \subseteq in
  PROVE  OwnedIn(s, h1, in1, msg)
  BY OthersSound DEF OwnedIn

(* A message that is not read yet has nothing, whatever happens to         *)
(* another.                                                                *)
LEMMA OthersUnread ==
  ASSUME NEW h \in Heap, NEW h1 \in Heap, NEW m \in Messages, NEW n \in Messages, n # m,
         Same(h, h1, m)
  PROVE  /\ Unread(h, n) => Unread(h1, n)
         /\ Gone(h, n) => Gone(h1, n)
  <1>1. Objects(n) \subseteq Memory \ Objects(m)
    BY MemoryFacts, ObjectsApart, Zenon
  <1>. QED BY <1>1 DEF Unread, Gone, Same

(* The envelope goes into a new table, or takes the place of another.      *)
LEMMA RkMessageFacts ==
  ASSUME NEW h \in Heap, NEW msg \in Struct, msg.of \in Messages, h.fault = "none"
  PROVE  LET r == insert_rk_message(h, msg) IN
         /\ msg.metadata = NULL =>
              /\ r.h \in Heap /\ r.msg \in Struct /\ r.h.fault = "none"
              /\ r.h.live = h.live \cup {table(msg.of)} /\ r.h.freed = h.freed
              /\ r.h.envelopes = h.envelopes \cup {table(msg.of)}
              /\ r.msg.of = msg.of /\ r.msg.data = msg.data /\ r.msg.metadata = table(msg.of)
         /\ msg.metadata \in h.envelopes /\ envelope(msg.metadata.of) \notin h.freed =>
              r.h \in Heap /\ r.msg = msg /\ r.h.fault = "foreign_free"
  <1> DEFINE md == msg.metadata
             g == IF md \in h.envelopes THEN frees(h, envelope(md.of)) ELSE h
             q == metadata_insert(g, msg)
             r == insert_rk_message(h, msg)
  <1>1. r = [q EXCEPT !.h.envelopes = @ \cup {q.msg.metadata}]
    BY DEF insert_rk_message
  <1>2. NULL \notin h.envelopes /\ h.envelopes \subseteq Memory
    BY HeapFacts, MemoryFacts, Zenon
  <1>3. table(msg.of) \in Memory
    BY ObjectFacts, Zenon
  <1>4. ASSUME q.h \in Heap, q = [h |-> q.h, msg |-> q.msg], q.msg.metadata \in Memory
        PROVE  /\ r.msg = q.msg /\ r.h \in Heap /\ r.h.live = q.h.live /\ r.h.freed = q.h.freed
               /\ r.h.envelopes = q.h.envelopes \cup {q.msg.metadata} /\ r.h.fault = q.h.fault
    <2> HIDE DEF q, r
    <2>1. r.msg = q.msg /\ r.h = [q.h EXCEPT !.envelopes = @ \cup {q.msg.metadata}]
      BY <1>1, <1>4
    <2>2. [q.h EXCEPT !.envelopes = @ \cup {q.msg.metadata}] \in Heap
      BY <1>4 DEF Heap
    <2>. QED BY <1>4, <2>1, <2>2 DEF Heap
  <1>5. ASSUME md = NULL
        PROVE  /\ r.h \in Heap /\ r.msg \in Struct /\ r.h.fault = "none"
               /\ r.h.live = h.live \cup {table(msg.of)} /\ r.h.freed = h.freed
               /\ r.h.envelopes = h.envelopes \cup {table(msg.of)}
               /\ r.msg.of = msg.of /\ r.msg.data = msg.data /\ r.msg.metadata = table(msg.of)
    <2>1. g = h
      BY <1>2, <1>5, Zenon
    <2>2. /\ q.h = allocates(h, table(msg.of)) /\ q.msg.metadata = table(msg.of)
          /\ q.msg \in Struct /\ q.msg.of = msg.of /\ q.msg.data = msg.data
          /\ q = [h |-> q.h, msg |-> q.msg]
      BY <1>5, <2>1, InsertFacts
    <2>3. /\ allocates(h, table(msg.of)) \in Heap
          /\ allocates(h, table(msg.of)).live = h.live \cup {table(msg.of)}
          /\ allocates(h, table(msg.of)).freed = h.freed
          /\ allocates(h, table(msg.of)).envelopes = h.envelopes
          /\ allocates(h, table(msg.of)).fault = "none"
      BY <1>3, AllocatesFacts, Zenon
    <2> HIDE DEF q, r
    <2>. QED BY <1>3, <1>4, <2>2, <2>3, ZenonT(30)
  <1>6. ASSUME md \in h.envelopes, envelope(md.of) \notin h.freed
        PROVE  r.h \in Heap /\ r.msg = msg /\ r.h.fault = "foreign_free"
    <2>1. md \in Memory /\ md # NULL /\ md \in Pointers
      BY <1>2, <1>6, Zenon DEF Pointers
    <2>2. PICK m \in Messages : md \in Objects(m)
      BY <2>1, Zenon DEF Memory
    <2>3. md.of = m
      BY <2>2 DEF Objects, payload, exported, table, envelope
    <2>4. /\ envelope(md.of) \in Pointers /\ envelope(md.of) # NULL /\ Foreign(envelope(md.of))
      BY <2>3, ObjectFacts, ForeignFacts, Zenon DEF Pointers
    <2>5. g = fails(h, "foreign_free")
      BY <1>6, <2>4, FreesFacts, Zenon
    <2>6. g \in Heap /\ g.fault = "foreign_free"
      <3>1. fails(h, "foreign_free") \in Heap /\ fails(h, "foreign_free").fault = "foreign_free"
        BY FaultNames, FailsFacts, ZenonT(30)
      <3>. QED BY ONLY <2>5, <3>1, Zenon
    <2> HIDE DEF g
    <2>7. /\ q.h \in Heap /\ q.h.fault = "foreign_free" /\ q.msg = msg
          /\ q = [h |-> q.h, msg |-> q.msg]
      BY <2>1, <2>6, InsertFacts, Zenon
    <2> HIDE DEF q, r
    <2>. QED BY <1>4, <2>1, <2>7, Zenon
  <1>. QED BY <1>5, <1>6, Zenon

(* consume() and the kafka callback: a new message, and nothing else.      *)
LEMMA ReceivedFacts ==
  ASSUME FlowType, Runs, NEW m \in Messages, Unread(heap, m)
  PROVE  LET got == received(m, FALSE) IN
         /\ cmsg.metadata = NULL =>
              /\ got.h \in Heap /\ got.msg \in Struct /\ got.h.fault = "none"
              /\ got.msg.of = m
              /\ Sound(got.h, got.msg) /\ Same(heap, got.h, m)
              /\ ~setup.transactional => got.msg.metadata = NULL
         /\ cmsg.metadata # NULL /\ ~setup.transactional =>
              /\ got.h \in Heap /\ got.msg \in Struct /\ got.h.fault = "none"
              /\ got.msg.of = m /\ got.msg.data = payload(m) /\ got.msg.metadata = cmsg.metadata
              /\ got.h.freed = heap.freed
  <1> DEFINE h1 == allocates(heap, payload(m))
             msg1 == [cmsg EXCEPT !.of = m, !.data = payload(m)]
             h2 == allocates(h1, envelope(m))
             got == received(m, FALSE)
  <1>1. heap \in Heap /\ cmsg \in Struct /\ setup \in Setups /\ heap.fault = "none"
    BY DEF FlowType, Runs
  <1>2. /\ payload(m) \in Memory /\ envelope(m) \in Memory /\ table(m) \in Memory
        /\ exported(m) \in Memory /\ payload(m) \in Pointers
    BY ObjectFacts DEF Pointers
  <1>3. /\ h1 \in Heap /\ h1.live = heap.live \cup {payload(m)} /\ h1.freed = heap.freed
        /\ h1.envelopes = heap.envelopes /\ h1.fault = "none"
    BY <1>1, <1>2, AllocatesFacts, Zenon
  <1>4. /\ msg1 \in Struct /\ msg1.of = m /\ msg1.data = payload(m)
        /\ msg1.metadata = cmsg.metadata
    BY <1>1, <1>2, Zenon DEF Struct
  <1>5. got = IF setup.transactional THEN insert_rk_message(h2, msg1) ELSE [h |-> h1, msg |-> msg1]
    BY DEF received
  <1> HIDE DEF h1, msg1, got
  <1>6. CASE ~setup.transactional
    <2>1. got.h = h1 /\ got.msg = msg1
      BY <1>5, <1>6
    <2>2. ASSUME cmsg.metadata = NULL
          PROVE  Sound(h1, msg1) /\ Same(heap, h1, m)
      <3>1. SoundIn(setup.transactional, h1, msg1)
        BY <1>3, <1>4, <1>6, <2>2, ObjectFacts DEF SoundIn, Unread, Objects
      <3>. QED BY <1>3, <3>1, Zenon DEF Sound, Same, Objects
    <2>. QED BY <1>3, <1>4, <1>6, <2>1, <2>2, Zenon DEF got
  <1>7. CASE setup.transactional /\ cmsg.metadata = NULL
    <2>1. /\ h2 \in Heap /\ h2.live = heap.live \cup {payload(m), envelope(m)}
          /\ h2.freed = heap.freed /\ h2.envelopes = heap.envelopes /\ h2.fault = "none"
      <3>1. /\ h2 \in Heap /\ h2.live = h1.live \cup {envelope(m)} /\ h2.freed = h1.freed
            /\ h2.envelopes = h1.envelopes /\ h2.fault = h1.fault
        BY <1>2, <1>3, AllocatesFacts, Zenon
      <3>. QED BY <1>3, <3>1
    <2> HIDE DEF h2
    <2>2. got = insert_rk_message(h2, msg1)
      BY <1>5, <1>7, Zenon
    <2>3. /\ got.h \in Heap /\ got.msg \in Struct /\ got.h.fault = "none"
          /\ got.h.live = h2.live \cup {table(m)} /\ got.h.freed = h2.freed
          /\ got.h.envelopes = h2.envelopes \cup {table(m)}
          /\ got.msg.of = m /\ got.msg.data = payload(m) /\ got.msg.metadata = table(m)
      BY <1>4, <1>7, <2>1, <2>2, RkMessageFacts, ZenonT(30)
    <2>4. /\ got.h.live = heap.live \cup {payload(m), envelope(m), table(m)}
          /\ got.h.freed = heap.freed /\ got.h.envelopes = heap.envelopes \cup {table(m)}
      BY <2>1, <2>3
    <2>5. SoundIn(setup.transactional, got.h, got.msg)
      BY <1>7, <2>3, <2>4, ObjectFacts DEF SoundIn, Unread, Objects
    <2>6. Same(heap, got.h, m)
      BY <2>4 DEF Same, Objects
    <2>. QED BY <1>7, <2>3, <2>5, <2>6, Zenon DEF Sound, got
  <1>. QED BY <1>1, <1>6, <1>7

(* A message without data: table and envelope, in a struct that had none.  *)
LEMMA TombstoneFacts ==
  ASSUME FlowType, Runs, NEW m \in Messages, Unread(heap, m), setup.transactional,
         cmsg.metadata = NULL
  PROVE  LET got == received(m, TRUE) IN
         /\ got.h \in Heap /\ got.msg \in Struct /\ got.h.fault = "none"
         /\ got.msg.of = m /\ TombstoneIn(got.h, got.msg) /\ Same(heap, got.h, m)
  <1> DEFINE msg1 == [cmsg EXCEPT !.of = m, !.data = NULL]
             h2 == allocates(heap, envelope(m))
             got == received(m, TRUE)
  <1>1. heap \in Heap /\ cmsg \in Struct /\ heap.fault = "none"
    BY DEF FlowType, Runs
  <1>2. envelope(m) \in Memory /\ NULL \in Pointers
    BY ObjectFacts DEF Pointers
  <1>3. /\ h2 \in Heap /\ h2.live = heap.live \cup {envelope(m)} /\ h2.freed = heap.freed
        /\ h2.envelopes = heap.envelopes /\ h2.fault = "none"
    BY <1>1, <1>2, AllocatesFacts, Zenon
  <1>4. msg1 \in Struct /\ msg1.of = m /\ msg1.data = NULL /\ msg1.metadata = NULL
    BY <1>1, <1>2, Zenon DEF Struct
  <1>5. got = insert_rk_message(h2, msg1)
    BY DEF received
  <1> HIDE DEF h2, msg1, got
  <1>6. /\ got.h \in Heap /\ got.msg \in Struct /\ got.h.fault = "none"
        /\ got.h.live = h2.live \cup {table(m)} /\ got.h.freed = h2.freed
        /\ got.h.envelopes = h2.envelopes \cup {table(m)}
        /\ got.msg.of = m /\ got.msg.data = NULL /\ got.msg.metadata = table(m)
    BY <1>3, <1>4, <1>5, RkMessageFacts, ZenonT(30)
  <1>7. /\ got.h.live = heap.live \cup {envelope(m), table(m)}
        /\ got.h.freed = heap.freed /\ got.h.envelopes = heap.envelopes \cup {table(m)}
    BY <1>3, <1>6
  <1>8. TombstoneIn(got.h, got.msg)
    BY <1>6, <1>7, ObjectFacts DEF TombstoneIn, Unread, Objects
  <1>9. Same(heap, got.h, m)
    BY <1>7 DEF Same, Objects
  <1>. QED BY <1>6, <1>8, <1>9, Zenon DEF got

(* The message after one without data: its rk_message frees librdkafka's.  *)
LEMMA ReplacedFacts ==
  ASSUME FlowType, Runs, NEW m \in Messages, NEW tombstone \in BOOLEAN, Left
  PROVE  LET got == received(m, tombstone) IN
         got.h \in Heap /\ got.msg \in Struct /\ got.h.fault = "foreign_free"
  <1> DEFINE h1 == IF tombstone THEN heap ELSE allocates(heap, payload(m))
             data == IF tombstone THEN NULL ELSE payload(m)
             msg1 == [cmsg EXCEPT !.of = m, !.data = data]
             h2 == allocates(h1, envelope(m))
             got == received(m, tombstone)
             x == cmsg.of
  <1>1. heap \in Heap /\ cmsg \in Struct /\ heap.fault = "none"
    BY DEF FlowType, Runs
  <1>2. envelope(m) \in Memory /\ payload(m) \in Memory /\ data \in Pointers
    BY ObjectFacts DEF Pointers
  <1>3. h1 \in Heap /\ h1.freed = heap.freed /\ h1.envelopes = heap.envelopes /\ h1.fault = "none"
    BY <1>1, <1>2, AllocatesFacts
  <1>4. msg1 \in Struct /\ msg1.of = m /\ msg1.metadata = cmsg.metadata
    BY <1>1, <1>2, Zenon DEF Struct
  <1>5. got = insert_rk_message(h2, msg1)
    BY DEF received, Left
  <1> HIDE DEF h1, msg1, got
  <1>6. h2 \in Heap /\ h2.freed = heap.freed /\ h2.envelopes = heap.envelopes /\ h2.fault = "none"
    <2>1. h2 \in Heap /\ h2.freed = h1.freed /\ h2.envelopes = h1.envelopes /\ h2.fault = h1.fault
      BY <1>2, <1>3, AllocatesFacts, Zenon
    <2>. QED BY <1>3, <2>1, Zenon
  <1> HIDE DEF h2
  <1>7. /\ cmsg.metadata = table(x) /\ table(x) \in heap.envelopes /\ x \in Messages
        /\ envelope(x) \notin heap.freed
    BY DEF Left, TombstoneIn, Objects
  <1>8. msg1.metadata \in h2.envelopes /\ envelope(msg1.metadata.of) \notin h2.freed
    BY <1>4, <1>6, <1>7, ObjectFacts
  <1>9. got.h \in Heap /\ got.msg = msg1 /\ got.h.fault = "foreign_free"
    BY <1>4, <1>5, <1>6, <1>8, RkMessageFacts, Zenon
  <1>. QED BY <1>4, <1>9, Zenon DEF got

(* A step that touches what belongs to message m only.                     *)
LEMMA OthersKept ==
  ASSUME FlowType, FlowSafe, heap' \in Heap, input' \subseteq input,
         NEW m \in Messages, m \notin input', Same(heap, heap', m)
  PROVE  /\ \A n \in input' : Unread(heap', n)
         /\ \A i \in DOMAIN queue :
              queue[i].of # m => OwnedIn(setup, heap', input', queue[i])
         /\ pat = "produce" /\ pmsg.of # m => OwnedIn(setup, heap', input', pmsg)
         /\ cat = "add" /\ cmsg.of # m => OwnedIn(setup, heap', input', cmsg)
         /\ cat = "link" /\ newmsg.of # m => OwnedIn(setup, heap', input', newmsg)
         /\ ~nomem => \A n \in Messages \ {m} : UnderWay(n) \/ Gone(heap', n)
  <1>1. heap \in Heap /\ input \subseteq Messages
    BY DEF FlowType
  <1>2. ASSUME NEW msg, Owned(msg), msg.of # m
        PROVE  OwnedIn(setup, heap', input', msg)
    BY <1>2, OthersOwned DEF Owned
  <1>3. \A n \in input' : Unread(heap', n)
    BY <1>1, OthersUnread DEF FlowSafe
  <1>4. ~nomem => \A n \in Messages \ {m} : UnderWay(n) \/ Gone(heap', n)
    BY <1>1, OthersUnread DEF FlowSafe
  <1>5. \A i \in DOMAIN queue : Owned(queue[i])
    BY DEF FlowSafe
  <1>6. /\ pat = "produce" => Owned(pmsg)
        /\ cat = "add" => Owned(cmsg)
        /\ cat = "link" => Owned(newmsg)
    BY Zenon DEF FlowSafe, Linked
  <1>. QED BY <1>2, <1>3, <1>4, <1>5, <1>6, Zenon

(* A step that loses no message of librdkafka's, and stores no offset.     *)
LEMMA StillAccounted ==
  ASSUME Accounted, setup' = setup, nomem' = nomem, stored' = stored, input' = input,
         \A m \in Messages : UnderWay(m) => UnderWay(m)'
  PROVE  Accounted'
  BY Zenon DEF Accounted

(* Without librdkafka there are no offsets.                                *)
LEMMA NothingStored ==
  ASSUME Accounted, ~setup.transactional, setup' = setup, stored' = stored
  PROVE  Accounted'
  BY Zenon DEF Accounted

(* A step that reads m, for which somebody is found.                       *)
LEMMA ReadAccounted ==
  ASSUME Accounted, setup' = setup, nomem' = nomem, stored' = stored, NEW m \in Messages,
         input' = input \ {m}, UnderWay(m)', \A n \in Messages \ {m} : UnderWay(n) => UnderWay(n)'
  PROVE  Accounted'
  BY Zenon DEF Accounted

(* A message on its way is no longer in the input.                         *)
LEMMA OfFacts ==
  ASSUME FlowType, FlowSafe
  PROVE  /\ \A i \in DOMAIN queue : queue[i].of \in Messages \ input
         /\ cat \in {"add", "link"} => cmsg.of \in Messages \ input
         /\ pat = "produce" => pmsg.of \in Messages \ input
  BY DEF FlowSafe, Linked, Owned, OwnedIn, SoundIn

(* consume() while the struct still has what a message without data left. *)
LEMMA ConsumeAfterTombstone ==
  ASSUME OInv, NEW m \in Messages, NEW tombstone \in BOOLEAN, NEW chance \in Chances,
         consume(m, tombstone, chance), skipped # {}
  PROVE  OInv'
  <1> DEFINE got == received(m, tombstone)
  <1>1. Runs /\ m \in input /\ input' = input \ {m} /\ setup' = setup /\ newmsg' = newmsg
        /\ queue' = queue /\ pmsg' = pmsg /\ pat' = pat /\ handle' = handle /\ nomem' = nomem
        /\ skipped' = IF tombstone THEN skipped \cup {m} ELSE skipped
    BY Zenon DEF consume
  <1>2. FlowType /\ FlowSafe /\ Left
    BY <1>1, Zenon DEF OInv, FlowSafe
  <1>3. got.h \in Heap /\ got.msg \in Struct /\ got.h.fault = "foreign_free"
    BY <1>1, <1>2, ReplacedFacts, Zenon
  <1>4. heap' = got.h /\ cmsg' = got.msg /\ cat' = cat
    BY <1>3, Zenon DEF consume
  <1> HIDE DEF got
  <1>5. FlowType'
    BY <1>1, <1>2, <1>3, <1>4, Zenon DEF FlowType
  <1>6. ~Runs'
    BY <1>3, <1>4, Zenon DEF Runs
  <1>7. setup'.transactional /\ skipped' # {}
    BY <1>1, <1>2, Zenon DEF Left
  <1>8. FaultsKnown'
    BY <1>3, <1>4, <1>7, Zenon DEF FaultsKnown
  <1>. QED BY <1>5, <1>6, <1>8, Zenon DEF OInv

(* consume() of a message without data.                                    *)
LEMMA ConsumeTombstone ==
  ASSUME OInv, NEW m \in Messages, NEW chance \in Chances, consume(m, TRUE, chance),
         skipped = {}
  PROVE  OInv'
  <1> DEFINE got == received(m, TRUE)
  <1>1. Runs /\ cat = "consume" /\ m \in input /\ input' = input \ {m} /\ setup' = setup
        /\ newmsg' = newmsg /\ queue' = queue /\ pmsg' = pmsg /\ pat' = pat /\ handle' = handle
        /\ nomem' = nomem /\ stored' = stored /\ skipped' = {m} /\ setup.transactional
    BY ZenonT(30) DEF consume
  <1>2. heap' = got.h /\ cmsg' = got.msg /\ cat' = "consume"
    BY <1>1, Zenon DEF consume
  <1>3. FlowType /\ FlowSafe /\ heap \in Heap
    BY <1>1 DEF OInv, FlowType
  <1>4. Unread(heap, m) /\ cmsg.metadata = NULL
    BY <1>1, <1>3, Zenon DEF FlowSafe, Stale
  <1>5. /\ got.h \in Heap /\ got.msg \in Struct /\ got.h.fault = "none"
        /\ got.msg.of = m /\ TombstoneIn(got.h, got.msg) /\ Same(heap, got.h, m)
    BY <1>1, <1>3, <1>4, TombstoneFacts, Zenon
  <1> HIDE DEF got
  <1>6. FlowType'
    BY <1>1, <1>2, <1>3, <1>5, Zenon DEF FlowType
  <1>7. FaultsKnown'
    BY <1>2, <1>5, Zenon DEF FaultsKnown
  <1>8. input' \subseteq input /\ m \notin input' /\ heap' \in Heap /\ Same(heap, heap', m)
    BY <1>1, <1>2, <1>5, Zenon
  <1>9. /\ \A n \in input' : Unread(heap', n)
        /\ \A i \in DOMAIN queue :
             queue[i].of # m => OwnedIn(setup, heap', input', queue[i])
        /\ pat = "produce" /\ pmsg.of # m => OwnedIn(setup, heap', input', pmsg)
        /\ ~nomem => \A n \in Messages \ {m} : UnderWay(n) \/ Gone(heap', n)
    BY <1>3, <1>8, OthersKept, Zenon
  <1>10. /\ \A i \in DOMAIN queue : queue[i].of # m
         /\ pat = "produce" => pmsg.of # m
    BY <1>1, <1>3, OfFacts
  <1>11. /\ \A i \in DOMAIN queue' : Owned(queue[i])'
         /\ pat' = "produce" => Owned(pmsg)'
    BY <1>1, <1>9, <1>10 DEF Owned
  <1>12. Left'
    BY <1>1, <1>2, <1>5, <1>8, <1>10, Zenon DEF Left
  <1>13. Apart'
    BY <1>1, <1>2, <1>3, Zenon DEF Apart, FlowSafe
  <1>14. ~nomem' => \A n \in Messages : UnderWay(n)' \/ Gone(heap', n)
    <2>1. ASSUME NEW n \in Messages, UnderWay(n), n # m PROVE UnderWay(n)'
      BY <1>1, <2>1, Zenon DEF UnderWay
    <2>2. UnderWay(m)'
      BY <1>1, Zenon DEF UnderWay
    <2>. QED BY <1>1, <1>9, <2>1, <2>2, Zenon
  <1>16. Accounted'
    BY <1>1, <1>3, ReadAccounted, Zenon DEF FlowSafe, UnderWay
  <1>15. FlowSafe'
    BY <1>1, <1>16, <1>2, <1>9, <1>11, <1>12, <1>13, <1>14, Zenon DEF FlowSafe
  <1>. QED BY <1>6, <1>7, <1>15, Zenon DEF OInv

(* consume() and the consumer's hooks; the message before may have left a  *)
(* stale table.                                                            *)
LEMMA ConsumeData ==
  ASSUME OInv, NEW m \in Messages, NEW chance \in Chances, consume(m, FALSE, chance),
         skipped = {}
  PROVE  OInv'
  <1> DEFINE got == received(m, FALSE)
             s == hooklist_run(setup.preadd, got.h, got.msg, chance)
  <1>1. /\ Runs /\ cat = "consume" /\ m \in input /\ input' = input \ {m} /\ skipped' = {}
        /\ setup' = setup /\ newmsg' = newmsg /\ queue' = queue /\ pmsg' = pmsg /\ pat' = pat
        /\ handle' = handle /\ nomem' = nomem /\ stored' = stored
    BY Zenon DEF consume
  <1>2. FlowType /\ FlowSafe /\ heap \in Heap /\ setup \in Setups /\ cmsg \in Struct
    BY <1>1 DEF OInv, FlowType
  <1>3. Unread(heap, m) /\ (cmsg.metadata = NULL \/ Stale) /\ setup.preadd \in Seq(HookNames)
    BY <1>1, <1>2, Zenon DEF FlowSafe, Setups
  <1>4. cmsg.metadata = NULL =>
          /\ got.h \in Heap /\ got.msg \in Struct /\ got.h.fault = "none"
          /\ got.msg.of = m
          /\ Sound(got.h, got.msg) /\ Same(heap, got.h, m)
          /\ ~setup.transactional => got.msg.metadata = NULL
    BY <1>1, <1>2, <1>3, ReceivedFacts, ZenonT(30)
  <1>5. cmsg.metadata # NULL /\ ~setup.transactional =>
          /\ got.h \in Heap /\ got.msg \in Struct /\ got.h.fault = "none"
          /\ got.msg.of = m /\ got.msg.data = payload(m) /\ got.msg.metadata = cmsg.metadata
          /\ got.h.freed = heap.freed
    BY <1>1, <1>2, <1>3, ReceivedFacts, Zenon
  <1>7. /\ heap' = s.h /\ cmsg' = s.msg /\ cat' = IF s.ok THEN "add" ELSE "consume"
    <2>1. got.h.fault = "none"
      BY <1>3, <1>4, <1>5, Zenon DEF Stale
    <2>. QED BY <2>1, Zenon DEF consume
  <1> HIDE DEF got, s
  <1>6. ASSUME s \in Run PROVE FlowType'
    <2>1. s.h \in Heap /\ s.msg \in Struct
      BY <1>6, RunFacts, Zenon
    <2>. QED BY <1>1, <1>7, <1>2, <2>1, Zenon DEF FlowType
  <1>8. CASE cmsg.metadata # NULL
    <2>1. /\ ~setup.transactional /\ ExportsTwice(setup.preadd) /\ cmsg.metadata \in heap.freed
      BY <1>3, <1>8 DEF Stale
    <2>2. payload(m) \notin heap.freed /\ exported(m) \notin heap.freed
      BY <1>3, Zenon DEF Unread, Objects
    <2>3. s \in Run /\ s.h.fault = "use_after_free"
      BY <1>3, <1>5, <1>8, <2>1, <2>2, StaleOutcome, ZenonT(30) DEF s
    <2>4. ~Runs'
      BY <1>1, <1>7, <2>3, Zenon DEF Runs
    <2>5. FaultsKnown'
      BY <1>1, <1>7, <2>1, <2>3, Zenon DEF FaultsKnown
    <2>. QED BY <1>6, <2>3, <2>4, <2>5, Zenon DEF OInv
  <1>9. CASE cmsg.metadata = NULL
    <2>1. Outcome(got.h, got.msg, setup.preadd, s)
      BY <1>3, <1>4, <1>9, HooksOutcome, Zenon DEF s
    <2>2. s \in Run /\ s.msg.of = m /\ s.h \in Heap
      BY <1>4, <1>9, <2>1, RunFacts, Zenon DEF Outcome
    <2>3. CASE s.h.fault # "none"
      <3>1. ~Runs'
        BY <1>1, <1>7, <2>3, Zenon DEF Runs
      <3>2. \/ s.h.fault = "foreign_free" /\ setup.transactional /\ Exports(setup.preadd)
            \/ /\ s.h.fault = "no_function" /\ ~setup.transactional
               /\ "xmark_unknown" \in Range(setup.preadd) /\ Exports(setup.preadd)
        BY <1>4, <1>9, <2>1, <2>3, Zenon DEF Outcome
      <3>3. FaultsKnown'
        BY <1>1, <1>7, <3>2, Zenon DEF FaultsKnown
      <3>. QED BY <1>6, <2>2, <3>1, <3>3, Zenon DEF OInv
    <2>4. CASE s.h.fault = "none"
      <3>1. FaultsKnown'
        BY <1>1, <1>7, <2>4, Zenon DEF FaultsKnown
      <3>2. Same(heap, s.h, m)
        BY <1>4, <1>9, <2>1, <2>4, SameTransitive, Zenon DEF Outcome
      <3>3. input' \subseteq input /\ m \notin input' /\ heap' \in Heap
        BY <1>1, <1>7, <2>2, Zenon
      <3>4. /\ \A n \in input' : Unread(heap', n)
            /\ \A i \in DOMAIN queue :
                 queue[i].of # m => OwnedIn(setup, heap', input', queue[i])
            /\ pat = "produce" /\ pmsg.of # m => OwnedIn(setup, heap', input', pmsg)
            /\ ~nomem => \A n \in Messages \ {m} : UnderWay(n) \/ Gone(heap', n)
        BY <1>1, <1>7, <1>2, <3>2, <3>3, OthersKept, Zenon
      <3>5. /\ \A i \in DOMAIN queue : queue[i].of # m
            /\ pat = "produce" => pmsg.of # m
        BY <1>1, <1>7, <1>2, OfFacts
      <3>6. /\ \A i \in DOMAIN queue' : Owned(queue[i])'
            /\ pat' = "produce" => Owned(pmsg)'
        BY <1>1, <1>7, <3>4, <3>5 DEF Owned
      <3>7. CASE s.ok
        <4>1. Sound(s.h, s.msg)
          BY <2>1, <2>4, <3>7, Zenon DEF Outcome
        <4>3. ~setup.transactional /\ s.msg.metadata # NULL => Exports(setup.preadd)
          BY <1>4, <1>9, <2>1, <2>4, <3>7, Zenon DEF Outcome, Alike
        <4>4. Owned(cmsg)'
          BY <1>1, <1>7, <2>2, <4>1, <4>3, Zenon DEF Owned, OwnedIn, Sound
        <4>5. cat' = "add" /\ cmsg'.of = m
          BY <1>1, <1>7, <2>2, <3>7, Zenon
        <4>6. Apart'
          BY <1>1, <1>7, <1>2, <3>5, <4>5, Zenon DEF Apart, FlowSafe
        <4>7. ~nomem' => \A n \in Messages : UnderWay(n)' \/ Gone(heap', n)
          BY <1>1, <1>7, <3>4, <4>5, Zenon DEF UnderWay
        <4>9. Accounted'
          BY <1>1, <1>2, <4>5, ReadAccounted, Zenon DEF FlowSafe, UnderWay
        <4>8. FlowSafe'
          BY <1>1, <4>9, <1>7, <3>4, <3>6, <4>3, <4>4, <4>5, <4>6, <4>7, ZenonT(30) DEF FlowSafe
        <4>. QED BY <1>6, <2>2, <3>1, <4>8 DEF OInv
      <3>8. CASE ~s.ok
        <4>1. /\ ~setup.transactional /\ Gone(s.h, m) /\ s.msg.metadata \in {NULL, table(m)}
              /\ s.msg.metadata # NULL => s.msg.metadata \in s.h.freed /\ ExportsTwice(setup.preadd)
          BY <1>4, <1>9, <2>1, <2>4, <3>8, Zenon DEF Outcome
        <4>2. cat' = "consume"
          BY <1>1, <1>7, <3>8, Zenon
        <4>3. cmsg'.metadata = NULL \/ Stale'
          BY <1>1, <1>7, <4>1, Zenon DEF Stale
        <4>4. Apart'
          BY <1>1, <1>7, <1>2, <4>2, Zenon DEF Apart, FlowSafe
        <4>5. ~nomem' => \A n \in Messages : UnderWay(n)' \/ Gone(heap', n)
          BY <1>1, <1>7, <3>4, <4>1, <4>2, Zenon DEF UnderWay
        <4>9. Accounted'
          BY <1>1, <1>2, <4>1, NothingStored, Zenon DEF FlowSafe
        <4>6. FlowSafe'
          BY <1>1, <4>9, <1>7, <3>4, <3>6, <4>2, <4>3, <4>4, <4>5, Zenon DEF FlowSafe
        <4>. QED BY <1>6, <2>2, <3>1, <4>6 DEF OInv
      <3>. QED BY <3>7, <3>8, Zenon
    <2>. QED BY <2>3, <2>4, Zenon
  <1>. QED BY <1>8, <1>9, Zenon

(* consume(), whatever it reads.                                           *)
LEMMA ConsumeKeeps ==
  ASSUME OInv, NEW m \in Messages, NEW tombstone \in BOOLEAN, NEW chance \in Chances,
         consume(m, tombstone, chance)
  PROVE  OInv'
  <1>1. tombstone = TRUE \/ tombstone = FALSE
    OBVIOUS
  <1>. QED BY <1>1, ConsumeAfterTombstone, ConsumeTombstone, ConsumeData, Zenon
-----------------------------------------------------------------------------
(* What the consumer's struct holds once queue_add has returned.           *)
LEMMA GivenUp ==
  ASSUME FlowType
  PROVE  given_up \in Struct /\ given_up.metadata = NULL
  <1>1. NULL \in Pointers /\ cmsg \in Struct
    BY DEF Pointers, FlowType
  <1>. QED BY <1>1, ZenonT(30) DEF given_up, Struct

(* In queue_add the struct has nothing of a message without data.          *)
LEMMA NoneLeft ==
  ASSUME FlowSafe, cat \in {"add", "link"}
  PROVE  skipped = {}
  BY Zenon DEF FlowSafe, Left

(* queue_add without memory for the cell.                                  *)
LEMMA AddNomemKeeps ==
  ASSUME OInv, queue_add_nomem
  PROVE  OInv'
  <1> DEFINE m == cmsg.of
  <1>1. /\ Runs /\ cat = "add" /\ heap' = frees(heap, cmsg.data) /\ nomem' = TRUE
        /\ cmsg' = given_up /\ cat' = "consume"
        /\ setup' = setup /\ input' = input /\ newmsg' = newmsg /\ queue' = queue /\ pmsg' = pmsg
        /\ pat' = pat /\ handle' = handle /\ skipped' = skipped /\ stored' = stored
    BY Zenon DEF queue_add_nomem
  <1>2. FlowType /\ FlowSafe /\ heap \in Heap /\ cmsg \in Struct /\ heap.fault = "none"
    BY <1>1 DEF OInv, FlowType, Runs
  <1>3. Owned(cmsg) /\ Sound(heap, cmsg) /\ m \in Messages
    BY <1>1, <1>2, Zenon DEF FlowSafe, Owned, OwnedIn, Sound, SoundIn
  <1>4. /\ cmsg.data \in {payload(m), exported(m)} /\ cmsg.data \notin heap.freed
        /\ cmsg.data # NULL /\ cmsg.data \in Pointers
    BY <1>2, <1>3, DataAlive, Zenon DEF Sound, SoundIn, Struct
  <1>5. heap' \in Heap
    BY <1>1, <1>2, <1>4, FreesFacts, Zenon
  <1>6. FlowType'
    BY <1>1, <1>2, <1>5, GivenUp, Zenon DEF FlowType
  <1>16. skipped' = {}
    BY <1>1, <1>2, NoneLeft, Zenon
  <1>8. CASE setup.transactional
    <2>1. cmsg.data = payload(m)
      BY <1>3, <1>8, Zenon DEF Sound, SoundIn
    <2>2. Foreign(cmsg.data)
      BY <1>3, <1>8, <2>1, ForeignFacts, Zenon
    <2>3. heap' = fails(heap, "foreign_free")
      BY <1>1, <1>2, <1>4, <2>2, FreesFacts, Zenon
    <2>4. fails(heap, "foreign_free").fault = "foreign_free"
      BY <1>2, FaultNames, FailsFacts, ZenonT(30)
    <2>5. FaultsKnown' /\ ~Runs'
      BY <1>1, <1>8, <2>3, <2>4, Zenon DEF FaultsKnown, Runs
    <2>. QED BY <1>6, <2>5, Zenon DEF OInv
  <1>9. CASE ~setup.transactional
    <2>1. ~Foreign(cmsg.data)
      BY <1>3, <1>4, <1>9, ForeignFacts, Zenon
    <2>2. /\ heap'.live = heap.live \ {cmsg.data} /\ heap'.freed = heap.freed \cup {cmsg.data}
          /\ heap'.envelopes = heap.envelopes /\ heap'.fault = "none"
      BY <1>1, <1>2, <1>4, <2>1, FreesFacts, Zenon
    <2>3. Same(heap, heap', m)
      BY <1>4, <2>2, Zenon DEF Same, Objects
    <2>4. m \notin input' /\ input' \subseteq input
      BY <1>1, <1>2, OfFacts, Zenon
    <2>5. /\ \A n \in input' : Unread(heap', n)
          /\ \A i \in DOMAIN queue :
               queue[i].of # m => OwnedIn(setup, heap', input', queue[i])
          /\ pat = "produce" /\ pmsg.of # m => OwnedIn(setup, heap', input', pmsg)
      BY <1>2, <1>3, <1>5, <2>3, <2>4, OthersKept, Zenon
    <2>6. /\ \A i \in DOMAIN queue : queue[i].of # m
          /\ pat = "produce" => pmsg.of # m
      BY <1>1, <1>2, Zenon DEF FlowSafe, Apart
    <2>7. /\ \A i \in DOMAIN queue' : Owned(queue[i])'
          /\ pat' = "produce" => Owned(pmsg)'
      BY <1>1, <2>5, <2>6, Zenon DEF Owned
    <2>8. Apart'
      BY <1>1, <1>2, ZenonT(30) DEF FlowSafe, Apart
    <2>9. cmsg'.metadata = NULL
      BY <1>1, <1>2, GivenUp, Zenon
    <2>12. Accounted'
      BY <1>1, <1>2, <1>9, NothingStored, Zenon DEF FlowSafe
    <2>10. FlowSafe'
      BY <1>1, <2>12, <1>16, <2>5, <2>7, <2>8, <2>9, Zenon DEF FlowSafe
    <2>11. FaultsKnown'
      BY <2>2, Zenon DEF FaultsKnown
    <2>. QED BY <1>6, <2>10, <2>11, Zenon DEF OInv
  <1>. QED BY <1>8, <1>9, Zenon

(* queue_add up to the end of its hooks.                                   *)
LEMMA AddKeeps ==
  ASSUME OInv, NEW chance \in Chances, queue_add(chance)
  PROVE  OInv'
  <1> DEFINE m == cmsg.of
             s == hooklist_run(postadd, heap, cmsg, chance)
  <1>1. /\ Runs /\ cat = "add"
        /\ IF s.ok
           THEN heap' = s.h /\ newmsg' = s.msg /\ cat' = "link" /\ cmsg' = cmsg
           ELSE /\ heap' = metadata_free(s.h, cmsg.metadata)
                /\ cmsg' = given_up /\ cat' = "consume" /\ newmsg' = newmsg
        /\ setup' = setup /\ input' = input /\ queue' = queue /\ pmsg' = pmsg /\ pat' = pat
        /\ handle' = handle /\ skipped' = skipped /\ stored' = stored
        /\ nomem' = nomem
    BY Zenon DEF queue_add
  <1>2. FlowType /\ FlowSafe /\ heap \in Heap /\ cmsg \in Struct /\ heap.fault = "none"
    BY <1>1, SMTT(30) DEF OInv, FlowType, Runs
  <1>3. Owned(cmsg) /\ Sound(heap, cmsg) /\ m \in Messages
    BY <1>1, <1>2, Zenon DEF FlowSafe, Owned, OwnedIn, Sound, SoundIn
  <1>4. postadd \in Seq(HookNames)
    BY <1>2 DEF FlowType, Setups, postadd
  <1>5. Outcome(heap, cmsg, postadd, s)
    BY <1>2, <1>3, <1>4, HooksOutcome, Zenon
  <1>6. ~setup.transactional /\ cmsg.metadata # NULL => Exports(setup.preadd)
    BY <1>1, <1>2, Zenon DEF FlowSafe
  <1>10. cmsg.metadata \in Pointers
    BY <1>2, Zenon DEF Struct
  <1> HIDE DEF s
  <1>7. s \in Run /\ s.h \in Heap /\ s.msg \in Struct /\ s.msg.of = m
    BY <1>5, RunFacts, Zenon DEF Outcome
  <1>8. FlowType'
    <2>1. metadata_free(s.h, cmsg.metadata) \in Heap
      BY <1>7, <1>10, MetadataFreeFacts, Zenon
    <2>. QED BY <1>1, <1>2, <1>7, <2>1, GivenUp, Zenon DEF FlowType
  <1>16. skipped' = {}
    BY <1>1, <1>2, NoneLeft, Zenon
  <1>11. CASE s.h.fault # "none"
    <2>1. heap'.fault = s.h.fault
      BY <1>1, <1>7, <1>10, <1>11, MetadataFreeFacts, ZenonT(30)
    <2>2. \/ s.h.fault = "foreign_free" /\ setup.transactional /\ Exports(postadd)
          \/ /\ s.h.fault = "no_function" /\ ~setup.transactional
             /\ "xmark_unknown" \in Range(postadd)
             /\ Exports(setup.preadd) \/ Exports(postadd)
      BY <1>5, <1>6, <1>11, Zenon DEF Outcome
    <2>3. postadd' = postadd
      BY <1>1, Zenon DEF postadd
    <2>4. FaultsKnown' /\ ~Runs'
      BY <1>1, <1>11, <2>1, <2>2, <2>3, Zenon DEF FaultsKnown, Runs
    <2>. QED BY <1>8, <2>4, Zenon DEF OInv
  <1>12. CASE s.h.fault = "none" /\ ~s.ok /\ cmsg.metadata # NULL
    <2>1. cmsg.metadata \in s.h.freed /\ ~setup.transactional /\ Exports(postadd)
      BY <1>5, <1>12, Zenon DEF Outcome
    <2>2. heap' = fails(s.h, "use_after_free")
      BY <1>1, <1>7, <1>10, <1>12, <2>1, MetadataFreeFacts, Zenon
    <2>3. fails(s.h, "use_after_free").fault = "use_after_free"
      BY <1>7, <1>12, FaultNames, FailsFacts, ZenonT(30)
    <2>4. postadd' = postadd
      BY <1>1 DEF postadd
    <2>5. FaultsKnown' /\ ~Runs'
      BY <1>1, <1>6, <1>12, <2>1, <2>2, <2>3, <2>4, Zenon DEF FaultsKnown, Runs
    <2>. QED BY <1>8, <2>5 DEF OInv
  <1>13. CASE s.h.fault = "none" /\ (s.ok \/ cmsg.metadata = NULL)
    <2>1. heap' = s.h
      BY <1>1, <1>7, <1>10, <1>13, MetadataFreeFacts, Zenon
    <2>2. Same(heap, heap', m)
      BY <1>5, <1>13, <2>1, Zenon DEF Outcome
    <2>3. m \notin input' /\ input' \subseteq input /\ heap' \in Heap
      BY <1>1, <1>2, <1>7, <2>1, OfFacts, Zenon
    <2>4. /\ \A n \in input' : Unread(heap', n)
          /\ \A i \in DOMAIN queue :
               queue[i].of # m => OwnedIn(setup, heap', input', queue[i])
          /\ pat = "produce" /\ pmsg.of # m => OwnedIn(setup, heap', input', pmsg)
          /\ ~nomem => \A n \in Messages \ {m} : UnderWay(n) \/ Gone(heap', n)
      BY <1>2, <1>3, <2>2, <2>3, OthersKept, Zenon
    <2>5. /\ \A i \in DOMAIN queue : queue[i].of # m
          /\ pat = "produce" => pmsg.of # m
      BY <1>1, <1>2, Zenon DEF FlowSafe, Apart
    <2>6. /\ \A i \in DOMAIN queue' : Owned(queue[i])'
          /\ pat' = "produce" => Owned(pmsg)'
      BY <1>1, <2>4, <2>5, Zenon DEF Owned
    <2>7. FaultsKnown'
      BY <1>13, <2>1, Zenon DEF FaultsKnown
    <2>8. CASE s.ok
      <3>1. cat' = "link" /\ cmsg' = cmsg /\ newmsg' = s.msg /\ newmsg'.of = cmsg'.of
        BY <1>1, <1>7, <2>8, Zenon
      <3>2. Sound(s.h, s.msg)
        BY <1>5, <1>13, <2>8, Zenon DEF Outcome
      <3>3. \/ Alike(s.msg, cmsg)
            \/ /\ Exports(postadd) /\ ~setup.transactional
               /\ cmsg.data = payload(m) /\ s.msg.data = exported(m)
        BY <1>5, <1>13, <2>8, Zenon DEF Outcome
      <3>4. Owned(newmsg)'
        BY <1>1, <1>3, <1>7, <2>1, <2>3, <3>1, <3>2, <3>3, ZenonT(30)
        DEF Owned, OwnedIn, Sound, Alike, postadd
      <3>5. Linked'
        BY <1>1, <3>1, <3>3, <3>4, Zenon DEF Linked, Alike, postadd
      <3>6. Apart'
        BY <1>1, <1>2, <3>1, Zenon DEF FlowSafe, Apart
      <3>7. ~nomem' => \A n \in Messages : UnderWay(n)' \/ Gone(heap', n)
        BY <1>1, <2>4, <3>1, Zenon DEF UnderWay
      <3>9. Accounted'
        BY <1>1, <1>2, <3>1, StillAccounted, Zenon DEF FlowSafe, UnderWay
      <3>8. FlowSafe'
        BY <3>9, <1>16, <2>4, <2>6, <3>1, <3>5, <3>6, <3>7, ZenonT(30) DEF FlowSafe
      <3>. QED BY <1>8, <2>7, <3>8, Zenon DEF OInv
    <2>9. CASE ~s.ok
      <3>1. cat' = "consume" /\ cmsg'.metadata = NULL
        BY <1>1, <1>2, <2>9, GivenUp, Zenon
      <3>2. Gone(heap', m)
        BY <1>5, <1>13, <2>1, <2>9, Zenon DEF Outcome
      <3>3. Apart'
        BY <1>1, <1>2, <3>1, ZenonT(30) DEF FlowSafe, Apart
      <3>4. ~nomem' => \A n \in Messages : UnderWay(n)' \/ Gone(heap', n)
        BY <1>1, <2>4, <3>1, <3>2, Zenon DEF UnderWay
      <3>6. ~setup.transactional
        BY <1>5, <1>13, <2>9, Zenon DEF Outcome
      <3>7. Accounted'
        BY <1>1, <1>2, <3>6, NothingStored, Zenon DEF FlowSafe
      <3>5. FlowSafe'
        BY <3>7, <1>16, <2>4, <2>6, <3>1, <3>3, <3>4, Zenon DEF FlowSafe
      <3>. QED BY <1>8, <2>7, <3>5 DEF OInv
    <2>. QED BY <2>8, <2>9, Zenon
  <1>. QED BY <1>11, <1>12, <1>13, Zenon

(* queue_add without memory for the lane.                                  *)
LEMMA AddNoXmarkKeeps ==
  ASSUME OInv, queue_add_no_xmark
  PROVE  OInv'
  <1> DEFINE m == cmsg.of
  <1>1. /\ Runs /\ cat = "link" /\ heap' = Released(heap, cmsg) /\ nomem' = TRUE
        /\ newmsg' = Empty /\ cmsg' = given_up /\ cat' = "consume"
        /\ setup' = setup /\ input' = input /\ queue' = queue /\ pmsg' = pmsg
        /\ pat' = pat /\ handle' = handle /\ skipped' = skipped /\ stored' = stored
    BY Zenon DEF queue_add_no_xmark, Released
  <1>2. /\ FlowType /\ FlowSafe /\ heap \in Heap /\ cmsg \in Struct /\ newmsg \in Struct
        /\ heap.fault = "none"
    BY <1>1, SMTT(30) DEF OInv, FlowType, Runs
  <1>3. Linked /\ Sound(heap, newmsg) /\ m \in Messages /\ newmsg.of = m
    BY <1>1, <1>2, ZenonT(30) DEF FlowSafe, Linked, Owned, OwnedIn, Sound, SoundIn
  <1>4. Empty \in Struct
    BY DEF Empty, Struct, Pointers, Xmarks
  <1>5. cmsg.data \in Pointers /\ cmsg.metadata \in Pointers
    BY <1>2, Zenon DEF Struct
  <1>6. heap' \in Heap
    BY <1>1, <1>2, <1>5, FreesFacts, MetadataFreeFacts, Zenon DEF Released
  <1>7. FlowType'
    BY <1>1, <1>2, <1>4, <1>6, GivenUp, Zenon DEF FlowType
  <1>9. CASE cmsg.data = newmsg.data /\ cmsg.metadata = newmsg.metadata
    <2>1. heap' = Released(heap, newmsg)
      BY <1>1, <1>9, Zenon DEF Released
    <2>2. /\ setup.transactional => heap'.fault = "foreign_free"
          /\ ~setup.transactional => heap'.fault = "none" /\ Same(heap, heap', m)
      BY <1>2, <1>3, <2>1, ReleasedFacts, Zenon
    <2>16. skipped' = {}
      BY <1>1, <1>2, NoneLeft, Zenon
    <2>3. CASE setup.transactional
      <3>1. FaultsKnown' /\ ~Runs'
        BY <1>1, <2>2, <2>3, Zenon DEF FaultsKnown, Runs
      <3>. QED BY <1>7, <3>1 DEF OInv
    <2>4. CASE ~setup.transactional
      <3>4. m \notin input' /\ input' \subseteq input
        BY <1>1, <1>2, OfFacts, Zenon
      <3>5. /\ \A n \in input' : Unread(heap', n)
            /\ \A i \in DOMAIN queue :
                 queue[i].of # m => OwnedIn(setup, heap', input', queue[i])
            /\ pat = "produce" /\ pmsg.of # m => OwnedIn(setup, heap', input', pmsg)
        BY <1>2, <1>3, <1>6, <2>2, <2>4, <3>4, OthersKept, Zenon
      <3>6. /\ \A i \in DOMAIN queue : queue[i].of # m
            /\ pat = "produce" => pmsg.of # m
        BY <1>1, <1>2, Zenon DEF FlowSafe, Apart
      <3>7. /\ \A i \in DOMAIN queue' : Owned(queue[i])'
            /\ pat' = "produce" => Owned(pmsg)'
        BY <1>1, <3>5, <3>6, ZenonT(30) DEF Owned
      <3>8. Apart'
        BY <1>1, <1>2, Zenon DEF FlowSafe, Apart
      <3>9. cmsg'.metadata = NULL
        BY <1>1, <1>2, GivenUp, Zenon
      <3>12. Accounted'
        BY <1>1, <1>2, <2>4, NothingStored, Zenon DEF FlowSafe
      <3>10. FlowSafe'
        BY <3>12, <1>1, <2>16, <3>5, <3>7, <3>8, <3>9, Zenon DEF FlowSafe
      <3>11. FaultsKnown'
        BY <2>2, <2>4, ZenonT(30) DEF FaultsKnown
      <3>. QED BY <1>7, <3>10, <3>11 DEF OInv
    <2>. QED BY <2>3, <2>4
  <1>10. CASE /\ Exports(postadd) /\ ~setup.transactional
              /\ cmsg.data = payload(m) /\ newmsg.data = exported(m)
    <2>1. payload(m) \in heap.freed /\ payload(m) # NULL
      BY <1>3, <1>10, ObjectFacts, SMTT(30) DEF Sound, SoundIn
    <2>2. frees(heap, cmsg.data) = fails(heap, "double_free")
      BY <1>2, <1>5, <1>10, <2>1, FreesFacts, ZenonT(30)
    <2>3. /\ fails(heap, "double_free").fault = "double_free"
          /\ fails(heap, "double_free") \in Heap
      BY <1>2, FaultNames, FailsFacts, Zenon
    <2>4. heap'.fault = "double_free"
      BY <1>1, <1>5, <2>2, <2>3, MetadataFreeFacts DEF Released
    <2>5. postadd' = postadd
      BY <1>1, Zenon DEF postadd
    <2>6. FaultsKnown' /\ ~Runs'
      BY <1>1, <1>10, <2>4, <2>5, Zenon DEF FaultsKnown, Runs
    <2>. QED BY <1>7, <2>6 DEF OInv
  <1>. QED BY <1>3, <1>9, <1>10, Zenon DEF Linked

(* queue_add hands the message over to the queue.                          *)
LEMMA AddLinkKeeps ==
  ASSUME OInv, queue_add_link
  PROVE  OInv'
  <1> DEFINE m == cmsg.of
             n == Len(queue)
  <1>1. /\ Runs /\ cat = "link" /\ queue' = Append(queue, newmsg)
        /\ newmsg' = Empty /\ cmsg' = given_up /\ cat' = "consume"
        /\ setup' = setup /\ heap' = heap /\ input' = input /\ pmsg' = pmsg
        /\ pat' = pat /\ handle' = handle /\ skipped' = skipped /\ stored' = stored
        /\ nomem' = nomem
    BY Zenon DEF queue_add_link
  <1>2. /\ FlowType /\ FlowSafe /\ newmsg \in Struct /\ queue \in Seq(Struct)
    BY <1>1, Zenon DEF OInv, FlowType
  <1>3. Owned(newmsg) /\ newmsg.of = m
    BY <1>1, <1>2, Zenon DEF FlowSafe, Linked
  <1>4. /\ queue' \in Seq(Struct) /\ DOMAIN queue = 1 .. n /\ DOMAIN queue' = 1 .. n + 1 /\ n \in Nat
        /\ \A i \in 1 .. n : queue'[i] = queue[i]
        /\ queue'[n + 1] = newmsg
    BY <1>1, <1>2, SMTT(30)
  <1>5. Empty \in Struct
    BY DEF Empty, Struct, Pointers, Xmarks
  <1>6. FlowType'
    BY <1>1, <1>2, <1>4, <1>5, GivenUp, Zenon DEF FlowType
  <1>7. FaultsKnown'
    BY <1>1, Zenon DEF OInv, FaultsKnown, Runs
  <1> HIDE DEF n
  <1>9. \A i \in DOMAIN queue' : i \in 1 .. n \/ i = n + 1
    BY <1>4, SMTT(30)
  <1>10. \A i \in DOMAIN queue' : Owned(queue[i])'
    BY <1>1, <1>2, <1>3, <1>4, <1>9, Zenon DEF Owned, FlowSafe
  <1>11. pat' = "produce" => Owned(pmsg)'
    BY <1>1, <1>2, Zenon DEF Owned, FlowSafe
  <1>12. Apart'
    <2>1. \A i \in 1 .. n : queue[i].of # m
      BY <1>1, <1>2, <1>4, Zenon DEF FlowSafe, Apart
    <2>2. \A i, j \in 1 .. n : i # j => queue[i].of # queue[j].of
      BY <1>2, <1>4, Zenon DEF FlowSafe, Apart
    <2>3. \A i, j \in DOMAIN queue' : i # j => queue'[i].of # queue'[j].of
      BY <1>3, <1>4, <1>9, <2>1, <2>2, ZenonT(30)
    <2>4. pat' = "produce" => \A i \in DOMAIN queue' : queue'[i].of # pmsg'.of
      BY <1>1, <1>2, <1>3, <1>4, <1>9, Zenon DEF FlowSafe, Apart
    <2>. QED BY <1>1, <2>3, <2>4, Zenon DEF Apart
  <1>13. \A k \in Messages : UnderWay(k) => UnderWay(k)'
    <2>1. n + 1 \in DOMAIN queue' /\ 1 .. n \subseteq DOMAIN queue'
      BY <1>4
    <2>2. ASSUME NEW k \in Messages, NEW i \in DOMAIN queue, queue[i].of = k
          PROVE  \E j \in DOMAIN queue' : queue'[j].of = k
      BY <1>4, <2>1, <2>2, Zenon
    <2>3. \E j \in DOMAIN queue' : queue'[j].of = m
      BY <1>3, <1>4, <2>1, Zenon
    <2>. QED BY <1>1, <2>2, <2>3, Zenon DEF UnderWay
  <1>14. cmsg'.metadata = NULL
    BY <1>1, <1>2, GivenUp, Zenon
  <1>16. skipped' = {}
    BY <1>1, <1>2, NoneLeft, Zenon
  <1>17. Accounted'
    BY <1>1, <1>2, <1>13, StillAccounted, Zenon DEF FlowSafe
  <1>15. FlowSafe'
    BY <1>17, <1>1, <1>2, <1>16, <1>10, <1>11, <1>12, <1>13, <1>14, Zenon DEF FlowSafe
  <1>. QED BY <1>6, <1>7, <1>15, Zenon DEF OInv
-----------------------------------------------------------------------------
(* An element taken out.                                                   *)
LEMMA RemovedFacts ==
  ASSUME NEW S, NEW q \in Seq(S), NEW k \in DOMAIN q
  PROVE  LET r == SubSeq(q, 1, k - 1) \o SubSeq(q, k + 1, Len(q)) IN
         /\ r \in Seq(S) /\ Len(r) = Len(q) - 1
         /\ \A i \in 1 .. Len(q) - 1 : r[i] = IF i < k THEN q[i] ELSE q[i + 1]
  <1> DEFINE a == SubSeq(q, 1, k - 1)
             b == SubSeq(q, k + 1, Len(q))
  <1>1. /\ Len(q) \in Nat /\ k \in 1 .. Len(q) /\ k - 1 \in Int /\ k + 1 \in Int /\ 1 \in Int
        /\ \A i \in 1 .. Len(q) : q[i] \in S
    OBVIOUS
  <1>2. a \in Seq(S) /\ Len(a) = k - 1 /\ \A i \in 1 .. k - 1 : a[i] = q[i]
    <2>1. \A i \in 1 .. k - 1 : q[i] \in S
      BY <1>1
    <2>2. /\ a \in Seq(S) /\ Len(a) = (IF 1 <= k - 1 THEN k - 1 - 1 + 1 ELSE 0)
          /\ \A i \in 1 .. k - 1 - 1 + 1 : a[i] = q[1 + i - 1]
      BY <1>1, <2>1
    <2>. QED BY <1>1, <2>2
  <1>3. b \in Seq(S) /\ Len(b) = Len(q) - k /\ \A i \in 1 .. Len(q) - k : b[i] = q[k + i]
    <2>1. \A i \in k + 1 .. Len(q) : q[i] \in S
      BY <1>1
    <2>2. /\ b \in Seq(S) /\ Len(b) = (IF k + 1 <= Len(q) THEN Len(q) - (k + 1) + 1 ELSE 0)
          /\ \A i \in 1 .. Len(q) - (k + 1) + 1 : b[i] = q[k + 1 + i - 1]
      BY <1>1, <2>1, SMTT(30)
    <2>3. Len(b) = Len(q) - k /\ Len(q) - (k + 1) + 1 = Len(q) - k
      BY <1>1, <2>2
    <2>4. ASSUME NEW i \in 1 .. Len(q) - k PROVE b[i] = q[k + i]
      <3>1. k + 1 + i - 1 = k + i
        BY <1>1
      <3>2. b[i] = q[k + 1 + i - 1]
        BY <2>2, <2>3, Zenon
      <3>. QED BY <3>1, <3>2, Zenon
    <2>. QED BY <2>2, <2>3, <2>4, Zenon
  <1> DEFINE c == a \o b
  <1> HIDE DEF a, b
  <1>4. /\ c \in Seq(S) /\ Len(c) = Len(a) + Len(b)
        /\ \A i \in 1 .. Len(a) + Len(b) : c[i] = IF i <= Len(a) THEN a[i] ELSE b[i - Len(a)]
    BY <1>2, <1>3, SMTT(30)
  <1> HIDE DEF c
  <1>6. ASSUME NEW i \in 1 .. Len(q) - 1
        PROVE  c[i] = IF i < k THEN q[i] ELSE q[i + 1]
    <2>3. i \in 1 .. Len(a) + Len(b)
      BY <1>1, <1>2, <1>3, SMTT(30)
    <2>4. c[i] = IF i <= Len(a) THEN a[i] ELSE b[i - Len(a)]
      BY <1>4, <2>3
    <2>1. CASE i < k
      <3>1. i <= Len(a) /\ i \in 1 .. k - 1
        BY <1>1, <1>2, <2>1
      <3>2. c[i] = a[i] /\ a[i] = q[i]
        BY <1>2, <2>4, <3>1, Zenon
      <3>. QED BY <2>1, <3>2, Zenon
    <2>2. CASE ~(i < k)
      <3> DEFINE j == i - Len(a)
      <3>1. j \in 1 .. Len(q) - k /\ k + j = i + 1 /\ ~(i <= Len(a))
        BY <1>1, <1>2, <2>2, SMTT(30)
      <3>2. c[i] = b[j]
        BY <2>4, <3>1
      <3> HIDE DEF j
      <3>3. b[j] = q[k + j]
        BY <1>3, <3>1, Zenon
      <3>. QED BY <2>2, <3>1, <3>2, <3>3, Zenon
    <2>. QED BY <2>1, <2>2
  <1>7. Len(c) = Len(q) - 1
    BY <1>1, <1>2, <1>3, <1>4, SMTT(30)
  <1>. QED BY <1>4, <1>6, <1>7, Zenon DEF c, a, b

(* The first message of the producer's lane is in the queue.               *)
LEMMA FirstFacts ==
  ASSUME queue \in Seq(Struct), Mine # {}
  PROVE  first \in DOMAIN queue
  <1>1. Mine \in SUBSET Nat
    BY DEF Mine
  <1>2. \E i \in Mine : \A j \in Mine : i <= j
    BY <1>1, Smallest
  <1>3. first \in Mine
    BY <1>2, Zenon DEF first
  <1>. QED BY <1>3 DEF Mine

(* queue_get hands the message over to the producer.                       *)
LEMMA GetKeeps ==
  ASSUME OInv, NEW chance \in Chances, queue_get(chance)
  PROVE  OInv'
  <1> DEFINE k == first
             cell == [queue[k] EXCEPT !.xmark = pmsg.xmark]
             s == hooklist_run(preget, heap, cell, chance)
             n == Len(queue)
  <1>1. /\ Runs /\ pat = "get" /\ Mine # {}
        /\ heap' = s.h /\ pmsg' = s.msg /\ pat' = IF s.ok THEN "produce" ELSE "get"
        /\ queue' = SubSeq(queue, 1, k - 1) \o SubSeq(queue, k + 1, Len(queue))
        /\ setup' = setup /\ input' = input /\ cmsg' = cmsg /\ newmsg' = newmsg /\ cat' = cat
        /\ handle' = handle /\ skipped' = skipped /\ nomem' = nomem /\ stored' = stored
    BY DEF queue_get
  <1>2. /\ FlowType /\ FlowSafe /\ heap \in Heap /\ pmsg \in Struct /\ queue \in Seq(Struct)
        /\ heap.fault = "none"
    BY <1>1 DEF OInv, FlowType, Runs
  <1>3. k \in DOMAIN queue /\ DOMAIN queue = 1 .. n /\ n \in Nat /\ queue[k] \in Struct
    BY <1>1, <1>2, FirstFacts
  <1> HIDE DEF k
  <1>4. cell \in Struct /\ Alike(cell, queue[k])
    BY <1>2, <1>3, Zenon DEF Struct, Alike
  <1>5. Owned(queue[k])
    BY <1>2, <1>3 DEF FlowSafe
  <1>6. Sound(heap, cell)
    BY <1>4, <1>5, SoundAlike, Zenon DEF Owned, OwnedIn, Sound
  <1> HIDE DEF cell
  <1>7. preget \in Seq(HookNames) /\ Range(preget) = {}
    BY DEF preget, Range
  <1>8. Outcome(heap, cell, preget, s)
    BY <1>2, <1>4, <1>6, <1>7, HooksOutcome, Zenon
  <1> HIDE DEF s
  <1>9. /\ s \in Run /\ s.msg \in Struct /\ s.ok /\ s.h = heap /\ Alike(s.msg, cell)
    BY <1>7, <1>8, RunFacts, Zenon DEF Outcome, Exports
  <1>10. Alike(s.msg, queue[k])
    BY <1>4, <1>9, Zenon DEF Alike
  <1>11. /\ queue' \in Seq(Struct) /\ DOMAIN queue' = 1 .. n - 1
         /\ \A i \in 1 .. n - 1 : queue'[i] = IF i < k THEN queue[i] ELSE queue[i + 1]
    <2>1. /\ queue' \in Seq(Struct) /\ Len(queue') = n - 1
          /\ \A i \in 1 .. n - 1 : queue'[i] = IF i < k THEN queue[i] ELSE queue[i + 1]
      BY <1>1, <1>2, <1>3, RemovedFacts, Zenon
    <2>. QED BY <2>1
  <1>12. FlowType'
    BY <1>1, <1>2, <1>9, <1>11, Zenon DEF FlowType
  <1>13. FaultsKnown'
    BY <1>1, <1>9, ZenonT(30) DEF OInv, FaultsKnown, Runs
  <1> HIDE DEF n
  <1>15. ASSUME NEW i \in DOMAIN queue'
         PROVE  \E j \in DOMAIN queue : j # k /\ queue'[i] = queue[j]
    <2>1. CASE i < k
      BY <1>3, <1>11, <2>1
    <2>2. CASE ~(i < k)
      <3>1. i + 1 \in DOMAIN queue /\ i + 1 # k /\ queue'[i] = queue[i + 1]
        BY <1>3, <1>11, <2>2, SMTT(30)
      <3>. QED BY <3>1, Zenon
    <2>. QED BY <2>1, <2>2, Zenon
  <1>16. Owned(pmsg)'
    BY <1>1, <1>5, <1>9, <1>10, ZenonT(30) DEF Owned, OwnedIn, SoundIn, Alike
  <1>17. \A i \in DOMAIN queue' : Owned(queue[i])'
    BY <1>1, <1>2, <1>9, <1>15, ZenonT(30) DEF Owned, FlowSafe
  <1>18. cat' = "add" => /\ Owned(cmsg)'
                         /\ ~setup'.transactional /\ cmsg'.metadata # NULL => Exports(setup'.preadd)
    BY <1>1, <1>2, <1>9, ZenonT(30) DEF Owned, FlowSafe
  <1>19. cat' = "link" => Linked'
    BY <1>1, <1>2, <1>9, ZenonT(30) DEF Owned, FlowSafe, Linked, postadd
  <1>20. Apart'
    <2>1. /\ \A i, j \in DOMAIN queue : i # j => queue[i].of # queue[j].of
          /\ cat \in {"add", "link"} => \A i \in DOMAIN queue : queue[i].of # cmsg.of
      BY <1>2, SMTT(30) DEF FlowSafe, Apart
    <2>2. pmsg'.of = queue[k].of
      BY <1>1, <1>10, ZenonT(30) DEF Alike
    <2>3. \A i \in DOMAIN queue' : queue'[i].of # pmsg'.of
      BY <1>3, <1>15, <2>1, <2>2, ZenonT(30)
    <2>4. cat' \in {"add", "link"} => /\ \A i \in DOMAIN queue' : queue'[i].of # cmsg'.of
                                      /\ cmsg'.of # pmsg'.of
      BY <1>1, <1>3, <1>15, <2>1, <2>2, ZenonT(30)
    <2>5. ASSUME NEW i \in DOMAIN queue', NEW j \in DOMAIN queue', i # j
          PROVE  queue'[i].of # queue'[j].of
      <3> DEFINE I == IF i < k THEN i ELSE i + 1
                 J == IF j < k THEN j ELSE j + 1
      <3>1. I \in DOMAIN queue /\ J \in DOMAIN queue /\ I # J
        BY <1>3, <1>11, <2>5, SMTT(30)
      <3>2. queue'[i] = queue[I] /\ queue'[j] = queue[J]
        BY <1>11
      <3> HIDE DEF I, J
      <3>. QED BY <2>1, <3>1, <3>2, Zenon
    <2>. QED BY <2>3, <2>4, <2>5, Zenon DEF Apart
  <1>21. \A x \in Messages : UnderWay(x) => UnderWay(x)'
    <2>1. ASSUME NEW j \in DOMAIN queue, j # k
          PROVE  \E i \in DOMAIN queue' : queue'[i] = queue[j]
      <3>1. CASE j < k
        BY <1>3, <1>11, <2>1, <3>1
      <3>2. CASE ~(j < k)
        <4>1. j - 1 \in DOMAIN queue' /\ queue'[j - 1] = queue[j]
          BY <1>3, <1>11, <2>1, <3>2, SMTT(30)
        <4>. QED BY <4>1, Zenon
      <3>. QED BY <3>1, <3>2, Zenon
    <2>2. pmsg'.of = queue[k].of /\ pat' = "produce"
      BY <1>1, <1>9, <1>10, Zenon DEF Alike
    <2>. QED BY <1>1, <2>1, <2>2, ZenonT(30) DEF UnderWay
  <1>22. /\ \A x \in input' : Unread(heap', x)
         /\ cat' = "consume" /\ skipped' = {} => cmsg'.metadata = NULL \/ Stale'
         /\ ~nomem' => \A x \in Messages : UnderWay(x)' \/ Gone(heap', x)
    BY <1>1, <1>2, <1>9, <1>21, ZenonT(30) DEF FlowSafe, Stale
  <1>24. skipped' # {} => Left'
    <2>1. ASSUME Left PROVE Left'
      <3>1. pmsg'.of = queue[k].of
        BY <1>1, <1>10, ZenonT(30) DEF Alike
      <3>2. \A i \in DOMAIN queue : queue[i].of # cmsg.of
        BY <2>1, Zenon DEF Left
      <3>3. \A i \in DOMAIN queue' : queue'[i].of # cmsg.of
        BY <1>15, <3>2, Zenon
      <3>. QED BY <1>1, <1>3, <1>9, <2>1, <3>1, <3>2, <3>3, Zenon DEF Left
    <2>. QED BY <1>1, <1>2, <2>1, Zenon DEF FlowSafe
  <1>25. Accounted'
    BY <1>1, <1>2, <1>21, StillAccounted, Zenon DEF FlowSafe
  <1>23. FlowSafe'
    BY <1>25, <1>24, <1>16, <1>17, <1>18, <1>19, <1>20, <1>22, Zenon DEF FlowSafe
  <1>. QED BY <1>12, <1>13, <1>23, Zenon DEF OInv

(* The callback and the free() that is left keep an earlier fault.         *)
LEMMA HandledFacts ==
  ASSUME NEW h \in Heap, NEW msg \in Struct, msg.of \in Messages
  PROVE  /\ handled(h, msg) \in Heap
         /\ h.fault # "none" => handled(h, msg).fault = h.fault
         /\ has_callback(h, msg) /\ handle = "closed" =>
              handled(h, msg) = fails(h, "closed_handle")
         /\ has_callback(h, msg) /\ handle # "closed" =>
              /\ handled(h, msg).live = h.live \ {envelope(msg.of), payload(msg.of)}
              /\ handled(h, msg).freed = h.freed \cup {envelope(msg.of), payload(msg.of)}
              /\ handled(h, msg).envelopes = h.envelopes \ {msg.metadata}
              /\ handled(h, msg).fault = h.fault
         /\ ~has_callback(h, msg) => handled(h, msg) = frees(h, msg.data)
  <1>1. envelope(msg.of) \in Memory /\ payload(msg.of) \in Memory
    BY ObjectFacts, Zenon
  <1>2. msg.data \in Pointers
    BY SMTT(30) DEF Struct
  <1>3. CASE ~has_callback(h, msg)
    BY <1>2, <1>3, FreesFacts, Zenon DEF handled
  <1>4. CASE has_callback(h, msg) /\ handle = "closed"
    BY <1>4, FaultNames, FailsFacts, Zenon DEF handled, callback
  <1>5. CASE has_callback(h, msg) /\ handle # "closed"
    <2>1. handled(h, msg) =
            [h EXCEPT !.live = @ \ {envelope(msg.of), payload(msg.of)},
                      !.freed = @ \cup {envelope(msg.of), payload(msg.of)},
                      !.envelopes = @ \ {msg.metadata}]
      BY <1>5 DEF handled, callback
    <2>. QED BY <1>1, <1>5, <2>1, ZenonT(30) DEF Heap
  <1>. QED BY <1>3, <1>4, <1>5, ZenonT(30)

(* A message of librdkafka: the callback takes envelope and payload, and   *)
(* metadata_free the table that is left.                                   *)
LEMMA ReturnedFacts ==
  ASSUME NEW h \in Heap, NEW msg \in Struct, h.fault = "none", Sound(h, msg), setup.transactional
  PROVE  LET r == metadata_free(handled(h, msg), msg.metadata) IN
         /\ handle = "closed" => r.fault = "closed_handle"
         /\ handle # "closed" => r.fault = "none" /\ Gone(r, msg.of) /\ Same(h, r, msg.of)
  <1> DEFINE m == msg.of
             g == handled(h, msg)
             r == metadata_free(g, table(m))
  <1>1. /\ m \in Messages /\ msg.data = payload(m) /\ msg.metadata = table(m)
        /\ has_callback(h, msg)
    BY Zenon DEF Sound, SoundIn, has_callback
  <1>2. table(m) \in Pointers /\ table(m) # NULL
    BY <1>1, ObjectFacts, Zenon DEF Pointers
  <1>3. CASE handle = "closed"
    <2>1. g = fails(h, "closed_handle")
      BY <1>1, <1>3, HandledFacts, Zenon
    <2>2. fails(h, "closed_handle") \in Heap /\ fails(h, "closed_handle").fault = "closed_handle"
      BY FaultNames, FailsFacts, ZenonT(30)
    <2>3. g \in Heap /\ g.fault = "closed_handle"
      BY <2>1, <2>2, Zenon
    <2> HIDE DEF g
    <2>4. r.fault = "closed_handle"
      BY <1>2, <2>3, MetadataFreeFacts, Zenon
    <2>. QED BY <1>1, <1>3, <2>4, Zenon DEF g
  <1>4. CASE handle # "closed"
    <2>1. /\ g \in Heap /\ g.live = h.live \ {envelope(m), payload(m)}
          /\ g.freed = h.freed \cup {envelope(m), payload(m)}
          /\ g.envelopes = h.envelopes \ {table(m)}
          /\ g.fault = "none"
      <3>1. msg.of = m /\ msg.metadata = table(m)
        BY <1>1
      <3>2. /\ g \in Heap /\ g.live = h.live \ {envelope(msg.of), payload(msg.of)}
            /\ g.freed = h.freed \cup {envelope(msg.of), payload(msg.of)}
            /\ g.envelopes = h.envelopes \ {msg.metadata}
            /\ g.fault = h.fault
        BY <1>1, <1>4, HandledFacts, Zenon
      <3> QED
        BY <3>1, <3>2, Zenon
    <2> HIDE DEF g
    <2>2. table(m) \notin g.freed /\ table(m) \notin g.envelopes
      BY <1>1, <2>1, ObjectFacts, ZenonT(30) DEF Sound, SoundIn
    <2>3. r = frees(g, table(m))
      BY <1>2, <2>1, <2>2, MetadataFreeFacts, Zenon
    <2>4. ~Foreign(table(m))
      BY <1>1, ForeignFacts, Zenon
    <2>5. /\ r.live = g.live \ {table(m)} /\ r.freed = g.freed \cup {table(m)}
          /\ r.envelopes = g.envelopes /\ r.fault = g.fault
      <3>1. /\ frees(g, table(m)).live = g.live \ {table(m)}
            /\ frees(g, table(m)).freed = g.freed \cup {table(m)}
            /\ frees(g, table(m)).envelopes = g.envelopes /\ frees(g, table(m)).fault = g.fault
        BY <1>2, <2>1, <2>2, <2>4, FreesFacts, ZenonT(30)
      <3>. QED BY <2>3, <3>1, Zenon
    <2> HIDE DEF r
    <2>6. /\ r.live = h.live \ {envelope(m), payload(m), table(m)}
          /\ r.freed = h.freed \cup {envelope(m), payload(m), table(m)}
          /\ r.envelopes = h.envelopes \ {table(m)} /\ r.fault = "none"
      BY <2>1, <2>5, Zenon
    <2>7. Gone(r, m)
      <3>1. exported(m) \notin h.live
        BY <1>1, ObjectFacts, SMTT(30) DEF Sound, SoundIn
      <3>. QED BY <2>6, <3>1, ZenonT(30) DEF Gone, Objects
    <2>8. Same(h, r, m)
      BY <2>6, Zenon DEF Same, Objects
    <2>. QED BY <1>1, <1>4, <2>6, <2>7, <2>8, Zenon DEF r, g
  <1>. QED BY <1>3, <1>4

(* What a message without data left is not touched.                        *)
LEMMA TombstoneStays ==
  ASSUME Left, NEW h1 \in Heap, NEW m \in Messages, m # cmsg.of, Same(heap, h1, m)
  PROVE  TombstoneIn(h1, cmsg)
  <1> DEFINE x == cmsg.of
  <1>1. x \in Messages /\ TombstoneIn(heap, cmsg)
    BY DEF Left
  <1>2. Objects(x) \subseteq Memory \ Objects(m)
    BY <1>1, MemoryFacts, ObjectsApart
  <1>3. /\ payload(x) \in Memory \ Objects(m) /\ exported(x) \in Memory \ Objects(m)
        /\ table(x) \in Memory \ Objects(m) /\ envelope(x) \in Memory \ Objects(m)
    BY <1>2 DEF Objects
  <1>. QED BY <1>1, <1>2, <1>3 DEF TombstoneIn, Same

(* produce(), after the producer's hooks, with the callback or without.    *)
LEMMA ProduceKeeps ==
  ASSUME OInv, NEW chance \in Chances, produce(chance)
  PROVE  OInv'
  <1> DEFINE m == pmsg.of
             s == hooklist_run(setup.postget, heap, pmsg, chance)
             put == uses(s.h, s.msg.data)
             done == handled(put, s.msg)
  <1>1. /\ Runs /\ pat = "produce" /\ pat' = "get"
        /\ IF ~s.ok
           THEN heap' = s.h /\ pmsg' = s.msg /\ stored' = stored
           ELSE /\ heap' = metadata_free(done, s.msg.metadata)
                /\ pmsg' = [s.msg EXCEPT !.data = NULL]
                /\ stored' = IF has_callback(put, s.msg) /\ handle = "open"
                             THEN stored \cup {s.msg.of} ELSE stored
        /\ setup' = setup /\ input' = input /\ cmsg' = cmsg /\ newmsg' = newmsg /\ queue' = queue
        /\ cat' = cat /\ handle' = handle /\ skipped' = skipped /\ nomem' = nomem
    BY Zenon DEF produce
  <1>2. /\ FlowType /\ FlowSafe /\ heap \in Heap /\ pmsg \in Struct /\ heap.fault = "none"
    BY <1>1, Zenon DEF OInv, FlowType, Runs
  <1>3. Owned(pmsg) /\ Sound(heap, pmsg) /\ m \in Messages
    BY <1>1, <1>2, Zenon DEF FlowSafe, Owned, OwnedIn, Sound, SoundIn
  <1>4. setup.postget \in Seq(HookNames)
    BY <1>2, Zenon DEF FlowType, Setups
  <1>5. Outcome(heap, pmsg, setup.postget, s)
    BY <1>2, <1>3, <1>4, HooksOutcome, Zenon
  <1> HIDE DEF s
  <1>6. /\ s \in Run /\ s.h \in Heap /\ s.msg \in Struct /\ s.msg.of = m
        /\ s.msg.metadata \in Pointers
    BY <1>5, RunFacts, ZenonT(30) DEF Outcome
  <1>7. put \in Heap /\ (s.h.fault # "none" => put.fault = s.h.fault)
    BY <1>6, UsesFacts, Zenon
  <1> HIDE DEF put
  <1>8. done \in Heap /\ (put.fault # "none" => done.fault = put.fault)
    BY <1>3, <1>6, <1>7, HandledFacts, Zenon
  <1> HIDE DEF done
  <1>9. /\ metadata_free(done, s.msg.metadata) \in Heap
        /\ done.fault # "none" => metadata_free(done, s.msg.metadata).fault = done.fault
    BY <1>6, <1>8, MetadataFreeFacts, Zenon
  <1>10. heap' \in Heap
    BY <1>1, <1>6, <1>9, Zenon
  <1>11. FlowType'
    <2>1. [s.msg EXCEPT !.data = NULL] \in Struct
      BY <1>6, Zenon DEF Struct, Pointers
    <2>. QED BY <1>1, <1>2, <1>6, <1>10, <2>1, Zenon DEF FlowType
  <1>12. CASE s.h.fault # "none"
    <2>1. heap'.fault = s.h.fault
      BY <1>1, <1>7, <1>8, <1>9, <1>12, Zenon
    <2>2. \/ s.h.fault = "foreign_free" /\ setup.transactional /\ Exports(setup.postget)
          \/ /\ s.h.fault = "no_function" /\ ~setup.transactional
             /\ "xmark_unknown" \in Range(setup.postget)
             /\ Exports(setup.preadd) \/ Exports(postadd) \/ Exports(setup.postget)
      BY <1>3, <1>5, <1>12, Zenon DEF Outcome, Owned, OwnedIn, postadd
    <2>3. postadd' = postadd
      BY <1>1, Zenon DEF postadd
    <2>4. FaultsKnown' /\ ~Runs'
      BY <1>1, <1>12, <2>1, <2>2, <2>3, ZenonT(30) DEF FaultsKnown, Runs
    <2>. QED BY <1>11, <2>4, Zenon DEF OInv
  <1>13. CASE s.h.fault = "none" /\ s.ok /\ setup.transactional /\ handle = "closed"
    <2>1. Sound(s.h, s.msg)
      BY <1>5, <1>13, ZenonT(30) DEF Outcome
    <2>2. put = s.h
      BY <1>6, <2>1, DataAlive, UsesFacts, ZenonT(30) DEF put
    <2>3. heap'.fault = "closed_handle"
      BY <1>1, <1>6, <1>13, <2>1, <2>2, ReturnedFacts DEF done
    <2>4. cat' = "done"
      BY <1>1, <1>2, <1>13, Zenon DEF FlowType
    <2>5. FaultsKnown' /\ ~Runs'
      BY <1>1, <1>13, <2>3, <2>4, Zenon DEF FaultsKnown, Runs
    <2>. QED BY <1>11, <2>5 DEF OInv
  <1>14. CASE s.h.fault = "none" /\ ~(s.ok /\ setup.transactional /\ handle = "closed")
    <2>1. /\ heap'.fault = "none" /\ Gone(heap', m) /\ Same(heap, heap', m)
          /\ stored' = IF setup.transactional THEN stored \cup {m} ELSE stored
      <3>1. CASE ~s.ok
        BY <1>1, <1>5, <1>14, <3>1, Zenon DEF Outcome
      <3>2. CASE s.ok
        <4>1. Sound(s.h, s.msg) /\ Same(heap, s.h, m)
          BY <1>5, <1>14, <3>2, Zenon DEF Outcome
        <4>2. put = s.h
          BY <1>6, <4>1, DataAlive, UsesFacts, ZenonT(30) DEF put
        <4>3. CASE setup.transactional
          <5>1. heap'.fault = "none" /\ Gone(heap', m) /\ Same(s.h, heap', m)
            BY <1>1, <1>6, <1>14, <3>2, <4>1, <4>2, <4>3, ReturnedFacts, ZenonT(30) DEF done
          <5>2. Same(heap, heap', m)
            BY <4>1, <5>1, SameTransitive, Zenon
          <5>3. has_callback(put, s.msg)
            BY <4>1, <4>2, <4>3, Zenon DEF has_callback, Sound, SoundIn
          <5>4. handle = "open"
            BY <1>2, <1>14, <3>2, <4>3, Zenon DEF FlowType
          <5>5. stored' = stored \cup {m}
            BY <1>1, <1>6, <3>2, <5>3, <5>4, Zenon
          <5>. QED BY <4>3, <5>1, <5>2, <5>5, Zenon
        <4>4. CASE ~setup.transactional
          <5>1. ~has_callback(put, s.msg)
            BY <1>6, <4>1, <4>2, <4>4, DataAlive, Zenon DEF has_callback
          <5>2. done = frees(s.h, s.msg.data)
            BY <1>3, <1>6, <4>2, <5>1, HandledFacts, Zenon DEF done
          <5>3. heap' = Released(s.h, s.msg)
            BY <1>1, <3>2, <5>2, Zenon DEF Released
          <5>4. heap'.fault = "none" /\ Gone(heap', m) /\ Same(s.h, heap', m)
            BY <1>6, <1>14, <4>1, <4>4, <5>3, ReleasedFacts, ZenonT(30)
          <5>5. Same(heap, heap', m)
            BY <4>1, <5>4, SameTransitive
          <5>6. stored' = stored
            BY <1>1, <3>2, <5>1, Zenon
          <5>. QED BY <4>4, <5>4, <5>5, <5>6, Zenon
        <4>. QED BY <4>3, <4>4, Zenon
      <3>. QED BY <3>1, <3>2, Zenon
    <2>3. FaultsKnown'
      BY <2>1, Zenon DEF FaultsKnown
    <2>4. m \notin input' /\ input' \subseteq input
      BY <1>1, <1>2, OfFacts, Zenon
    <2>5. /\ \A n \in input' : Unread(heap', n)
          /\ \A i \in DOMAIN queue :
               queue[i].of # m => OwnedIn(setup, heap', input', queue[i])
          /\ cat = "add" /\ cmsg.of # m => OwnedIn(setup, heap', input', cmsg)
          /\ cat = "link" /\ newmsg.of # m => OwnedIn(setup, heap', input', newmsg)
          /\ ~nomem => \A n \in Messages \ {m} : UnderWay(n) \/ Gone(heap', n)
      BY <1>2, <1>3, <1>10, <2>1, <2>4, OthersKept, ZenonT(30)
    <2>6. /\ \A i \in DOMAIN queue : queue[i].of # m
          /\ cat \in {"add", "link"} => cmsg.of # m
      BY <1>1, <1>2, Zenon DEF FlowSafe, Apart
    <2>7. \A i \in DOMAIN queue' : Owned(queue[i])'
      BY <1>1, <2>5, <2>6, Zenon DEF Owned
    <2>8. cat' = "add" => /\ Owned(cmsg)'
                          /\ ~setup'.transactional /\ cmsg'.metadata # NULL => Exports(setup'.preadd)
      BY <1>1, <1>2, <2>5, <2>6, Zenon DEF Owned, FlowSafe
    <2>9. cat' = "link" => Linked'
      BY <1>1, <1>2, <2>5, <2>6, Zenon DEF Owned, FlowSafe, Linked, postadd
    <2>10. Apart'
      BY <1>1, <1>2, Zenon DEF FlowSafe, Apart
    <2>11. cat' = "consume" /\ skipped' = {} => cmsg'.metadata = NULL \/ Stale'
      <3>1. CASE cat = "consume" /\ Stale
        <4>1. PICK x \in Messages : cmsg.metadata = table(x)
          BY <3>1, Zenon DEF Stale
        <4>2. table(x) \in heap.freed /\ table(m) \notin heap.freed
          BY <1>3, <3>1, <4>1, Zenon DEF Stale, Sound, SoundIn
        <4>3. table(x) \in Memory \ Objects(m)
          BY <1>3, <4>2, ObjectFacts, ObjectsApart, Zenon DEF Objects
        <4>4. table(x) \in heap'.freed
          BY <2>1, <4>2, <4>3, ZenonT(30) DEF Same
        <4>. QED BY <1>1, <3>1, <4>1, <4>4, Zenon DEF Stale
      <3>. QED BY <1>1, <1>2, <3>1, Zenon DEF FlowSafe
    <2>12. ~nomem' => \A n \in Messages : UnderWay(n)' \/ Gone(heap', n)
      BY <1>1, <2>1, <2>5, Zenon DEF UnderWay
    <2>14. skipped' # {} => Left'
      <3>1. ASSUME Left PROVE Left'
        <4>1. cmsg.of # m
          BY <1>1, <3>1, Zenon DEF Left
        <4>2. TombstoneIn(heap', cmsg)
          BY <1>3, <1>10, <2>1, <3>1, <4>1, TombstoneStays, Zenon
        <4>. QED BY <1>1, <3>1, <4>2, Zenon DEF Left
      <3>. QED BY <1>1, <1>2, <3>1, Zenon DEF FlowSafe
    <2>15. Accounted'
      <3>1. Accounted /\ m \in Messages \ input
        BY <1>1, <1>2, OfFacts, Zenon DEF FlowSafe
      <3>2. \A n \in Messages \ {m} : UnderWay(n) => UnderWay(n)'
        BY <1>1, Zenon DEF UnderWay
      <3>. QED BY <1>1, <2>1, <3>1, <3>2, Zenon DEF Accounted
    <2>13. FlowSafe'
      BY <1>1, <2>15, <2>14, <2>5, <2>7, <2>8, <2>9, <2>10, <2>11, <2>12, ZenonT(30) DEF FlowSafe
    <2>. QED BY <1>11, <2>3, <2>13, Zenon DEF OInv
  <1>. QED BY <1>12, <1>13, <1>14, Zenon

(* The steps that move no message: an ending consumer or producer thread,  *)
(* a timeout, the signal.                                                  *)
LEMMA IdleKeeps ==
  ASSUME OInv, consumer_free \/ queue_get_timedout \/ producer_free \/ stop
  PROVE  OInv'
  <1>1. /\ Runs /\ setup' = setup /\ heap' = heap /\ input' = input /\ cmsg' = cmsg
        /\ newmsg' = newmsg /\ queue' = queue /\ pmsg' = pmsg /\ skipped' = skipped
        /\ nomem' = nomem /\ stored' = stored
        /\ \/ cat' = cat /\ handle' = handle
           \/ cat = "consume" /\ cat' = "done" /\ handle' = "closed"
        /\ pat' = pat \/ (pat = "get" /\ pat' = "done")
    BY Zenon DEF consumer_free, queue_get_timedout, producer_free, stop
  <1>2. FlowType /\ FlowSafe /\ heap.fault = "none"
    BY <1>1, Zenon DEF OInv, Runs
  <1>3. FlowType'
    BY <1>1, <1>2, Zenon DEF FlowType
  <1>4. FaultsKnown'
    BY <1>1, <1>2, Zenon DEF FaultsKnown
  <1>5. /\ \A i \in DOMAIN queue' : Owned(queue[i])'
        /\ cat' = "add" => /\ Owned(cmsg)'
                           /\ ~setup'.transactional /\ cmsg'.metadata # NULL => Exports(setup'.preadd)
        /\ pat' = "produce" => Owned(pmsg)'
        /\ cat' = "consume" /\ skipped' = {} => cmsg'.metadata = NULL \/ Stale'
    BY <1>1, <1>2, ZenonT(30) DEF FlowSafe, Owned, Stale
  <1>6. cat' = "link" => Linked'
    BY <1>1, <1>2, Zenon DEF FlowSafe, Linked, Owned, postadd
  <1>7. Apart'
    BY <1>1, <1>2, ZenonT(30) DEF FlowSafe, Apart
  <1>8. ~nomem' => \A m \in Messages : UnderWay(m)' \/ Gone(heap', m)
    BY <1>1, <1>2, Zenon DEF FlowSafe, UnderWay
  <1>10. skipped' # {} => Left'
    BY <1>1, <1>2, ZenonT(30) DEF FlowSafe, Left
  <1>11. \A m \in Messages : UnderWay(m) => UnderWay(m)'
    BY <1>1, Zenon DEF UnderWay
  <1>12. Accounted'
    BY <1>1, <1>2, <1>11, StillAccounted, Zenon DEF FlowSafe
  <1>9. FlowSafe'
    BY <1>1, <1>12, <1>10, <1>2, <1>5, <1>6, <1>7, <1>8, ZenonT(30) DEF FlowSafe
  <1>. QED BY <1>3, <1>4, <1>9, Zenon DEF OInv

(* Nothing is allocated at the start.                                      *)
LEMMA FlowStarts ==
  ASSUME setup \in Setups, input = Messages, FlowInit
  PROVE  OInv
  <1>1. Empty \in Struct /\ NewHeap \in Heap
    BY DEF Empty, Struct, Pointers, Xmarks, NewHeap, Heap, Faults
  <1>2. /\ heap = NewHeap /\ cmsg = Empty /\ newmsg = Empty /\ pmsg = Empty /\ queue = <<>>
        /\ cat = "consume" /\ pat = "get" /\ handle = "open" /\ skipped = {} /\ stored = {}
    BY Zenon DEF FlowInit
  <1>3. nomem \in BOOLEAN /\ ~nomem
    BY Zenon DEF FlowInit
  <1>4. FlowType
    BY <1>1, <1>2, <1>3, SMTT(30) DEF FlowType
  <1>5. /\ NewHeap.live = {} /\ NewHeap.freed = {} /\ NewHeap.envelopes = {}
        /\ NewHeap.fault = "none" /\ Empty.metadata = NULL
    BY Zenon DEF NewHeap, Empty
  <1>6. FlowSafe
    BY <1>2, <1>3, <1>5, SMTT(30) DEF FlowSafe, Unread, Gone, Apart, Accounted
  <1>7. FaultsKnown
    BY <1>2, <1>5, Zenon DEF FaultsKnown
  <1>. QED BY <1>4, <1>6, <1>7, ZenonT(30) DEF OInv

(* Every step of consumer, queue and producer keeps the invariant.         *)
LEMMA FlowNextKeeps ==
  ASSUME OInv, [FlowNext]_<<setup, flow>>
  PROVE  OInv'
  <1>1. CASE UNCHANGED <<setup, flow>>
    <2>1. /\ setup' = setup /\ heap' = heap /\ input' = input /\ cmsg' = cmsg /\ newmsg' = newmsg
          /\ queue' = queue /\ pmsg' = pmsg /\ cat' = cat /\ pat' = pat /\ handle' = handle
          /\ skipped' = skipped /\ nomem' = nomem /\ stored' = stored
      BY <1>1, Zenon DEF flow
    <2>2. FlowType' /\ FaultsKnown'
      BY <2>1, ZenonT(30) DEF OInv, FlowType, FaultsKnown, postadd
    <2>3. Runs' => FlowSafe'
      BY <2>1, ZenonT(30) DEF OInv, Runs, FlowSafe, Owned, Linked, Apart, UnderWay, Stale,
        Left, Accounted, postadd
    <2>. QED BY <2>2, <2>3, Zenon DEF OInv
  <1>2. CASE \E m \in Messages, tombstone \in BOOLEAN, chance \in Chances :
               consume(m, tombstone, chance)
    BY <1>2, ConsumeKeeps
  <1>3. CASE queue_add_nomem
    BY <1>3, AddNomemKeeps, Zenon
  <1>4. CASE \E chance \in Chances : queue_add(chance)
    BY <1>4, AddKeeps, Zenon
  <1>5. CASE queue_add_no_xmark
    BY <1>5, AddNoXmarkKeeps
  <1>6. CASE queue_add_link
    BY <1>6, AddLinkKeeps
  <1>7. CASE \E chance \in Chances : queue_get(chance)
    BY <1>7, GetKeeps
  <1>8. CASE \E chance \in Chances : produce(chance)
    BY <1>8, ProduceKeeps
  <1>9. CASE consumer_free \/ queue_get_timedout \/ producer_free \/ stop
    BY <1>9, IdleKeeps, Zenon
  <1>. QED BY <1>1, <1>2, <1>3, <1>4, <1>5, <1>6, <1>7, <1>8, <1>9, ZenonT(30) DEF FlowNext

(* What a message on its way holds is what is allocated for it.            *)
LEMMA HoldsFacts ==
  ASSUME NEW msg, Sound(heap, msg), heap \in Heap
  PROVE  /\ msg.of \in Messages /\ msg.data # NULL
         /\ holds(msg) = Objects(msg.of) \cap heap.live
  <1> DEFINE m == msg.of
  <1>1. /\ m \in Messages /\ msg.data \in {payload(m), exported(m)}
        /\ msg.metadata \in {NULL, table(m)}
        /\ payload(m) \in heap.live <=> msg.data = payload(m)
        /\ exported(m) \in heap.live <=> msg.data = exported(m)
        /\ table(m) \in heap.live <=> msg.metadata = table(m)
        /\ envelope(m) \in heap.live <=> setup.transactional
        /\ table(m) \in heap.envelopes <=> setup.transactional
        /\ setup.transactional => msg.metadata = table(m)
    BY SMTT(30) DEF Sound, SoundIn
  <1>2. payload(m) # NULL /\ exported(m) # NULL /\ table(m) # NULL
    BY <1>1, ObjectFacts, ZenonT(30)
  <1>3. NULL \notin heap.envelopes
    BY HeapFacts, MemoryFacts, Zenon
  <1>4. msg.metadata \in heap.envelopes <=> setup.transactional
    BY <1>1, <1>3, Zenon
  <1>5. holds(msg) \subseteq Objects(m) \cap heap.live
    BY <1>1, <1>4, Zenon DEF holds, Objects
  <1>6. Objects(m) \cap heap.live \subseteq holds(msg)
    BY <1>1, <1>2, <1>4, Zenon DEF holds, Objects
  <1>. QED BY <1>1, <1>2, <1>5, <1>6, ZenonT(30)

(* Of a message without data: the table and the envelope.                  *)
LEMMA TombstoneHolds ==
  ASSUME Left, heap \in Heap
  PROVE  /\ cmsg.of \in Messages /\ cmsg.of \in skipped
         /\ holds(cmsg) = Objects(cmsg.of) \cap heap.live /\ table(cmsg.of) \in holds(cmsg)
  <1> DEFINE m == cmsg.of
  <1>1. /\ m \in Messages /\ m \in skipped /\ cmsg.data = NULL /\ cmsg.metadata = table(m)
        /\ table(m) \in heap.live /\ envelope(m) \in heap.live /\ table(m) \in heap.envelopes
        /\ payload(m) \notin heap.live /\ exported(m) \notin heap.live
    BY DEF Left, TombstoneIn
  <1>2. table(m) # NULL
    BY <1>1, ObjectFacts, Zenon
  <1>3. holds(cmsg) = {table(m), envelope(m)}
    BY <1>1, <1>2 DEF holds
  <1>4. Objects(m) \cap heap.live = {table(m), envelope(m)}
    BY <1>1 DEF Objects
  <1>. QED BY <1>1, <1>3, <1>4

(* Who the owners are.                                                     *)
LEMMA OwnersAre ==
  ASSUME NEW msg
  PROVE  msg \in Owners <=>
           \/ \E i \in DOMAIN queue : msg = queue[i]
           \/ cat = "add" /\ msg = cmsg
           \/ cat = "consume" /\ skipped # {} /\ msg = cmsg
           \/ cat = "link" /\ msg = newmsg
           \/ pat = "produce" /\ msg = pmsg
  <1>1. msg \in Range(queue) <=> \E i \in DOMAIN queue : msg = queue[i]
    BY DEF Range
  <1>. QED BY <1>1 DEF Owners

(* Every owner has what is allocated for a message, its own, whoever it is.*)
LEMMA OwnersFacts ==
  ASSUME OInv, Runs
  PROVE  /\ \A msg \in Owners : /\ msg.of \in Messages
                                /\ msg.data # NULL \/ msg.of \in skipped
                                /\ holds(msg) = Objects(msg.of) \cap heap.live /\ holds(msg) # {}
         /\ \A x, y \in Owners : x # y => x.of # y.of
         /\ cat # "done" \/ skipped = {} =>
              \A m \in Messages : UnderWay(m) => \E msg \in Owners : msg.of = m
  <1>1. FlowSafe /\ heap \in Heap
    BY Zenon DEF OInv, FlowType
  <1>2. /\ \A i \in DOMAIN queue : Sound(heap, queue[i])
        /\ cat = "add" => Sound(heap, cmsg)
        /\ cat = "link" => Sound(heap, newmsg) /\ newmsg.of = cmsg.of
        /\ pat = "produce" => Sound(heap, pmsg)
        /\ skipped # {} => Left
    BY <1>1, ZenonT(30) DEF FlowSafe, Linked, Owned, OwnedIn, Sound
  <1>3. ASSUME NEW msg \in Owners
        PROVE  /\ msg.of \in Messages /\ (msg.data # NULL \/ msg.of \in skipped)
               /\ holds(msg) = Objects(msg.of) \cap heap.live /\ holds(msg) # {}
    <2>1. CASE Sound(heap, msg)
      <3>1. /\ msg.of \in Messages /\ msg.data # NULL /\ holds(msg) = Objects(msg.of) \cap heap.live
        BY <1>1, <2>1, HoldsFacts, Zenon
      <3>2. msg.data \in holds(msg)
        BY <3>1 DEF holds
      <3>. QED BY <3>1, <3>2, Zenon
    <2>2. CASE skipped # {} /\ msg = cmsg
      BY <1>1, <1>2, <2>2, TombstoneHolds, Zenon
    <2>. QED BY <1>2, <1>3, <2>1, <2>2, OwnersAre, Zenon
  <1>4. /\ \A i, j \in DOMAIN queue : i # j => queue[i].of # queue[j].of
        /\ cat = "add" => \A i \in DOMAIN queue : queue[i].of # cmsg.of
        /\ cat = "consume" /\ skipped # {} => \A i \in DOMAIN queue : queue[i].of # cmsg.of
        /\ cat = "link" => \A i \in DOMAIN queue : queue[i].of # newmsg.of
        /\ pat = "produce" => \A i \in DOMAIN queue : queue[i].of # pmsg.of
        /\ cat = "add" /\ pat = "produce" => cmsg.of # pmsg.of
        /\ cat = "consume" /\ skipped # {} /\ pat = "produce" => cmsg.of # pmsg.of
        /\ cat = "link" /\ pat = "produce" => newmsg.of # pmsg.of
    BY <1>1, <1>2, ZenonT(30) DEF FlowSafe, Apart, Left
  <1>5. ASSUME NEW x \in Owners, NEW y \in Owners, x # y PROVE x.of # y.of
    <2>1. \/ \E i \in DOMAIN queue : x = queue[i]
          \/ cat = "add" /\ x = cmsg
          \/ cat = "consume" /\ skipped # {} /\ x = cmsg
          \/ cat = "link" /\ x = newmsg
          \/ pat = "produce" /\ x = pmsg
      BY OwnersAre, Zenon
    <2>2. \/ \E i \in DOMAIN queue : y = queue[i]
          \/ cat = "add" /\ y = cmsg
          \/ cat = "consume" /\ skipped # {} /\ y = cmsg
          \/ cat = "link" /\ y = newmsg
          \/ pat = "produce" /\ y = pmsg
      BY OwnersAre, Zenon
    <2>. QED BY <1>4, <1>5, <2>1, <2>2, SMTT(30)
  <1>6. ASSUME cat # "done" \/ skipped = {}, NEW m \in Messages, UnderWay(m)
        PROVE  \E msg \in Owners : msg.of = m
    <2>1. CASE \E i \in DOMAIN queue : queue[i].of = m
      BY <2>1, OwnersAre, Zenon
    <2>2. CASE cat = "add" /\ cmsg.of = m
      BY <2>2, OwnersAre, Zenon
    <2>3. CASE cat = "link" /\ cmsg.of = m
      BY <1>2, <2>3, OwnersAre, Zenon
    <2>4. CASE pat = "produce" /\ pmsg.of = m
      BY <2>4, OwnersAre, Zenon
    <2>5. CASE m \in skipped
      <3>1. cat = "consume" /\ cmsg.of = m /\ skipped # {}
        BY <1>2, <1>6, <2>5 DEF Left
      <3>. QED BY <3>1, OwnersAre, Zenon
    <2>. QED BY <1>6, <2>1, <2>2, <2>3, <2>4, <2>5, Zenon DEF UnderWay
  <1>. QED BY <1>3, <1>5, <1>6, Zenon

(* The inductive invariant has each allocation in one place.               *)
LEMMA OwnedOnceHolds ==
  ASSUME OInv
  PROVE  OwnedOnce
  <1>. SUFFICES ASSUME Runs
                PROVE  /\ \A msg \in Owners : /\ msg.data # NULL \/ msg.of \in skipped
                                              /\ holds(msg) # {} /\ holds(msg) \subseteq heap.live
                       /\ \A x, y \in Owners : x # y => holds(x) \cap holds(y) = {}
                       /\ ~nomem /\ (cat = "done" => skipped = {}) =>
                            heap.live = UNION {holds(msg) : msg \in Owners}
    BY Zenon DEF OwnedOnce
  <1>1. heap \in Heap /\ FlowSafe
    BY Zenon DEF OInv, FlowType
  <1>2. \A msg \in Owners : /\ msg.of \in Messages /\ (msg.data # NULL \/ msg.of \in skipped)
                            /\ holds(msg) = Objects(msg.of) \cap heap.live /\ holds(msg) # {}
    BY OwnersFacts, Zenon
  <1>3. ASSUME NEW x \in Owners, NEW y \in Owners, x # y PROVE holds(x) \cap holds(y) = {}
    <2>1. x.of # y.of /\ x.of \in Messages /\ y.of \in Messages
      BY <1>2, <1>3, OwnersFacts, Zenon
    <2>2. Objects(x.of) \cap Objects(y.of) = {}
      BY <2>1, ObjectsApart, Zenon
    <2>. QED BY <1>2, <2>2, Zenon
  <1>4. ASSUME ~nomem, cat = "done" => skipped = {}, NEW o \in heap.live
        PROVE  \E msg \in Owners : o \in holds(msg)
    <2>1. PICK m \in Messages : o \in Objects(m)
      BY <1>1, HeapFacts, Zenon DEF Memory
    <2>2. UnderWay(m)
      BY <1>1, <1>4, <2>1, Zenon DEF FlowSafe, Gone
    <2>3. PICK msg \in Owners : msg.of = m
      BY <1>4, <2>2, OwnersFacts, Zenon
    <2>. QED BY <1>2, <2>1, <2>3, Zenon
  <1>. QED BY <1>2, <1>3, <1>4

(* The inductive invariant of the flow of messages.                        *)
LEMMA FlowInvariant ==
  FlowSpec => []OInv
  <1>1. setup \in Setups /\ input = Messages /\ FlowInit => OInv
    BY FlowStarts
  <1>2. OInv /\ [FlowNext]_<<setup, flow>> => OInv'
    BY FlowNextKeeps
  <1>. QED BY <1>1, <1>2, PTL DEF FlowSpec

(***************************************************************************)
(* For any lists of hooks, any messages and any order of the two threads:  *)
(* no memory fault but the ones that FaultsKnown has a reason for in the   *)
(* configuration, in an allocation that failed, in a message without data, *)
(* or in a consumer that ended early (hooks.c, queue.c, main.c, kafka.c).  *)
(***************************************************************************)
THEOREM OnlyKnownFaults ==
  FlowSpec => []FaultsKnown
  <1>1. OInv => FaultsKnown
    BY DEF OInv
  <1>. QED BY <1>1, FlowInvariant, PTL

(***************************************************************************)
(* Until a fault, every allocation has one owner, the consumer, a cell of  *)
(* the queue or the producer, and none is lost unless queue_add ran out of *)
(* memory or a message had no data: what main.c's consume and produce,     *)
(* queue_add, queue_get and the hooks hand on is handed over exactly once. *)
(***************************************************************************)
THEOREM EveryAllocationOwnedOnce ==
  FlowSpec => []OwnedOnce
  <1>. QED BY OwnedOnceHolds, FlowInvariant, PTL
-----------------------------------------------------------------------------
(* The messages are read in the order of their offsets, wait in that       *)
(* order, and leave each lane in that order.                               *)
Ordered ==
  /\ \A m \in Messages \ input, n \in input : m < n
  /\ \A i, j \in DOMAIN queue : i < j => queue[i].of < queue[j].of
  /\ cat \in {"add", "link"} \/ skipped # {} => \A n \in Messages \ input : n <= cmsg.of
  /\ cat \in {"add", "link"} => \A m \in stored : m < cmsg.of
  /\ ~Marks(setup.postget) =>
       /\ \A i \in Mine : \A m \in stored : m < queue[i].of
       /\ pat = "produce" => /\ \A i \in Mine : pmsg.of < queue[i].of
                             /\ \A m \in stored : m < pmsg.of

(* The inductive invariant with the order of librdkafka's messages.        *)
OrderInv == OInv /\ (Runs /\ setup.transactional => Ordered)

(* Offsets are numbers.                                                    *)
LEMMA OffsetFacts ==
  ASSUME FlowType, FlowSafe
  PROVE  /\ Messages \subseteq Nat /\ input \subseteq Messages
         /\ \A i \in DOMAIN queue : queue[i].of \in Messages \ input
         /\ cat \in {"add", "link"} => cmsg.of \in Messages \ input
         /\ pat = "produce" => pmsg.of \in Messages \ input
  BY OfFacts, OwnershipAssumption, Zenon DEF FlowType

(* consume() reads the oldest message there is.                            *)
LEMMA ConsumeOrdered ==
  ASSUME OInv, OInv', Runs', setup.transactional, Ordered,
         NEW m \in Messages, NEW tombstone \in BOOLEAN, NEW chance \in Chances,
         consume(m, tombstone, chance)
  PROVE  Ordered'
  <1>1. /\ Runs /\ m \in input /\ \A n \in input : m <= n
        /\ input' = input \ {m} /\ queue' = queue /\ pmsg' = pmsg /\ pat' = pat
        /\ stored' = stored /\ setup' = setup
    BY Zenon DEF consume
  <1>2. FlowType /\ FlowSafe /\ FlowSafe' /\ Accounted /\ Accounted'
    BY <1>1, Zenon DEF OInv, FlowSafe
  <1>3. /\ Messages \subseteq Nat /\ input \subseteq Messages /\ stored \subseteq Messages \ input
        /\ \A i \in DOMAIN queue : queue[i].of # m
        /\ pat = "produce" => pmsg.of # m
    BY <1>1, <1>2, OffsetFacts, Zenon DEF Accounted
  <1>4. UnderWay(m)'
    BY <1>1, <1>2, <1>3, Zenon DEF Accounted
  <1>5. cat' \in {"add", "link"} \/ skipped' # {} => cmsg'.of = m
    <2>1. skipped' # {} => skipped' = {cmsg'.of} /\ cat' \notin {"add", "link"}
      BY <1>2, Zenon DEF FlowSafe, Left
    <2>2. (cat' \in {"add", "link"} /\ cmsg'.of = m) \/ m \in skipped'
      BY <1>1, <1>3, <1>4, Zenon DEF UnderWay
    <2>. QED BY <2>1, <2>2, Zenon
  <1>6. \A n \in Messages \ input : n < m
    BY <1>1, Zenon DEF Ordered
  <1>7. /\ \A n \in Messages \ input' : n <= m
        /\ \A n \in stored : n < m
        /\ \A n \in Messages \ input', o \in input' : n < o
    <2>1. \A n \in Messages \ input, o \in input : n < o
      BY Zenon DEF Ordered
    <2>2. ASSUME NEW n \in Messages, n < m PROVE n <= m
      BY ONLY <2>2, <1>3
    <2>3. m <= m
      BY ONLY <1>3
    <2>4. ASSUME NEW o \in input, o # m PROVE m < o
      <3>1. m \in Nat /\ o \in Nat /\ m <= o
        BY <1>1, <1>3, Zenon
      <3>. QED BY ONLY <2>4, <3>1
    <2>5. \A n \in Messages \ input' : n = m \/ n \in Messages \ input
      BY <1>1, Zenon
    <2>. QED BY <1>1, <1>3, <1>6, <2>1, <2>2, <2>3, <2>4, <2>5, Zenon
  <1>8. Mine' = Mine
    BY <1>1, Zenon DEF Mine
  <1>. QED BY <1>1, <1>5, <1>7, <1>8, Zenon DEF Ordered

(* A step that moves no message.                                           *)
LEMMA QuietOrdered ==
  ASSUME Ordered, setup' = setup, input' = input, queue' = queue, pmsg' = pmsg, stored' = stored,
         pat' = "produce" => pat = "produce",
         cat' \in {"add", "link"} => cat \in {"add", "link"} /\ cmsg' = cmsg,
         skipped' # {} => skipped # {} /\ cmsg' = cmsg
  PROVE  Ordered'
  <1>1. Mine' = Mine
    BY Zenon DEF Mine
  <1>. QED BY <1>1, Zenon DEF Ordered

(* queue_add puts the newest message behind all others.                    *)
LEMMA LinkOrdered ==
  ASSUME OInv, OInv', Runs', setup.transactional, Ordered, queue_add_link
  PROVE  Ordered'
  <1> DEFINE m == cmsg.of
             n == Len(queue)
  <1>1. /\ Runs /\ cat = "link" /\ queue' = Append(queue, newmsg) /\ cat' = "consume"
        /\ input' = input /\ pmsg' = pmsg /\ pat' = pat /\ stored' = stored /\ setup' = setup
        /\ skipped' = skipped
    BY Zenon DEF queue_add_link
  <1>2. FlowType /\ FlowSafe /\ newmsg \in Struct /\ queue \in Seq(Struct) /\ Apart /\ Linked
    BY <1>1, Zenon DEF OInv, FlowType, FlowSafe
  <1>3. newmsg.of = m /\ skipped' = {}
    BY <1>1, <1>2, NoneLeft, Zenon DEF Linked
  <1>4. /\ DOMAIN queue = 1 .. n /\ n \in Nat /\ DOMAIN queue' = 1 .. n + 1
        /\ \A i \in 1 .. n : queue'[i] = queue[i]
        /\ queue'[n + 1] = newmsg
    BY <1>1, <1>2
  <1> HIDE DEF n
  <1>5. /\ Messages \subseteq Nat /\ m \in Messages
        /\ \A i \in DOMAIN queue : queue[i].of \in Messages \ input
        /\ pat = "produce" => pmsg.of \in Messages \ input
    BY <1>1, <1>2, OffsetFacts, Zenon
  <1>6. /\ \A i \in DOMAIN queue : queue[i].of # m
        /\ pat = "produce" => pmsg.of # m
    BY <1>1, <1>2, Zenon DEF Apart
  <1>7. /\ \A k \in Messages \ input : k <= m
        /\ \A k \in stored : k < m
    BY <1>1, Zenon DEF Ordered
  <1>8. ASSUME NEW k \in Messages \ input, k # m PROVE k < m
    <2>1. k \in Nat /\ m \in Nat /\ k <= m
      BY <1>5, <1>7, <1>8, Zenon
    <2>. QED BY ONLY <1>8, <2>1
  <1>9. /\ \A i \in DOMAIN queue : queue[i].of < m
        /\ pat = "produce" => pmsg.of < m
    BY <1>5, <1>6, <1>8, Zenon
  <1>10. \A i \in DOMAIN queue' : (i \in DOMAIN queue /\ queue'[i] = queue[i]) \/ i = n + 1
    BY <1>4
  <1>11. \A i, j \in DOMAIN queue' : i < j => queue'[i].of < queue'[j].of
    <2>1. ASSUME NEW i \in DOMAIN queue', NEW j \in DOMAIN queue', i < j
          PROVE  queue'[i].of < queue'[j].of
      <3>1. i \in DOMAIN queue /\ queue'[i] = queue[i]
        BY <1>4, <2>1
      <3>2. CASE j = n + 1
        BY <1>3, <1>4, <1>9, <3>1, <3>2, Zenon
      <3>3. CASE j \in DOMAIN queue /\ queue'[j] = queue[j]
        BY <2>1, <3>1, <3>3, Zenon DEF Ordered
      <3>. QED BY <1>10, <3>2, <3>3, Zenon
    <2>. QED BY <2>1, Zenon
  <1>12. \A i \in Mine' : (i \in Mine /\ queue'[i] = queue[i]) \/ queue'[i].of = m
    <2>1. ASSUME NEW i \in Mine' PROVE (i \in Mine /\ queue'[i] = queue[i]) \/ queue'[i].of = m
      <3>1. i \in DOMAIN queue' /\ queue'[i].xmark = pmsg.xmark
        BY <1>1, <2>1, Zenon DEF Mine
      <3>. QED BY <1>3, <1>4, <1>10, <3>1, Zenon DEF Mine
    <2>. QED BY <2>1, Zenon
  <1>13. ~Marks(setup.postget) =>
           /\ \A i \in Mine' : \A k \in stored : k < queue'[i].of
           /\ pat = "produce" => /\ \A i \in Mine' : pmsg.of < queue'[i].of
                                 /\ \A k \in stored : k < pmsg.of
    BY <1>7, <1>9, <1>12, Zenon DEF Ordered
  <1>14. \A k \in Messages \ input, x \in input : k < x
    BY Zenon DEF Ordered
  <1>. QED BY <1>1, <1>3, <1>11, <1>13, <1>14, Zenon DEF Ordered

(* The first message of the lane is the one to get.                        *)
LEMMA FirstIsFirst ==
  ASSUME queue \in Seq(Struct), Mine # {}
  PROVE  first \in Mine /\ \A j \in Mine : first <= j
  <1>1. Mine \in SUBSET Nat
    BY DEF Mine
  <1>2. \E i \in Mine : \A j \in Mine : i <= j
    BY <1>1, Smallest
  <1>. QED BY <1>2, Zenon DEF first

(* queue_get takes the oldest message of the producer's lane.              *)
LEMMA GetOrdered ==
  ASSUME OInv, OInv', Runs', setup.transactional, Ordered, NEW chance \in Chances,
         queue_get(chance)
  PROVE  Ordered'
  <1> DEFINE k == first
             cell == [queue[k] EXCEPT !.xmark = pmsg.xmark]
             s == hooklist_run(preget, heap, cell, chance)
             n == Len(queue)
             up(i) == IF i < k THEN i ELSE i + 1
  <1>1. /\ Runs /\ pat = "get" /\ Mine # {} /\ pmsg' = s.msg
        /\ queue' = SubSeq(queue, 1, k - 1) \o SubSeq(queue, k + 1, Len(queue))
        /\ setup' = setup /\ input' = input /\ cmsg' = cmsg /\ cat' = cat
        /\ skipped' = skipped /\ stored' = stored
    BY DEF queue_get
  <1>2. FlowType /\ FlowSafe /\ pmsg \in Struct /\ queue \in Seq(Struct)
    BY <1>1, Zenon DEF OInv, FlowType
  <1>3. k \in DOMAIN queue /\ k \in Mine /\ \A j \in Mine : k <= j
    BY <1>1, <1>2, FirstIsFirst, Zenon DEF Mine
  <1>4. DOMAIN queue = 1 .. n /\ n \in Nat /\ queue[k] \in Struct
    BY <1>2, <1>3
  <1>5. pmsg'.of = queue[k].of /\ pmsg'.xmark = pmsg.xmark
    <2>1. cell \in Struct /\ Alike(cell, queue[k]) /\ cell.xmark = pmsg.xmark
      BY <1>2, <1>4, Zenon DEF Struct, Alike
    <2>2. Owned(queue[k]) /\ heap \in Heap /\ heap.fault = "none"
      BY <1>1, <1>2, <1>3, Zenon DEF FlowSafe, FlowType, Runs
    <2>3. Sound(heap, cell)
      BY <2>1, <2>2, SoundAlike, Zenon DEF Owned, OwnedIn, Sound
    <2> HIDE DEF cell
    <2>4. preget \in Seq(HookNames) /\ Range(preget) = {}
      BY DEF preget, Range
    <2>5. Outcome(heap, cell, preget, s)
      BY <2>1, <2>2, <2>3, <2>4, HooksOutcome, Zenon
    <2> HIDE DEF s
    <2>6. s.msg.of = cell.of /\ s.msg.xmark = cell.xmark
      BY <2>4, <2>5, Zenon DEF Outcome, Exports, Marks, Alike
    <2>. QED BY <1>1, <2>1, <2>6, Zenon DEF Alike
  <1> HIDE DEF k, cell, s
  <1>6. DOMAIN queue' = 1 .. n - 1 /\ \A i \in 1 .. n - 1 : queue'[i] = queue[up(i)]
    <2>1. /\ queue' \in Seq(Struct) /\ Len(queue') = n - 1
          /\ \A i \in 1 .. n - 1 : queue'[i] = IF i < k THEN queue[i] ELSE queue[i + 1]
      BY <1>1, <1>2, <1>3, RemovedFacts, Zenon
    <2>. QED BY <2>1
  <1> HIDE DEF n
  <1>7. ASSUME NEW i \in DOMAIN queue'
        PROVE  up(i) \in DOMAIN queue /\ up(i) # k /\ queue'[i] = queue[up(i)]
    BY <1>3, <1>4, <1>6
  <1>8. ASSUME NEW i \in DOMAIN queue', NEW j \in DOMAIN queue', i < j PROVE up(i) < up(j)
    BY <1>3, <1>4, <1>6, <1>8
  <1> HIDE DEF up
  <1>9. \A i, j \in DOMAIN queue : i < j => queue[i].of < queue[j].of
    BY Zenon DEF Ordered
  <1>10. \A i, j \in DOMAIN queue' : i < j => queue'[i].of < queue'[j].of
    BY <1>7, <1>8, <1>9, Zenon
  <1>11. ASSUME NEW i \in Mine'
         PROVE  up(i) \in Mine /\ queue'[i] = queue[up(i)] /\ pmsg'.of < queue'[i].of
    <2>1. i \in DOMAIN queue' /\ queue'[i].xmark = pmsg.xmark
      BY <1>5, <1>11, Zenon DEF Mine
    <2>2. /\ up(i) \in DOMAIN queue /\ up(i) # k /\ queue'[i] = queue[up(i)]
          /\ up(i) \in Mine
      BY <1>7, <2>1, Zenon DEF Mine
    <2>3. k < up(i)
      <3>1. k <= up(i) /\ k \in Nat /\ up(i) \in Nat
        BY <1>3, <1>4, <2>2
      <3>. QED BY ONLY <2>2, <3>1
    <2>. QED BY <1>3, <1>5, <1>9, <2>2, <2>3, Zenon
  <1>12. ~Marks(setup.postget) =>
           /\ \A i \in Mine' : \A m \in stored : m < queue'[i].of
           /\ \A i \in Mine' : pmsg'.of < queue'[i].of
           /\ \A m \in stored : m < pmsg'.of
    BY <1>3, <1>5, <1>11, Zenon DEF Ordered
  <1>13. /\ \A m \in Messages \ input, x \in input : m < x
         /\ cat \in {"add", "link"} \/ skipped # {} => \A x \in Messages \ input : x <= cmsg.of
         /\ cat \in {"add", "link"} => \A m \in stored : m < cmsg.of
    BY Zenon DEF Ordered
  <1>. QED BY <1>1, <1>10, <1>12, <1>13, Zenon DEF Ordered

(* The callback stores the offset of the producer's message.               *)
LEMMA ProduceOrdered ==
  ASSUME OInv, OInv', Runs', setup.transactional, Ordered, NEW chance \in Chances,
         produce(chance)
  PROVE  Ordered'
  <1> DEFINE s == hooklist_run(setup.postget, heap, pmsg, chance)
             put == uses(s.h, s.msg.data)
             done == handled(put, s.msg)
  <1>1. /\ Runs /\ pat = "produce" /\ pat' = "get"
        /\ IF ~s.ok
           THEN heap' = s.h /\ pmsg' = s.msg /\ stored' = stored
           ELSE /\ heap' = metadata_free(done, s.msg.metadata)
                /\ pmsg' = [s.msg EXCEPT !.data = NULL]
                /\ stored' = IF has_callback(put, s.msg) /\ handle = "open"
                             THEN stored \cup {s.msg.of} ELSE stored
        /\ setup' = setup /\ input' = input /\ cmsg' = cmsg /\ queue' = queue /\ cat' = cat
        /\ skipped' = skipped
    BY Zenon DEF produce
  <1>2. FlowType /\ FlowSafe /\ heap \in Heap /\ pmsg \in Struct /\ heap.fault = "none" /\ Apart
    BY <1>1, Zenon DEF OInv, FlowType, FlowSafe, Runs
  <1>3. Sound(heap, pmsg) /\ pmsg.of \in Messages /\ setup.postget \in Seq(HookNames)
    BY <1>1, <1>2, Zenon DEF FlowSafe, Owned, OwnedIn, Sound, SoundIn, FlowType, Setups
  <1>4. Outcome(heap, pmsg, setup.postget, s)
    BY <1>2, <1>3, HooksOutcome, Zenon
  <1> HIDE DEF s
  <1>5. s \in Run /\ s.h \in Heap /\ s.msg \in Struct /\ s.msg.of = pmsg.of
    BY <1>4, RunFacts, Zenon DEF Outcome
  <1>6. s.h.fault = "none"
    <2>1. put \in Heap /\ (s.h.fault # "none" => put.fault = s.h.fault)
      BY <1>5, UsesFacts, RunFacts, Zenon
    <2> HIDE DEF put
    <2>2. done \in Heap /\ (put.fault # "none" => done.fault = put.fault)
      BY <1>3, <1>5, <2>1, HandledFacts, RunFacts, Zenon
    <2> HIDE DEF done
    <2>3. done.fault # "none" => metadata_free(done, s.msg.metadata).fault = done.fault
      BY <1>5, <2>2, MetadataFreeFacts, RunFacts, Zenon
    <2>. QED BY <1>1, <2>1, <2>2, <2>3, Zenon DEF Runs
  <1>7. s.ok /\ (s.msg.xmark = pmsg.xmark \/ Marks(setup.postget))
    BY <1>4, <1>6, Zenon DEF Outcome
  <1>8. stored' \subseteq stored \cup {pmsg.of} /\ pmsg'.xmark = s.msg.xmark
    BY <1>1, <1>5, <1>7, Zenon DEF Struct
  <1>9. cat \in {"add", "link"} => pmsg.of < cmsg.of
    <2>1. ASSUME cat \in {"add", "link"}
          PROVE  pmsg.of \in Nat /\ cmsg.of \in Nat /\ pmsg.of # cmsg.of /\ pmsg.of <= cmsg.of
      BY <1>1, <1>2, <2>1, OffsetFacts, Zenon DEF Apart, Ordered
    <2>2. ASSUME cat \in {"add", "link"} PROVE pmsg.of < cmsg.of
      <3>1. pmsg.of \in Nat /\ cmsg.of \in Nat /\ pmsg.of # cmsg.of /\ pmsg.of <= cmsg.of
        BY <2>1, <2>2, Zenon
      <3>. QED BY ONLY <3>1
    <2>. QED BY <2>2, Zenon
  <1>10. ~Marks(setup.postget) => Mine' = Mine
    BY <1>1, <1>7, <1>8, Zenon DEF Mine
  <1>11. ~Marks(setup.postget) => \A i \in Mine' : \A m \in stored' : m < queue[i].of
    BY <1>1, <1>8, <1>10, Zenon DEF Ordered
  <1>12. cat \in {"add", "link"} => \A m \in stored' : m < cmsg.of
    BY <1>8, <1>9, Zenon DEF Ordered
  <1>13. /\ \A m \in Messages \ input, x \in input : m < x
         /\ \A i, j \in DOMAIN queue : i < j => queue[i].of < queue[j].of
         /\ cat \in {"add", "link"} \/ skipped # {} => \A x \in Messages \ input : x <= cmsg.of
    BY Zenon DEF Ordered
  <1>. QED BY <1>1, <1>11, <1>12, <1>13, Zenon DEF Ordered

(* Every step keeps the order.                                             *)
LEMMA NextOrdered ==
  ASSUME OInv, OInv', Runs', setup.transactional, Runs => Ordered, [FlowNext]_<<setup, flow>>
  PROVE  Ordered'
  <1>1. CASE UNCHANGED <<setup, flow>>
    <2>1. /\ setup' = setup /\ heap' = heap /\ input' = input /\ cmsg' = cmsg /\ queue' = queue
          /\ pmsg' = pmsg /\ cat' = cat /\ pat' = pat /\ skipped' = skipped /\ stored' = stored
      BY <1>1, Zenon DEF flow
    <2>. QED BY <2>1, QuietOrdered, Zenon DEF Runs
  <1>2. CASE \E m \in Messages, tombstone \in BOOLEAN, chance \in Chances :
               consume(m, tombstone, chance)
    <2>1. PICK m \in Messages, tombstone \in BOOLEAN, chance \in Chances :
                 consume(m, tombstone, chance)
      BY <1>2
    <2>2. Runs
      BY <2>1, Zenon DEF consume
    <2>. QED BY <2>1, <2>2, ConsumeOrdered, Zenon
  <1>3. CASE queue_add_nomem \/ queue_add_no_xmark \/ \E chance \in Chances : queue_add(chance)
    <2>1. /\ Runs /\ cat \in {"add", "link"} /\ setup' = setup /\ input' = input /\ queue' = queue
          /\ pmsg' = pmsg /\ pat' = pat /\ skipped' = skipped /\ stored' = stored
          /\ cat' = "consume" \/ cmsg' = cmsg
      BY <1>3, Zenon DEF queue_add_nomem, queue_add_no_xmark, queue_add
    <2>2. skipped' = {}
      BY <2>1, NoneLeft, Zenon DEF OInv
    <2>. QED BY <2>1, <2>2, QuietOrdered, Zenon
  <1>4. CASE queue_add_link
    BY <1>4, LinkOrdered, Zenon DEF queue_add_link
  <1>5. CASE \E chance \in Chances : queue_get(chance)
    BY <1>5, GetOrdered, Zenon DEF queue_get
  <1>6. CASE \E chance \in Chances : produce(chance)
    BY <1>6, ProduceOrdered, Zenon DEF produce
  <1>7. CASE consumer_free \/ queue_get_timedout \/ producer_free \/ stop
    <2>1. /\ Runs /\ setup' = setup /\ input' = input /\ queue' = queue /\ pmsg' = pmsg
          /\ cmsg' = cmsg /\ skipped' = skipped /\ stored' = stored
          /\ cat' = cat \/ cat' = "done"
          /\ pat' = pat \/ pat' = "done"
      BY <1>7, Zenon DEF consumer_free, queue_get_timedout, producer_free, stop
    <2>. QED BY <2>1, QuietOrdered, Zenon
  <1>. QED BY <1>1, <1>2, <1>3, <1>4, <1>5, <1>6, <1>7, ZenonT(30) DEF FlowNext

(* What order there is makes the offsets follow each other.                *)
LEMMA OrderedHolds ==
  ASSUME OrderInv
  PROVE  OffsetsInOrder
  <1>. SUFFICES ASSUME Runs, ~Marks(setup.postget), NEW m \in stored, NEW o \in Messages, o < m,
                       o \notin stored
                PROVE  \E i \in DOMAIN queue : queue[i].of = o /\ queue[i].xmark # pmsg.xmark
    BY Zenon DEF OffsetsInOrder
  <1>1. FlowType /\ FlowSafe /\ Accounted
    BY Zenon DEF OrderInv, OInv, FlowSafe
  <1>2. setup.transactional /\ Ordered /\ m \in Messages \ input
    BY <1>1, Zenon DEF Accounted, OrderInv
  <1>3. m \in Nat /\ o \in Nat
    BY <1>1, <1>2, OffsetFacts
  <1>4. ~(m < o) /\ ~(m <= o)
    BY ONLY <1>3, o < m
  <1>5. o \notin input
    BY <1>2, <1>4, Zenon DEF Ordered
  <1>6. UnderWay(o)
    BY <1>1, <1>2, <1>5, Zenon DEF Accounted
  <1>7. ~(cat \in {"add", "link"} /\ cmsg.of = o) /\ ~(pat = "produce" /\ pmsg.of = o)
    BY <1>2, <1>4, Zenon DEF Ordered
  <1>8. o \notin skipped
    <2>1. ASSUME o \in skipped PROVE FALSE
      <3>1. skipped # {} /\ skipped = {cmsg.of}
        BY <1>1, <2>1, Zenon DEF FlowSafe, Left
      <3>2. m <= cmsg.of /\ o = cmsg.of
        BY <1>2, <2>1, <3>1, Zenon DEF Ordered
      <3>. QED BY <1>4, <3>2, Zenon
    <2>. QED BY <2>1, Zenon
  <1>9. PICK i \in DOMAIN queue : queue[i].of = o
    BY <1>6, <1>7, <1>8, Zenon DEF UnderWay
  <1>10. i \notin Mine
    BY <1>2, <1>4, <1>9, Zenon DEF Ordered
  <1>. QED BY <1>9, <1>10, Zenon DEF Mine

(***************************************************************************)
(* For any lists of hooks, any messages and any order of the two threads:  *)
(* until a fault, an offset is stored (consumer_commit_offset) only when   *)
(* every older message has its own stored or waits in a lane that the      *)
(* producer does not serve.  Hooks, queue_add and queue_get lose none of   *)
(* librdkafka's messages and let none overtake another of its lane.        *)
(***************************************************************************)
THEOREM OffsetsStayInOrder ==
  FlowSpec => []OffsetsInOrder
  <1>1. setup \in Setups /\ input = Messages /\ FlowInit => OrderInv
    <2>1. ASSUME setup \in Setups, input = Messages, FlowInit PROVE OrderInv
      <3>1. OInv
        BY <2>1, FlowStarts, Zenon
      <3>2. queue = <<>> /\ cat = "consume" /\ pat = "get" /\ skipped = {} /\ stored = {}
        BY <2>1, Zenon DEF FlowInit
      <3>3. Ordered
        BY <2>1, <3>2 DEF Ordered, Mine
      <3>. QED BY <3>1, <3>3, Zenon DEF OrderInv
    <2>. QED BY <2>1, Zenon
  <1>2. OrderInv /\ [FlowNext]_<<setup, flow>> => OrderInv'
    <2>1. ASSUME OrderInv, [FlowNext]_<<setup, flow>> PROVE OrderInv'
      <3>1. OInv /\ OInv'
        BY <2>1, FlowNextKeeps, Zenon DEF OrderInv
      <3>2. setup' = setup
        BY <2>1, ZenonT(30) DEF FlowNext, consume, consumer_free, queue_add_nomem, queue_add,
          queue_add_no_xmark, queue_add_link, queue_get, produce, queue_get_timedout,
          producer_free, stop
      <3>3. Runs' /\ setup.transactional => Ordered'
        BY <2>1, <3>1, NextOrdered, Zenon DEF OrderInv
      <3>. QED BY <3>1, <3>2, <3>3, Zenon DEF OrderInv
    <2>. QED BY <2>1, Zenon
  <1>. QED BY <1>1, <1>2, OrderedHolds, PTL DEF FlowSpec
=============================================================================
