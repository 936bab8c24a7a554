----------------------------- MODULE HookProofs -----------------------------
(***************************************************************************)
(* What the calls of malloc() and free() along a list of hooks leave of a  *)
(* message, for any list of hooks and any message: the lemmas that the     *)
(* proofs about the flow of messages rest on.                              *)
(***************************************************************************)
EXTENDS Ownership, WellFoundedInduction, TLAPS

HookNames == {"dummy", "xmark", "xmark_of_field", "xmark_unknown", "jsonexport"}

-----------------------------------------------------------------------------
Memory == UNION {Objects(m) : m \in Messages}
Pointers == Memory \cup {NULL}

Struct == [of : Messages \cup {NULL}, data : Pointers, metadata : Pointers, xmark : Xmarks]
Faults == {"none", "foreign_free", "double_free", "use_after_free", "closed_handle", "no_function"}
Heap == [live : SUBSET Memory, freed : SUBSET Memory, envelopes : SUBSET Memory, fault : Faults]

(* What heap h has of the message that msg owns.                           *)
SoundIn(transactional, h, msg) ==
  LET m == msg.of IN
  /\ m \in Messages
  /\ msg.data \in {payload(m), exported(m)}
  /\ msg.metadata \in {NULL, table(m)}
  /\ transactional => msg.data = payload(m) /\ msg.metadata = table(m)
  /\ payload(m) \in h.live <=> msg.data = payload(m)
  /\ payload(m) \in h.freed <=> msg.data # payload(m)
  /\ exported(m) \in h.live <=> msg.data = exported(m)
  /\ table(m) \in h.live <=> msg.metadata = table(m)
  /\ envelope(m) \in h.live <=> transactional
  /\ table(m) \in h.envelopes <=> transactional
  /\ h.freed \cap {exported(m), table(m), envelope(m)} = {}
Sound(h, msg) == SoundIn(setup.transactional, h, msg)

(* Nothing of m is allocated; nothing of it ever was.                      *)
Gone(h, m) == Objects(m) \cap h.live = {}
Unread(h, m) == Objects(m) \cap (h.live \cup h.freed \cup h.envelopes) = {}

(* The heaps differ in what belongs to m only.                             *)
Same(h, h1, m) ==
  \A o \in Memory \ Objects(m) :
    /\ o \in h1.live <=> o \in h.live
    /\ o \in h1.freed <=> o \in h.freed
    /\ o \in h1.envelopes <=> o \in h.envelopes
-----------------------------------------------------------------------------
(* Induction over the numbers, for a set that is given.                    *)
LEMMA Smallest ==
  ASSUME NEW T \in SUBSET Nat, T # {}
  PROVE  \E n \in T : \A m \in T : n <= m
<1> DEFINE R == OpToRel(<, Nat)
<1>1. IsWellFoundedOn(R, Nat)
  BY NatLessThanWellFounded, Zenon
<1>2. \A x, y \in Nat : x < y => <<x, y>> \in R
  BY DEF OpToRel
<1> HIDE DEF R
<1>3. PICK x \in T : \A y \in T : ~ (<<y, x>> \in R)
  BY <1>1, WFMin, Zenon
<1>4. \A y \in T : ~ (y < x)
  BY <1>2, <1>3, Zenon
<1> QED
  BY <1>4

(* A set that has 0 and with every number the next has them all.           *)
LEMMA Induction ==
  ASSUME NEW S, 0 \in S, \A n \in Nat : n \in S => n + 1 \in S
  PROVE  Nat \subseteq S
<1> DEFINE T == Nat \ S
<1> SUFFICES ASSUME T # {} PROVE FALSE
  OBVIOUS
<1>1. PICK n \in T : \A m \in T : n <= m
  BY Smallest, Zenon
<1>2. n # 0 /\ n - 1 \in Nat
  OBVIOUS
<1>3. n - 1 \notin T
  BY <1>1, <1>2
<1> QED
  BY <1>2, <1>3
-----------------------------------------------------------------------------
(* The parts of messages are told apart by message and kind.               *)
LEMMA ObjectFacts ==
  ASSUME NEW m \in Messages
  PROVE  /\ payload(m) \in Memory /\ exported(m) \in Memory
         /\ table(m) \in Memory /\ envelope(m) \in Memory
         /\ payload(m) # exported(m) /\ payload(m) # table(m) /\ payload(m) # envelope(m)
         /\ exported(m) # table(m) /\ exported(m) # envelope(m) /\ table(m) # envelope(m)
         /\ payload(m) # NULL /\ exported(m) # NULL /\ table(m) # NULL /\ envelope(m) # NULL
         /\ payload(m).is = "payload" /\ exported(m).is = "row"
         /\ table(m).is = "table" /\ envelope(m).is = "envelope"
         /\ table(m).of = m
  <1>1. /\ payload(m) \in Objects(m) /\ exported(m) \in Objects(m)
        /\ table(m) \in Objects(m) /\ envelope(m) \in Objects(m)
    BY DEF Objects
  <1>2. /\ payload(m) # exported(m) /\ payload(m) # table(m) /\ payload(m) # envelope(m)
        /\ exported(m) # table(m) /\ exported(m) # envelope(m) /\ table(m) # envelope(m)
    BY DEF payload, exported, table, envelope
  <1>3. /\ payload(m).is = "payload" /\ exported(m).is = "row"
        /\ table(m).is = "table" /\ envelope(m).is = "envelope"
        /\ table(m).of = m
    BY DEF payload, exported, table, envelope
  <1>4. payload(m) # NULL /\ exported(m) # NULL /\ table(m) # NULL /\ envelope(m) # NULL
    BY <1>1, OwnershipAssumption DEF Objects
  <1>. QED BY <1>1, <1>2, <1>3, <1>4 DEF Memory

(* h_jsonexport's row in place of the payload leaves the message sound.    *)
LEMMA ExportSound ==
  ASSUME NEW m \in Messages, NEW h, NEW msg, NEW g, NEW new, NEW made,
         Sound(h, msg), msg.of = m, msg.data = payload(m), ~setup.transactional,
         new.of = m, new.data = exported(m),
         new.metadata = IF made THEN table(m) ELSE msg.metadata,
         g.live = (h.live \cup {exported(m)} \cup (IF made THEN {table(m)} ELSE {}))
                  \ {payload(m)},
         g.freed = h.freed \cup {payload(m)}, g.envelopes = h.envelopes
  PROVE  Sound(g, new)
  BY ObjectFacts DEF Sound, SoundIn

(* message_free gives back all that is left of a sound message.            *)
LEMMA GoneAfter ==
  ASSUME NEW h, NEW msg, NEW r, Sound(h, msg), ~setup.transactional,
         \/ msg.metadata = NULL /\ r.live = h.live \ {msg.data}
         \/ r.live = h.live \ {msg.data, table(msg.of)}
  PROVE  Gone(r, msg.of)
  BY ObjectFacts DEF Gone, Objects, Sound, SoundIn

(* No two messages share anything.                                         *)
LEMMA ObjectsApart ==
  ASSUME NEW m \in Messages, NEW n \in Messages, m # n
  PROVE  Objects(m) \cap Objects(n) = {}
  BY DEF Objects, payload, exported, table, envelope

(* NULL is no memory of any message.                                       *)
LEMMA MemoryFacts ==
  /\ NULL \notin Memory
  /\ \A m \in Messages : Objects(m) \subseteq Memory
  BY OwnershipAssumption DEF Memory
-----------------------------------------------------------------------------
(* The sets of a heap are sets of allocated objects.                       *)
LEMMA HeapFacts ==
  ASSUME NEW h \in Heap
  PROVE  /\ h.live \subseteq Memory /\ h.freed \subseteq Memory /\ h.envelopes \subseteq Memory
         /\ h.fault \in Faults
         /\ h = [live |-> h.live, freed |-> h.freed, envelopes |-> h.envelopes, fault |-> h.fault]
  BY DEF Heap

(* The faults that the model records.                                      *)
LEMMA FaultNames ==
  /\ "none" \in Faults /\ "foreign_free" \in Faults /\ "double_free" \in Faults
  /\ "use_after_free" \in Faults /\ "closed_handle" \in Faults /\ "no_function" \in Faults
  BY DEF Faults

(* Only the first fault counts.                                            *)
LEMMA FailsFacts ==
  ASSUME NEW h \in Heap, NEW f \in Faults
  PROVE  /\ fails(h, f) \in Heap
         /\ fails(h, f).live = h.live /\ fails(h, f).freed = h.freed
         /\ fails(h, f).envelopes = h.envelopes
         /\ h.fault = "none" => fails(h, f).fault = f
         /\ h.fault # "none" => fails(h, f) = h
  BY DEF fails, Heap

(* malloc(): the object is allocated, the rest is as before.               *)
LEMMA AllocatesFacts ==
  ASSUME NEW h \in Heap, NEW o \in Memory
  PROVE  /\ allocates(h, o) \in Heap
         /\ allocates(h, o).live = h.live \cup {o} /\ allocates(h, o).freed = h.freed
         /\ allocates(h, o).envelopes = h.envelopes
         /\ allocates(h, o).fault = h.fault
  BY DEF allocates, Heap

(* Reading what is freed is a fault, and nothing else changes.             *)
LEMMA UsesFacts ==
  ASSUME NEW h \in Heap, NEW o
  PROVE  /\ uses(h, o) \in Heap
         /\ o \notin h.freed => uses(h, o) = h
         /\ o \in h.freed => uses(h, o) = fails(h, "use_after_free")
         /\ h.fault # "none" => uses(h, o).fault = h.fault
  <1>1. "use_after_free" \in Faults
    BY DEF Faults
  <1>2. /\ fails(h, "use_after_free") \in Heap
        /\ h.fault # "none" => fails(h, "use_after_free").fault = h.fault
    BY <1>1, FailsFacts
  <1>. QED BY <1>2 DEF uses

(* free(): of nothing, of what is freed, of librdkafka's, of ours.         *)
LEMMA FreesFacts ==
  ASSUME NEW h \in Heap, NEW o \in Pointers
  PROVE  /\ frees(h, o) \in Heap
         /\ h.fault # "none" => frees(h, o).fault = h.fault
         /\ o = NULL => frees(h, o) = h
         /\ o # NULL /\ o \in h.freed => frees(h, o) = fails(h, "double_free")
         /\ o # NULL /\ o \notin h.freed /\ Foreign(o) => frees(h, o) = fails(h, "foreign_free")
         /\ o # NULL /\ o \notin h.freed /\ ~Foreign(o) =>
              /\ frees(h, o).live = h.live \ {o} /\ frees(h, o).freed = h.freed \cup {o}
              /\ frees(h, o).envelopes = h.envelopes
              /\ frees(h, o).fault = h.fault
  <1>1. CASE o = NULL
    BY <1>1 DEF frees
  <1>2. CASE o # NULL /\ o \in h.freed
    BY <1>2, FaultNames, FailsFacts, Zenon DEF frees
  <1>3. CASE o # NULL /\ o \notin h.freed /\ Foreign(o)
    BY <1>3, FaultNames, FailsFacts, Zenon DEF frees
  <1>4. CASE o # NULL /\ o \notin h.freed /\ ~Foreign(o)
    <2>1. frees(h, o) = [h EXCEPT !.live = @ \ {o}, !.freed = @ \cup {o}]
      BY <1>4 DEF frees
    <2>2. o \in Memory
      BY <1>4 DEF Pointers
    <2>. QED BY <1>4, <2>1, <2>2, ZenonT(30) DEF Heap
  <1>. QED BY <1>1, <1>2, <1>3, <1>4

(* free() of what is allocated and the program's own.                      *)
LEMMA FreesOwn ==
  ASSUME NEW h \in Heap, NEW o \in Pointers, o # NULL, o \notin h.freed, ~Foreign(o)
  PROVE  /\ frees(h, o).live = h.live \ {o} /\ frees(h, o).freed = h.freed \cup {o}
         /\ frees(h, o).envelopes = h.envelopes /\ frees(h, o).fault = h.fault
  BY FreesFacts

(* librdkafka allocates the envelope, and the payload in it.               *)
LEMMA ForeignFacts ==
  ASSUME NEW m \in Messages
  PROVE  /\ Foreign(payload(m)) <=> setup.transactional
         /\ ~Foreign(exported(m)) /\ ~Foreign(table(m)) /\ Foreign(envelope(m))
  BY ObjectFacts DEF Foreign

(* A table without an envelope is simply freed; a NULL one is left alone.  *)
LEMMA MetadataFreeFacts ==
  ASSUME NEW h \in Heap, NEW md \in Pointers
  PROVE  /\ metadata_free(h, md) \in Heap
         /\ h.fault # "none" => metadata_free(h, md).fault = h.fault
         /\ md = NULL => metadata_free(h, md) = h
         /\ md # NULL /\ md \in h.freed => metadata_free(h, md) = fails(h, "use_after_free")
         /\ md # NULL /\ md \notin h.freed /\ md \notin h.envelopes =>
              metadata_free(h, md) = frees(h, md)
         /\ md # NULL /\ md \notin h.freed /\ md \in h.envelopes
              /\ envelope(md.of) \notin h.freed /\ h.fault = "none" =>
              metadata_free(h, md).fault = "foreign_free"
  <1>1. CASE md = NULL
    BY <1>1 DEF metadata_free
  <1>2. CASE md # NULL /\ md \in h.freed
    BY <1>2, FaultNames, FailsFacts, Zenon DEF metadata_free
  <1>3. CASE md # NULL /\ md \notin h.freed
    <2>1. PICK m \in Messages : md \in Objects(m)
      BY <1>3 DEF Pointers, Memory
    <2>5. md.of = m
      BY <2>1 DEF Objects, payload, exported, table, envelope
    <2>2. md.of = m /\ envelope(m) \in Pointers /\ envelope(m) # NULL
      BY <2>5, ObjectFacts DEF Pointers
    <2>3. CASE md \notin h.envelopes
      BY <2>3, <1>3, FreesFacts DEF metadata_free
    <2>4. CASE md \in h.envelopes
      <3> DEFINE g == frees(h, envelope(m))
      <3>1. metadata_free(h, md) = frees(g, md)
        BY <1>3, <2>2, <2>4 DEF metadata_free
      <3>5. Foreign(envelope(m))
        BY ForeignFacts
      <3>2. /\ g \in Heap
            /\ h.fault # "none" => g.fault = h.fault
            /\ envelope(m) \notin h.freed => g = fails(h, "foreign_free")
        BY <2>2, <3>5, FreesFacts
      <3>6. h.fault = "none" => fails(h, "foreign_free").fault = "foreign_free"
        BY FaultNames, FailsFacts, Zenon
      <3>3. h.fault = "none" /\ envelope(m) \notin h.freed => g.fault = "foreign_free"
        BY <3>2, <3>6
      <3> HIDE DEF g
      <3>4. frees(g, md) \in Heap /\ (g.fault # "none" => frees(g, md).fault = g.fault)
        BY <3>2, FreesFacts
      <3>. QED BY <1>3, <2>2, <2>4, <3>1, <3>2, <3>3, <3>4
    <2>. QED BY <2>3, <2>4
  <1>. QED BY <1>1, <1>2, <1>3
-----------------------------------------------------------------------------
Run == [h : Heap, msg : Struct, ok : BOOLEAN]

(* The same message, but for its xmark.                                    *)
Alike(x, y) == x.of = y.of /\ x.data = y.data /\ x.metadata = y.metadata

(* The parts of what a hook works on.                                      *)
LEMMA RunFacts ==
  ASSUME NEW s \in Run
  PROVE  /\ s.h \in Heap /\ s.msg \in Struct /\ s.ok \in BOOLEAN
         /\ s.msg.data \in Pointers /\ s.msg.metadata \in Pointers
         /\ s.h.freed \subseteq Memory /\ s.h.envelopes \subseteq Memory
         /\ NULL \notin s.h.freed /\ NULL \notin s.h.envelopes
  <1>1. s.h \in Heap /\ s.msg \in Struct /\ s.ok \in BOOLEAN
    BY DEF Run
  <1>2. s.msg.data \in Pointers /\ s.msg.metadata \in Pointers
    BY <1>1 DEF Struct
  <1>3. s.h.freed \subseteq Memory /\ s.h.envelopes \subseteq Memory
    BY <1>1, HeapFacts
  <1>. QED BY <1>1, <1>2, <1>3, MemoryFacts

(* h_xmark changes the xmark only, and reads the table if it needs the     *)
(* field.                                                                  *)
LEMMA XmarkFacts ==
  ASSUME NEW s \in Run, NEW field \in BOOLEAN, NEW chance \in Chances
  PROVE  LET t == h_xmark(s, field, chance) IN
         /\ t \in Run /\ t.ok = s.ok /\ Alike(t.msg, s.msg)
         /\ s.h.fault # "none" => t.h.fault = s.h.fault
         /\ s.msg.metadata \notin s.h.freed => t.h = s.h
         /\ t.h = s.h \/ (s.msg.metadata \in s.h.freed /\ t.h = fails(s.h, "use_after_free"))
         /\ field /\ s.msg.metadata \in s.h.freed => t.h = fails(s.h, "use_after_free")
  <1> DEFINE g == IF field THEN metadata_find(s.h, s.msg.metadata) ELSE s.h
             t == h_xmark(s, field, chance)
  <1>1. /\ g \in Heap
        /\ s.h.fault # "none" => g.fault = s.h.fault
        /\ s.msg.metadata \notin s.h.freed => g = s.h
        /\ g = s.h \/ (s.msg.metadata \in s.h.freed /\ g = fails(s.h, "use_after_free"))
        /\ field /\ s.msg.metadata \in s.h.freed => g = fails(s.h, "use_after_free")
    BY RunFacts, UsesFacts DEF metadata_find
  <1>2. t = [s EXCEPT !.h = g, !.msg.xmark = chance.xmark]
    BY DEF h_xmark
  <1>3. chance.xmark \in Xmarks
    BY DEF Chances
  <1> HIDE DEF g, t
  <1>4. t \in Run /\ t.ok = s.ok /\ t.h = g /\ Alike(t.msg, s.msg)
    BY <1>1, <1>2, <1>3, Zenon DEF Run, Struct, Alike
  <1>5. /\ t \in Run /\ t.ok = s.ok /\ Alike(t.msg, s.msg)
        /\ s.h.fault # "none" => t.h.fault = s.h.fault
        /\ s.msg.metadata \notin s.h.freed => t.h = s.h
        /\ t.h = s.h \/ (s.msg.metadata \in s.h.freed /\ t.h = fails(s.h, "use_after_free"))
        /\ field /\ s.msg.metadata \in s.h.freed => t.h = fails(s.h, "use_after_free")
    BY <1>1, <1>4, Zenon
  <1>. QED BY <1>5 DEF t

(* An xmark with an unknown hash faults on a table of jsonexport's.        *)
LEMMA UnknownFacts ==
  ASSUME NEW s \in Run, NEW chance \in Chances
  PROVE  LET t == h_xmark_unknown(s, chance)
             found == s.msg.metadata # NULL /\ s.msg.metadata \notin s.h.envelopes
         IN /\ t \in Run /\ t.ok = s.ok /\ Alike(t.msg, s.msg)
            /\ s.h.fault # "none" => t.h.fault = s.h.fault
            /\ s.msg.metadata \in s.h.freed /\ s.h.fault = "none" => t.h.fault = "use_after_free"
            /\ s.msg.metadata \notin s.h.freed /\ ~found => t.h = s.h
            /\ s.msg.metadata \notin s.h.freed /\ s.h.fault = "none" /\ found
                 => t.h.fault = "no_function"
  <1> DEFINE x == h_xmark(s, TRUE, chance)
             t == h_xmark_unknown(s, chance)
             found == s.msg.metadata # NULL /\ s.msg.metadata \notin s.h.envelopes
  <1>1. /\ x \in Run /\ x.ok = s.ok /\ Alike(x.msg, s.msg)
        /\ s.h.fault # "none" => x.h.fault = s.h.fault
        /\ s.msg.metadata \notin s.h.freed => x.h = s.h
        /\ s.msg.metadata \in s.h.freed => x.h = fails(s.h, "use_after_free")
    BY XmarkFacts, Zenon
  <1>2. t = IF found THEN [x EXCEPT !.h = fails(@, "no_function")] ELSE x
    BY DEF h_xmark_unknown
  <1>3. s.h.fault = "none" => fails(s.h, "use_after_free").fault = "use_after_free"
    BY RunFacts, FaultNames, FailsFacts, Zenon
  <1> HIDE DEF x, t, found
  <1>4. x.h \in Heap
    BY <1>1, RunFacts
  <1>5. /\ fails(x.h, "no_function") \in Heap
        /\ x.h.fault = "none" => fails(x.h, "no_function").fault = "no_function"
        /\ x.h.fault # "none" => fails(x.h, "no_function") = x.h
    BY <1>4, FaultNames, FailsFacts, Zenon
  <1>6. CASE ~found
    <2>1. t = x
      BY <1>2, <1>6, Zenon
    <2>. QED BY <1>1, <1>3, <1>6, <2>1 DEF t, found
  <1>7. CASE found
    <2>1. /\ t \in Run /\ t.ok = x.ok /\ t.msg = x.msg
          /\ t.h = fails(x.h, "no_function")
      BY <1>1, <1>2, <1>5, <1>7, Zenon DEF Run
    <2>. QED BY <1>1, <1>3, <1>5, <1>7, <2>1 DEF t, found
  <1>. QED BY <1>6, <1>7

(* The same, of what it makes of s.                                        *)
UnknownRan(s, t) ==
  LET found == s.msg.metadata # NULL /\ s.msg.metadata \notin s.h.envelopes
  IN /\ t \in Run /\ t.ok = s.ok /\ Alike(t.msg, s.msg)
     /\ s.h.fault # "none" => t.h.fault = s.h.fault
     /\ s.msg.metadata \in s.h.freed /\ s.h.fault = "none" => t.h.fault = "use_after_free"
     /\ s.msg.metadata \notin s.h.freed /\ ~found => t.h = s.h
     /\ s.msg.metadata \notin s.h.freed /\ s.h.fault = "none" /\ found
          => t.h.fault = "no_function"

(* What h_xmark_unknown does, as one fact.                                 *)
LEMMA UnknownRuns ==
  ASSUME NEW s \in Run, NEW chance \in Chances
  PROVE  UnknownRan(s, h_xmark_unknown(s, chance))
  BY UnknownFacts, ZenonT(30) DEF UnknownRan

(* metadata_insert makes the table of a message that has none.             *)
LEMMA InsertFacts ==
  ASSUME NEW h \in Heap, NEW msg \in Struct, msg.of \in Messages
  PROVE  LET r == metadata_insert(h, msg) IN
         /\ r.h \in Heap /\ r.msg \in Struct
         /\ r.msg.of = msg.of /\ r.msg.data = msg.data
         /\ h.fault # "none" => r.h.fault = h.fault
         /\ msg.metadata = NULL =>
              r.h = allocates(h, table(msg.of)) /\ r.msg.metadata = table(msg.of)
         /\ msg.metadata # NULL => r.h = uses(h, msg.metadata) /\ r.msg = msg
         /\ r = [h |-> r.h, msg |-> r.msg]
  <1>1. table(msg.of) \in Memory /\ table(msg.of) \in Pointers
    BY ObjectFacts DEF Pointers
  <1>2. CASE msg.metadata = NULL
    <2>1. /\ allocates(h, table(msg.of)) \in Heap
          /\ allocates(h, table(msg.of)).fault = h.fault
      BY <1>1, AllocatesFacts
    <2>2. [msg EXCEPT !.metadata = table(msg.of)] \in Struct
      BY <1>1 DEF Struct
    <2>3. [msg EXCEPT !.metadata = table(msg.of)].metadata = table(msg.of)
      BY DEF Struct
    <2>4. /\ [msg EXCEPT !.metadata = table(msg.of)].of = msg.of
          /\ [msg EXCEPT !.metadata = table(msg.of)].data = msg.data
      BY DEF Struct
    <2>. QED BY <1>2, <2>1, <2>2, <2>3, <2>4, Zenon DEF metadata_insert
  <1>3. CASE msg.metadata # NULL
    BY <1>3, UsesFacts, Zenon DEF metadata_insert
  <1>. QED BY <1>2, <1>3

Refuses(msg, chance) == chance.json = "refused" \/ msg.data.is = "row"

(* The heap and the struct that h_jsonexport leaves when it exports.       *)
Read(s) == uses(s.h, s.msg.data)
Built(s) == allocates(Read(s), exported(s.msg.of))
Kept(s, chance) == IF chance.json = "exported_meta" THEN metadata_insert(Built(s), s.msg)
                   ELSE [h |-> Built(s), msg |-> s.msg]

(* h_jsonexport, by whether it refuses the message.                        *)
LEMMA JsonUnfolds ==
  ASSUME NEW s \in Run, NEW chance \in Chances, s.msg.of \in Messages
  PROVE  LET t == h_jsonexport(s, chance)
             k == Kept(s, chance)
         IN /\ t \in Run /\ t.msg.of = s.msg.of
            /\ s.h.fault # "none" => t.h.fault = s.h.fault
            /\ Refuses(s.msg, chance) => t.h = Read(s) /\ t.msg = s.msg /\ ~t.ok
            /\ ~Refuses(s.msg, chance) =>
                 /\ t.ok = s.ok
                 /\ t.h = frees(k.h, s.msg.data)
                 /\ t.msg.data = exported(s.msg.of) /\ t.msg.metadata = k.msg.metadata
                 /\ k.h \in Heap
  <1> DEFINE t == h_jsonexport(s, chance)
             k == Kept(s, chance)
             row == exported(s.msg.of)
  <1>1. row \in Memory /\ row \in Pointers
    BY ObjectFacts DEF Pointers
  <1>2. Read(s) \in Heap /\ (s.h.fault # "none" => Read(s).fault = s.h.fault)
    BY RunFacts, UsesFacts DEF Read
  <1>3. Built(s) \in Heap /\ Built(s).fault = Read(s).fault
    BY <1>1, <1>2, AllocatesFacts DEF Built
  <1>4. /\ k.h \in Heap /\ k.msg \in Struct /\ k.msg.of = s.msg.of
        /\ s.h.fault # "none" => k.h.fault = s.h.fault
    <2>1. CASE chance.json = "exported_meta"
      BY <2>1, <1>2, <1>3, RunFacts, InsertFacts, ZenonT(30) DEF Kept
    <2>2. CASE chance.json # "exported_meta"
      BY <2>2, <1>2, <1>3, RunFacts DEF Kept
    <2>. QED BY <2>1, <2>2
  <1>5. t = IF Refuses(s.msg, chance) THEN [s EXCEPT !.h = Read(s), !.ok = FALSE]
            ELSE [s EXCEPT !.h = frees(k.h, s.msg.data),
                           !.msg = [k.msg EXCEPT !.data = row]]
    BY DEF h_jsonexport, Refuses, Read, Built, Kept
  <1>7. /\ frees(k.h, s.msg.data) \in Heap
        /\ k.h.fault # "none" => frees(k.h, s.msg.data).fault = k.h.fault
    BY <1>4, RunFacts, FreesFacts
  <1> HIDE DEF t, k, row
  <1>8. CASE Refuses(s.msg, chance)
    <2>1. t \in Run /\ t.h = Read(s) /\ t.msg = s.msg /\ ~t.ok
      BY <1>2, <1>5, <1>8, Zenon DEF Run
    <2>. QED BY <2>1, <1>2, <1>8 DEF t, k
  <1>9. CASE ~Refuses(s.msg, chance)
    <2> DEFINE msg == [k.msg EXCEPT !.data = row]
    <2>1. /\ msg \in Struct /\ msg.of = s.msg.of /\ msg.data = row
          /\ msg.metadata = k.msg.metadata
      BY <1>1, <1>4, Zenon DEF Struct
    <2> HIDE DEF msg
    <2>2. t = [s EXCEPT !.h = frees(k.h, s.msg.data), !.msg = msg]
      BY <1>5, <1>9 DEF msg
    <2>3. t \in Run /\ t.h = frees(k.h, s.msg.data) /\ t.msg = msg /\ t.ok = s.ok
      BY <1>7, <2>1, <2>2, Zenon DEF Run
    <2>. QED BY <1>4, <1>7, <1>9, <2>1, <2>3 DEF t, k, row
  <1>. QED BY <1>8, <1>9

(* h_jsonexport keeps the message its own, and a fault once met.           *)
LEMMA JsonKeeps ==
  ASSUME NEW s \in Run, NEW chance \in Chances, s.msg.of \in Messages
  PROVE  /\ h_jsonexport(s, chance) \in Run
         /\ h_jsonexport(s, chance).msg.of = s.msg.of
         /\ s.h.fault # "none" => h_jsonexport(s, chance).h.fault = s.h.fault
  BY JsonUnfolds

(* The data of a sound message is allocated and has one of two kinds.      *)
LEMMA DataAlive ==
  ASSUME NEW h \in Heap, NEW msg \in Struct, Sound(h, msg)
  PROVE  /\ msg.of \in Messages
         /\ msg.data \notin h.freed /\ msg.data # NULL
         /\ msg.metadata \notin h.freed
         /\ msg.data.is # "row" => msg.data = payload(msg.of)
         /\ msg.data.is = "row" => msg.data = exported(msg.of)
         /\ msg.metadata # NULL => msg.metadata = table(msg.of)
         /\ ~setup.transactional => msg.metadata \notin h.envelopes
         /\ setup.transactional => msg.metadata \in h.envelopes
  <1>1. msg.of \in Messages
    BY DEF Sound, SoundIn
  <1>2. NULL \notin h.freed /\ NULL \notin h.envelopes
    BY HeapFacts, MemoryFacts
  <1>. QED BY <1>1, <1>2, ObjectFacts DEF Sound, SoundIn

(* h_jsonexport replaces the payload by the row and frees the payload,     *)
(* which is a fault for librdkafka's; the message is sound then.           *)
LEMMA JsonSound ==
  ASSUME NEW s \in Run, NEW chance \in Chances, s.h.fault = "none", Sound(s.h, s.msg), s.ok
  PROVE  LET t == h_jsonexport(s, chance)
             m == s.msg.of
         IN /\ Refuses(s.msg, chance) => t.h = s.h /\ t.msg = s.msg /\ ~t.ok
            /\ ~Refuses(s.msg, chance) /\ setup.transactional => t.h.fault = "foreign_free"
            /\ ~Refuses(s.msg, chance) /\ ~setup.transactional =>
                 /\ t.h.fault = "none" /\ t.ok
                 /\ Sound(t.h, t.msg) /\ Same(s.h, t.h, m)
                 /\ s.msg.data = payload(m) /\ t.msg.data = exported(m)
                 /\ t.msg.metadata = s.msg.metadata \/ s.msg.metadata = NULL
  <1> DEFINE t == h_jsonexport(s, chance)
             m == s.msg.of
             k == Kept(s, chance)
             made == chance.json = "exported_meta" /\ s.msg.metadata = NULL
  <1>1. m \in Messages /\ s.h \in Heap /\ s.msg \in Struct /\ s.msg.data \in Pointers
    BY RunFacts, DataAlive
  <1>2. Read(s) = s.h
    BY <1>1, DataAlive, UsesFacts, ZenonT(30) DEF Read
  <1>3. /\ t \in Run /\ t.msg.of = m
        /\ Refuses(s.msg, chance) => t.h = s.h /\ t.msg = s.msg /\ ~t.ok
        /\ ~Refuses(s.msg, chance) =>
             /\ t.ok
             /\ t.h = frees(k.h, s.msg.data)
             /\ t.msg.data = exported(m) /\ t.msg.metadata = k.msg.metadata
    BY <1>1, <1>2, JsonUnfolds, Zenon
  <1>4. SUFFICES ASSUME ~Refuses(s.msg, chance)
                 PROVE  IF setup.transactional THEN t.h.fault = "foreign_free"
                        ELSE /\ t.h.fault = "none"
                             /\ Sound(t.h, t.msg) /\ Same(s.h, t.h, m)
                             /\ s.msg.data = payload(m)
                             /\ t.msg.metadata = s.msg.metadata \/ s.msg.metadata = NULL
    BY <1>3
  <1>5. s.msg.data = payload(m)
    BY <1>1, <1>4, DataAlive, Zenon DEF Refuses
  <1>6. /\ Built(s) \in Heap /\ Built(s).live = s.h.live \cup {exported(m)}
        /\ Built(s).freed = s.h.freed /\ Built(s).envelopes = s.h.envelopes
        /\ Built(s).fault = "none"
    <2>1. exported(m) \in Memory
      BY <1>1, ObjectFacts
    <2>2. Built(s) = allocates(s.h, exported(m))
      BY <1>2, Zenon DEF Built
    <2>. QED BY <1>1, <2>1, <2>2, AllocatesFacts
  <1>7. /\ k.h \in Heap /\ k.h.fault = "none"
        /\ k.h.live = s.h.live \cup {exported(m)} \cup (IF made THEN {table(m)} ELSE {})
        /\ k.h.freed = s.h.freed /\ k.h.envelopes = s.h.envelopes
        /\ k.msg.metadata = IF made THEN table(m) ELSE s.msg.metadata
    <2>1. CASE chance.json # "exported_meta"
      <3>1. k.h = Built(s) /\ k.msg = s.msg
        BY <2>1 DEF Kept
      <3>. QED BY <1>6, <2>1, <3>1
    <2>2. CASE chance.json = "exported_meta" /\ s.msg.metadata # NULL
      <3>1. k.h = uses(Built(s), s.msg.metadata) /\ k.msg = s.msg
        BY <1>1, <1>6, <2>2, InsertFacts, Zenon DEF Kept
      <3>2. uses(Built(s), s.msg.metadata) = Built(s)
        BY <1>1, <1>6, DataAlive, UsesFacts
      <3>. QED BY <1>6, <2>2, <3>1, <3>2, Zenon
    <2>3. CASE made
      <3>1. k.h = allocates(Built(s), table(m)) /\ k.msg.metadata = table(m)
        BY <1>1, <1>6, <2>3, InsertFacts, Zenon DEF Kept
      <3>2. table(m) \in Memory
        BY <1>1, ObjectFacts, Zenon
      <3>3. /\ k.h \in Heap /\ k.h.fault = Built(s).fault
            /\ k.h.live = Built(s).live \cup {table(m)}
            /\ k.h.freed = Built(s).freed /\ k.h.envelopes = Built(s).envelopes
        BY <1>6, <3>1, <3>2, AllocatesFacts
      <3>. QED BY <1>6, <2>3, <3>1, <3>3, Zenon
    <2>. QED BY <2>1, <2>2, <2>3, Zenon
  <1>8. payload(m) \notin k.h.freed /\ payload(m) # NULL /\ payload(m) \in Pointers
    BY <1>1, <1>5, <1>7, DataAlive
  <1>9. t.h = frees(k.h, payload(m)) /\ t.msg.metadata = k.msg.metadata /\ t.msg.of = m
        /\ t.msg.data = exported(m)
    BY <1>3, <1>4, <1>5, Zenon
  <1> HIDE DEF k, t
  <1>10. CASE setup.transactional
    <2>1. Foreign(payload(m))
      BY <1>1, <1>10, ForeignFacts, Zenon
    <2>2. t.h = fails(k.h, "foreign_free")
      BY <1>7, <1>8, <1>9, <2>1, FreesFacts, ZenonT(30)
    <2>3. fails(k.h, "foreign_free").fault = "foreign_free"
      BY <1>7, FaultNames, FailsFacts, Zenon
    <2>. QED BY <1>10, <2>2, <2>3, Zenon
  <1>11. CASE ~setup.transactional
    <2>1. ~Foreign(payload(m))
      BY <1>1, <1>11, ForeignFacts, Zenon
    <2>2. /\ t.h.live = k.h.live \ {payload(m)} /\ t.h.freed = k.h.freed \cup {payload(m)}
          /\ t.h.envelopes = k.h.envelopes /\ t.h.fault = "none"
      <3>1. /\ frees(k.h, payload(m)).live = k.h.live \ {payload(m)}
            /\ frees(k.h, payload(m)).freed = k.h.freed \cup {payload(m)}
            /\ frees(k.h, payload(m)).envelopes = k.h.envelopes
            /\ frees(k.h, payload(m)).fault = "none"
        BY <1>7, <1>8, <2>1, FreesOwn, Zenon
      <3>. QED BY <1>9, <3>1, Zenon
    <2>3. t.h.live = (s.h.live \cup {exported(m)} \cup (IF made THEN {table(m)} ELSE {}))
                     \ {payload(m)}
      BY <1>7, <2>2, Zenon
    <2>4. t.h.freed = s.h.freed \cup {payload(m)} /\ t.h.envelopes = s.h.envelopes
      BY <1>7, <2>2, Zenon
    <2>5. t.msg.metadata = IF made THEN table(m) ELSE s.msg.metadata
      BY <1>7, <1>9, ZenonT(30)
    <2>6. Sound(t.h, t.msg)
      BY <1>1, <1>5, <1>9, <1>11, <2>3, <2>4, <2>5, ExportSound, ZenonT(30)
    <2>7. Same(s.h, t.h, m)
      BY <2>3, <2>4 DEF Same, Objects
    <2>. QED BY <1>5, <1>11, <2>2, <2>5, <2>6, <2>7, Zenon
  <1>. QED BY <1>10, <1>11
-----------------------------------------------------------------------------
Within(hooks, name, i) == \E j \in 1 .. i : hooks[j] = name
TwiceWithin(hooks, i) ==
  \E j, k \in 1 .. i : j < k /\ hooks[j] = "jsonexport" /\ hooks[k] = "jsonexport"

MarkedWithin(hooks, i) ==
  \/ Within(hooks, "xmark", i) \/ Within(hooks, "xmark_of_field", i)
  \/ Within(hooks, "xmark_unknown", i)

(* Before the first hook there is none.                                    *)
LEMMA NoPlace == \A j : j \notin 1 .. 0
  OBVIOUS

(* What the first i hooks made of msg in heap h.                           *)
Ran(h, msg, hooks, i, s) ==
  /\ s \in Run /\ s.msg.of = msg.of
  /\ s.h.fault = "none" =>
       /\ Sound(s.h, s.msg) /\ Same(h, s.h, msg.of)
       /\ \/ /\ s.h = h /\ Alike(s.msg, msg)
             /\ s.ok <=> ~Within(hooks, "jsonexport", i)
             /\ s.msg.xmark = msg.xmark \/ MarkedWithin(hooks, i)
          \/ /\ ~setup.transactional /\ Within(hooks, "jsonexport", i)
             /\ msg.data = payload(msg.of) /\ s.msg.data = exported(msg.of)
             /\ s.msg.metadata = msg.metadata \/ msg.metadata = NULL
             /\ ~s.ok => TwiceWithin(hooks, i)
  /\ s.h.fault # "none" =>
       \/ /\ s.h.fault = "foreign_free" /\ setup.transactional
          /\ Within(hooks, "jsonexport", i)
       \/ /\ s.h.fault = "no_function" /\ ~setup.transactional
          /\ Within(hooks, "xmark_unknown", i)
          /\ msg.metadata # NULL \/ Within(hooks, "jsonexport", i)

(* One more hook of the list.                                              *)
LEMMA WithinStep ==
  ASSUME NEW hooks, NEW i \in Nat
  PROVE  /\ \A name : Within(hooks, name, i + 1) <=> Within(hooks, name, i) \/ hooks[i + 1] = name
         /\ TwiceWithin(hooks, i + 1) <=>
              \/ TwiceWithin(hooks, i)
              \/ Within(hooks, "jsonexport", i) /\ hooks[i + 1] = "jsonexport"
         /\ MarkedWithin(hooks, i + 1) <=>
              \/ MarkedWithin(hooks, i)
              \/ hooks[i + 1] \in {"xmark", "xmark_of_field", "xmark_unknown"}
  <1>1. 1 .. i + 1 = (1 .. i) \cup {i + 1}
    OBVIOUS
  <1>2. \A j \in 1 .. i : j < i + 1
    OBVIOUS
  <1>3. \A name : Within(hooks, name, i + 1) <=> Within(hooks, name, i) \/ hooks[i + 1] = name
    BY <1>1 DEF Within
  <1>4. MarkedWithin(hooks, i + 1) <=>
          \/ MarkedWithin(hooks, i)
          \/ hooks[i + 1] \in {"xmark", "xmark_of_field", "xmark_unknown"}
    BY <1>3 DEF MarkedWithin
  <1>5. TwiceWithin(hooks, i + 1) <=>
          \/ TwiceWithin(hooks, i)
          \/ Within(hooks, "jsonexport", i) /\ hooks[i + 1] = "jsonexport"
    BY <1>1, <1>2 DEF Within, TwiceWithin
  <1>. QED BY <1>3, <1>4, <1>5, Zenon

(* What has the same pointers is as sound.                                 *)
LEMMA SoundAlike ==
  ASSUME NEW h, NEW x, NEW y, Alike(x, y), Sound(h, y)
  PROVE  Sound(h, x)
  BY Zenon DEF Sound, SoundIn, Alike

(* A hook that leaves heap and message as they are, but for the xmark.     *)
LEMMA RanAlike ==
  ASSUME NEW h, NEW msg, NEW hooks, NEW i \in Nat, NEW s, NEW t \in Run,
         Ran(h, msg, hooks, i, s), s.ok, t.ok = s.ok, t.h = s.h, Alike(t.msg, s.msg),
         hooks[i + 1] # "jsonexport",
         t.msg.xmark = s.msg.xmark \/ hooks[i + 1] \in {"xmark", "xmark_of_field", "xmark_unknown"}
  PROVE  Ran(h, msg, hooks, i + 1, t)
  <1>1. Within(hooks, "jsonexport", i + 1) <=> Within(hooks, "jsonexport", i)
    BY WithinStep, Zenon
  <1>2. Within(hooks, "xmark_unknown", i) => Within(hooks, "xmark_unknown", i + 1)
    BY WithinStep, Zenon
  <1>3. t.msg.of = msg.of
    BY DEF Ran, Alike
  <1>4. Sound(s.h, s.msg) => Sound(t.h, t.msg)
    BY SoundAlike, Zenon
  <1>5. Alike(s.msg, msg) => Alike(t.msg, msg)
    BY DEF Alike
  <1>6. t.msg.data = s.msg.data /\ t.msg.metadata = s.msg.metadata
    BY Zenon DEF Alike
  <1>7. s.msg.xmark = msg.xmark \/ MarkedWithin(hooks, i) =>
          t.msg.xmark = msg.xmark \/ MarkedWithin(hooks, i + 1)
    BY WithinStep, Zenon
  <1>. QED BY <1>1, <1>2, <1>3, <1>4, <1>5, <1>6, <1>7, Zenon DEF Ran

(* A fault is the last thing that a list of hooks adds to.                 *)
LEMMA RanFaulted ==
  ASSUME NEW h, NEW msg, NEW hooks, NEW i \in Nat, NEW s, NEW t \in Run,
         Ran(h, msg, hooks, i, s), s.h.fault # "none",
         t.h.fault = s.h.fault, t.msg.of = s.msg.of
  PROVE  Ran(h, msg, hooks, i + 1, t)
  <1>1. Within(hooks, "jsonexport", i) => Within(hooks, "jsonexport", i + 1)
    BY WithinStep, Zenon
  <1>2. Within(hooks, "xmark_unknown", i) => Within(hooks, "xmark_unknown", i + 1)
    BY WithinStep
  <1>. QED BY <1>1, <1>2, Zenon DEF Ran

(* Two changes to the same message are one.                                *)
LEMMA SameTransitive ==
  ASSUME NEW f, NEW g, NEW h, NEW m, Same(f, g, m), Same(g, h, m)
  PROVE  Same(f, h, m)
  BY DEF Same

(* One hook, applied to a message that is sound or whose fault is known,   *)
(* leaves it that way.                                                     *)
LEMMA HookRuns ==
  ASSUME NEW h \in Heap, NEW msg \in Struct, NEW hooks \in Seq(HookNames), NEW chance \in Chances,
         NEW i \in Nat, i + 1 \in 1 .. Len(hooks), NEW s, Ran(h, msg, hooks, i, s), s.ok,
         msg.of \in Messages
  PROVE  Ran(h, msg, hooks, i + 1, hook(hooks[i + 1], s, chance))
  <1> DEFINE name == hooks[i + 1]
             t == hook(name, s, chance)
  <1>1. name \in HookNames
    OBVIOUS
  <1>2. s \in Run /\ s.msg.of = msg.of
    BY Zenon DEF Ran
  <1>3. CASE name = "dummy"
    <2>1. t = s
      BY <1>3 DEF hook
    <2>2. Alike(t.msg, s.msg)
      BY <2>1 DEF Alike
    <2>3. t.msg.xmark = s.msg.xmark
      BY <2>1
    <2>. QED BY <1>2, <1>3, <2>1, <2>2, <2>3, RanAlike, Zenon
  <1>4. CASE name \in {"xmark", "xmark_of_field"}
    <2> DEFINE field == name = "xmark_of_field"
    <2>1. t = h_xmark(s, field, chance)
      BY <1>4 DEF hook
    <2>2. field \in BOOLEAN
      OBVIOUS
    <2> HIDE DEF field
    <2>3. /\ t \in Run /\ t.ok = s.ok /\ Alike(t.msg, s.msg)
          /\ s.h.fault # "none" => t.h.fault = s.h.fault
          /\ s.msg.metadata \notin s.h.freed => t.h = s.h
      <3>1. /\ h_xmark(s, field, chance) \in Run /\ h_xmark(s, field, chance).ok = s.ok
            /\ Alike(h_xmark(s, field, chance).msg, s.msg)
            /\ s.h.fault # "none" => h_xmark(s, field, chance).h.fault = s.h.fault
            /\ s.msg.metadata \notin s.h.freed => h_xmark(s, field, chance).h = s.h
        BY <1>2, <2>2, XmarkFacts, Zenon
      <3>. QED BY <2>1, <3>1, Zenon
    <2> HIDE DEF t
    <2>4. CASE s.h.fault # "none"
      <3>1. t.msg.of = s.msg.of
        BY <2>3 DEF Alike
      <3>. QED BY <2>3, <2>4, <3>1, RanFaulted, Zenon DEF t
    <2>5. CASE s.h.fault = "none"
      <3>1. Sound(s.h, s.msg)
        BY <2>5, Zenon DEF Ran
      <3>2. t.h = s.h
        BY <1>2, <2>3, <3>1, RunFacts, DataAlive, Zenon
      <3>. QED BY <1>4, <2>3, <3>2, RanAlike, Zenon DEF t
    <2>. QED BY <2>4, <2>5
  <1>5. CASE name = "xmark_unknown"
    <2> DEFINE found == s.msg.metadata # NULL /\ s.msg.metadata \notin s.h.envelopes
    <2>1. t = h_xmark_unknown(s, chance)
      BY <1>5 DEF hook
    <2>2. /\ t \in Run /\ t.ok = s.ok /\ Alike(t.msg, s.msg)
          /\ s.h.fault # "none" => t.h.fault = s.h.fault
          /\ s.msg.metadata \notin s.h.freed /\ ~found => t.h = s.h
          /\ s.msg.metadata \notin s.h.freed /\ s.h.fault = "none" /\ found
               => t.h.fault = "no_function"
      <3>1. UnknownRan(s, t)
        BY <1>2, <2>1, UnknownRuns, Zenon
      <3>. QED BY <3>1, Zenon DEF UnknownRan
    <2> HIDE DEF t, found
    <2>6. t.msg.of = s.msg.of
      BY <2>2 DEF Alike
    <2>3. CASE s.h.fault # "none"
      BY <2>2, <2>3, <2>6, RanFaulted DEF t
    <2>4. CASE s.h.fault = "none"
      <3>1. Sound(s.h, s.msg)
        BY <2>4 DEF Ran
      <3>2. s.msg.metadata \notin s.h.freed
        BY <1>2, <3>1, RunFacts, DataAlive
      <3>3. CASE ~found
        BY <1>5, <2>2, <3>2, <3>3, RanAlike, ZenonT(30) DEF t
      <3>4. CASE found
        <4>1. t.h.fault = "no_function"
          BY <2>2, <2>4, <3>2, <3>4, Zenon
        <4>2. ~setup.transactional
          BY <1>2, <3>1, <3>4, RunFacts, DataAlive, Zenon DEF found
        <4>3. msg.metadata # NULL \/ Within(hooks, "jsonexport", i)
          BY <2>4, <3>4 DEF Ran, Alike, found
        <4>4. /\ Within(hooks, "xmark_unknown", i + 1)
              /\ Within(hooks, "jsonexport", i) => Within(hooks, "jsonexport", i + 1)
          BY <1>5, WithinStep, Zenon
        <4>. QED BY <1>2, <2>2, <2>6, <4>1, <4>2, <4>3, <4>4, Zenon DEF Ran, t
      <3>. QED BY <3>3, <3>4
    <2>. QED BY <2>3, <2>4
  <1>6. CASE name = "jsonexport"
    <2>1. t = h_jsonexport(s, chance)
      BY <1>6, Zenon DEF hook
    <2>2. /\ t \in Run /\ t.msg.of = s.msg.of
          /\ s.h.fault # "none" => t.h.fault = s.h.fault
      <3>1. /\ h_jsonexport(s, chance) \in Run /\ h_jsonexport(s, chance).msg.of = s.msg.of
            /\ s.h.fault # "none" => h_jsonexport(s, chance).h.fault = s.h.fault
        BY <1>2, JsonKeeps, Zenon
      <3>. QED BY <2>1, <3>1, Zenon
    <2>3. /\ Within(hooks, "jsonexport", i + 1)
          /\ Within(hooks, "jsonexport", i) => TwiceWithin(hooks, i + 1)
          /\ MarkedWithin(hooks, i) => MarkedWithin(hooks, i + 1)
      BY <1>6, WithinStep, ZenonT(30)
    <2>4. CASE s.h.fault # "none"
      <3> HIDE DEF t
      <3>. QED BY <2>2, <2>4, RanFaulted, Zenon DEF t
    <2>5. CASE s.h.fault = "none"
      <3>1. Sound(s.h, s.msg) /\ Same(h, s.h, msg.of)
        BY <2>5, Zenon DEF Ran
      <3>2. /\ Refuses(s.msg, chance) => t.h = s.h /\ t.msg = s.msg /\ ~t.ok
            /\ ~Refuses(s.msg, chance) /\ setup.transactional => t.h.fault = "foreign_free"
            /\ ~Refuses(s.msg, chance) /\ ~setup.transactional =>
                 /\ t.h.fault = "none" /\ t.ok
                 /\ Sound(t.h, t.msg) /\ Same(s.h, t.h, s.msg.of)
                 /\ s.msg.data = payload(s.msg.of) /\ t.msg.data = exported(s.msg.of)
                 /\ t.msg.metadata = s.msg.metadata \/ s.msg.metadata = NULL
        BY <1>2, <2>1, <2>5, <3>1, JsonSound, ZenonT(30)
      <3> HIDE DEF t
      <3>3. CASE Refuses(s.msg, chance)
        <4>1. t.h = s.h /\ t.msg = s.msg /\ ~t.ok
          BY <3>2, <3>3, SMTT(30)
        <4>. QED BY <1>2, <2>2, <2>3, <2>5, <4>1, Zenon DEF Ran, t
      <3>4. CASE ~Refuses(s.msg, chance) /\ setup.transactional
        <4>1. t.h.fault = "foreign_free"
          BY <3>2, <3>4, Zenon
        <4>. QED BY <1>2, <2>2, <2>3, <3>4, <4>1, ZenonT(30) DEF Ran, t
      <3>5. CASE ~Refuses(s.msg, chance) /\ ~setup.transactional
        <4>1. /\ t.h.fault = "none" /\ t.ok
              /\ Sound(t.h, t.msg) /\ Same(s.h, t.h, msg.of)
              /\ s.msg.data = payload(msg.of) /\ t.msg.data = exported(msg.of)
              /\ t.msg.metadata = s.msg.metadata \/ s.msg.metadata = NULL
          BY <1>2, <3>2, <3>5, Zenon
        <4>2. Same(h, t.h, msg.of)
          BY <3>1, <4>1, SameTransitive, Zenon
        <4>3. payload(msg.of) # exported(msg.of)
          BY ObjectFacts, Zenon
        <4>4. Alike(s.msg, msg)
          BY <2>5, <4>1, <4>3, Zenon DEF Ran
        <4>5. msg.data = s.msg.data /\ msg.metadata = s.msg.metadata
          BY <4>4 DEF Alike
        <4>. QED BY <1>2, <2>2, <2>3, <3>5, <4>1, <4>2, <4>5, ZenonT(30) DEF Ran, t
      <3>. QED BY <3>3, <3>4, <3>5, Zenon
    <2>. QED BY <2>4, <2>5
  <1> HIDE DEF t, name
  <1>. QED BY <1>1, <1>3, <1>4, <1>5, <1>6, Zenon DEF HookNames, t, name
-----------------------------------------------------------------------------
HookStep(hooks, i, s, chance) == IF s.ok THEN hook(hooks[i], s, chance) ELSE s

Started(h, msg) == [h |-> h, msg |-> msg, ok |-> TRUE]

(* What hooklist_run does after the last hook.                             *)
Finished(s) ==
  IF s.ok THEN s
  ELSE [s EXCEPT !.h = metadata_free(frees(@, s.msg.data), s.msg.metadata), !.msg.data = NULL]

(* g has the state after each of the first n hooks.                        *)
Steps(g, n, start, hooks, chance) ==
  g = [i \in 0 .. n |-> IF i = 0 THEN start ELSE HookStep(hooks, i, g[i - 1], chance)]

(* The chain of the hooks' results is what its equations say.              *)
LEMMA StepsExist ==
  ASSUME NEW n \in Nat, NEW start, NEW hooks, NEW chance
  PROVE  \E g : Steps(g, n, start, hooks, chance)
  <1> DEFINE S == {k \in Nat : \E g : Steps(g, k, start, hooks, chance)}
  <1>1. 0 \in S
    <2> DEFINE g == [i \in 0 .. 0 |-> start]
    <2>1. Steps(g, 0, start, hooks, chance)
      BY DEF Steps
    <2>. QED BY <2>1
  <1>2. ASSUME NEW k \in Nat, k \in S PROVE k + 1 \in S
    <2>1. PICK f : Steps(f, k, start, hooks, chance)
      BY <1>2
    <2> DEFINE g == [i \in 0 .. k + 1 |-> IF i <= k THEN f[i] ELSE HookStep(hooks, i, f[k], chance)]
    <2>2. \A i \in 0 .. k : f[i] = IF i = 0 THEN start ELSE HookStep(hooks, i, f[i - 1], chance)
      BY <2>1, Zenon DEF Steps
    <2>3. ASSUME NEW i \in 0 .. k + 1
          PROVE  g[i] = IF i = 0 THEN start ELSE HookStep(hooks, i, g[i - 1], chance)
      <3>1. CASE i = 0
        BY <2>2, <3>1
      <3>2. CASE i \in 1 .. k
        <4>1. g[i] = f[i] /\ g[i - 1] = f[i - 1]
          BY <3>2
        <4>. QED BY <2>2, <3>2, <4>1
      <3>3. CASE i = k + 1
        <4>1. g[i] = HookStep(hooks, i, f[k], chance) /\ g[i - 1] = f[k]
          BY <3>3
        <4>. QED BY <3>3, <4>1
      <3>. QED BY <3>1, <3>2, <3>3
    <2>4. Steps(g, k + 1, start, hooks, chance)
      <3> DEFINE r == [i \in 0 .. k + 1 |-> IF i = 0 THEN start ELSE HookStep(hooks, i, g[i - 1], chance)]
      <3>1. DOMAIN g = DOMAIN r /\ \A i \in 0 .. k + 1 : g[i] = r[i]
        BY <2>3, Zenon
      <3>2. g = r
        BY <3>1
      <3>. QED BY <3>2, Zenon DEF Steps
    <2>. QED BY <2>4
  <1> HIDE DEF S
  <1>3. Nat \subseteq S
    BY <1>1, <1>2, Induction, Zenon
  <1>. QED BY <1>3 DEF S

(* hooklist_run ends with the result of the last hook, and frees after a   *)
(* refusal.                                                                *)
LEMMA HooklistUnfolds ==
  ASSUME NEW hooks, NEW h, NEW msg, NEW chance, Len(hooks) \in Nat
  PROVE  \E g : /\ Steps(g, Len(hooks), Started(h, msg), hooks, chance)
                /\ hooklist_run(hooks, h, msg, chance) = Finished(g[Len(hooks)])
  <1> DEFINE Eq(g) == g = [i \in 0 .. Len(hooks) |->
                             IF i = 0 THEN [h |-> h, msg |-> msg, ok |-> TRUE]
                             ELSE LET s == g[i - 1] IN IF s.ok THEN hook(hooks[i], s, chance) ELSE s]
             after[i \in 0 .. Len(hooks)] ==
               IF i = 0 THEN [h |-> h, msg |-> msg, ok |-> TRUE]
               ELSE LET s == after[i - 1] IN IF s.ok THEN hook(hooks[i], s, chance) ELSE s
  <1>1. hooklist_run(hooks, h, msg, chance) = Finished(after[Len(hooks)])
    BY DEF hooklist_run, Finished
  <1>2. after = CHOOSE g : Eq(g)
    BY Zenon
  <1>3. \A g : Steps(g, Len(hooks), Started(h, msg), hooks, chance) <=> Eq(g)
    BY DEF Steps, HookStep, Started
  <1>4. \E g : Eq(g)
    <2> HIDE DEF Eq
    <2>. QED BY <1>3, StepsExist, Zenon
  <1> HIDE DEF after
  <1>5. Eq(after)
    <2> HIDE DEF Eq
    <2>. QED BY <1>2, <1>4, Zenon
  <1> HIDE DEF Eq
  <1>6. Steps(after, Len(hooks), Started(h, msg), hooks, chance)
    BY <1>3, <1>5, Zenon
  <1>. QED BY <1>1, <1>6, Zenon

Outcome(h, msg, hooks, s) ==
  /\ s \in Run /\ s.msg.of = msg.of
  /\ s.h.fault = "none" /\ s.ok =>
       /\ Sound(s.h, s.msg) /\ Same(h, s.h, msg.of)
       /\ \/ /\ s.h = h /\ Alike(s.msg, msg)
             /\ s.msg.xmark = msg.xmark \/ Marks(hooks)
          \/ /\ ~setup.transactional /\ Exports(hooks)
             /\ msg.data = payload(msg.of) /\ s.msg.data = exported(msg.of)
             /\ s.msg.metadata = msg.metadata \/ msg.metadata = NULL
  /\ s.h.fault = "none" /\ ~s.ok =>
       /\ ~setup.transactional /\ Exports(hooks)
       /\ Gone(s.h, msg.of) /\ Same(h, s.h, msg.of)
       /\ s.msg.metadata # NULL => s.msg.metadata \in s.h.freed
       /\ s.msg.metadata \in {NULL, table(msg.of)}
       /\ msg.metadata # NULL => msg.metadata \in s.h.freed
       /\ s.msg.metadata # NULL /\ msg.metadata = NULL => ExportsTwice(hooks)
  /\ s.h.fault # "none" =>
       \/ s.h.fault = "foreign_free" /\ setup.transactional /\ Exports(hooks)
       \/ /\ s.h.fault = "no_function" /\ ~setup.transactional
          /\ "xmark_unknown" \in Range(hooks)
          /\ msg.metadata # NULL \/ Exports(hooks)

(* All hooks of the list are the list.                                     *)
LEMMA WithinAll ==
  ASSUME NEW hooks \in Seq(HookNames)
  PROVE  /\ \A name : Within(hooks, name, Len(hooks)) <=> name \in Range(hooks)
         /\ TwiceWithin(hooks, Len(hooks)) <=> ExportsTwice(hooks)
         /\ MarkedWithin(hooks, Len(hooks)) <=> Marks(hooks)
         /\ Len(hooks) \in Nat
  <1>1. DOMAIN hooks = 1 .. Len(hooks) /\ Len(hooks) \in Nat
    OBVIOUS
  <1>2. \A name : Within(hooks, name, Len(hooks)) <=> name \in Range(hooks)
    BY <1>1 DEF Within, Range
  <1>3. MarkedWithin(hooks, Len(hooks)) <=> Marks(hooks)
    BY <1>2 DEF MarkedWithin, Marks
  <1>4. TwiceWithin(hooks, Len(hooks)) <=> ExportsTwice(hooks)
    BY <1>1 DEF TwiceWithin, ExportsTwice
  <1>. QED BY <1>1, <1>2, <1>3, <1>4, Zenon

(* After any number of hooks the message is sound, or the fault is known.  *)
LEMMA HooksRan ==
  ASSUME NEW h \in Heap, NEW msg \in Struct, NEW hooks \in Seq(HookNames), NEW chance \in Chances,
         h.fault = "none", Sound(h, msg), NEW g,
         Steps(g, Len(hooks), Started(h, msg), hooks, chance)
  PROVE  Ran(h, msg, hooks, Len(hooks), g[Len(hooks)])
  <1> DEFINE S == {i \in Nat : i <= Len(hooks) => Ran(h, msg, hooks, i, g[i])}
  <1>0. msg.of \in Messages /\ Len(hooks) \in Nat
    BY DataAlive
  <1>1. 0 \in S
    <2>1. g[0] = Started(h, msg)
      BY <1>0 DEF Steps
    <2>2. /\ Started(h, msg) \in Run /\ Started(h, msg).h = h /\ Started(h, msg).msg = msg
          /\ Started(h, msg).ok
      BY Zenon DEF Started, Run
    <2>3. Same(h, h, msg.of) /\ Alike(msg, msg) /\ ~Within(hooks, "jsonexport", 0)
      BY NoPlace, Zenon DEF Same, Alike, Within
    <2>4. Ran(h, msg, hooks, 0, Started(h, msg))
      BY <2>2, <2>3, Zenon DEF Ran
    <2>. QED BY <2>1, <2>4, Zenon
  <1>2. ASSUME NEW i \in Nat, i \in S PROVE i + 1 \in S
    <2>1. SUFFICES ASSUME i + 1 <= Len(hooks) PROVE Ran(h, msg, hooks, i + 1, g[i + 1])
      OBVIOUS
    <2>2. i + 1 \in 1 .. Len(hooks) /\ Ran(h, msg, hooks, i, g[i])
      BY <1>0, <1>2, <2>1
    <2>3. g[i + 1] = HookStep(hooks, i + 1, g[i], chance)
      BY <1>0, <2>2 DEF Steps
    <2>4. CASE g[i].ok
      <3>1. g[i + 1] = hook(hooks[i + 1], g[i], chance)
        BY <2>3, <2>4, SMTT(30) DEF HookStep
      <3>. QED BY <1>0, <2>2, <2>4, <3>1, HookRuns, Zenon
    <2>5. CASE ~g[i].ok
      <3>1. g[i + 1] = g[i]
        BY <2>3, <2>5, Zenon DEF HookStep
      <3>2. Within(hooks, "jsonexport", i) => Within(hooks, "jsonexport", i + 1)
        BY WithinStep, Zenon
      <3>3. Within(hooks, "xmark_unknown", i) => Within(hooks, "xmark_unknown", i + 1)
        BY WithinStep, Zenon
      <3>4. TwiceWithin(hooks, i) => TwiceWithin(hooks, i + 1)
        BY WithinStep
      <3>5. MarkedWithin(hooks, i) => MarkedWithin(hooks, i + 1)
        BY WithinStep, Zenon
      <3>. QED BY <2>2, <2>5, <3>1, <3>2, <3>3, <3>4, <3>5, ZenonT(30) DEF Ran
    <2>. QED BY <2>4, <2>5, Zenon
  <1> HIDE DEF S
  <1>3. Nat \subseteq S
    BY <1>1, <1>2, Induction, Zenon
  <1>. QED BY <1>0, <1>3 DEF S

(* A refusal is freed where hooklist_run ends.                             *)
LEMMA FinishedFacts ==
  ASSUME NEW s \in Run, ~s.ok
  PROVE  LET t == Finished(s) IN
         /\ t.h = metadata_free(frees(s.h, s.msg.data), s.msg.metadata)
         /\ t.msg.of = s.msg.of /\ t.msg.metadata = s.msg.metadata /\ t.msg \in Struct
         /\ ~t.ok
         /\ t.h \in Heap => t \in Run
  <1> DEFINE g == metadata_free(frees(s.h, s.msg.data), s.msg.metadata)
             t == Finished(s)
  <1>1. t = [s EXCEPT !.h = g, !.msg.data = NULL]
    BY DEF Finished
  <1>2. NULL \in Pointers
    BY DEF Pointers
  <1> HIDE DEF g, t
  <1>3. /\ t.h = g /\ t.ok = s.ok /\ t.msg.of = s.msg.of /\ t.msg.metadata = s.msg.metadata
        /\ t.msg \in Struct
    BY <1>1, <1>2 DEF Run, Struct
  <1>4. t.h \in Heap => t \in Run
    BY <1>1, <1>2, ZenonT(30) DEF Run, Struct
  <1>. QED BY <1>3, <1>4 DEF g, t

(* free() of the data and metadata_free, as after every refusal.           *)
Released(h, msg) == metadata_free(frees(h, msg.data), msg.metadata)

(* free() of the data and metadata_free() of the table leave nothing of    *)
(* the message, or fault on librdkafka's payload.                          *)
LEMMA ReleasedFacts ==
  ASSUME NEW h \in Heap, NEW msg \in Struct, h.fault = "none", Sound(h, msg)
  PROVE  /\ Released(h, msg) \in Heap
         /\ setup.transactional => Released(h, msg).fault = "foreign_free"
         /\ ~setup.transactional =>
              /\ Released(h, msg).fault = "none"
              /\ Gone(Released(h, msg), msg.of)
              /\ Same(h, Released(h, msg), msg.of)
              /\ msg.metadata # NULL => msg.metadata \in Released(h, msg).freed
  <1> DEFINE m == msg.of
             g == frees(h, msg.data)
             r == Released(h, msg)
  <1>1. m \in Messages /\ msg.data \notin h.freed /\ msg.data # NULL /\ msg.data \in Pointers
        /\ msg.metadata \in Pointers
    BY DataAlive, Zenon DEF Struct
  <1>2. msg.data \in {payload(m), exported(m)} /\ msg.metadata \in {NULL, table(m)}
    BY DEF Sound, SoundIn
  <1>3. g \in Heap /\ r \in Heap /\ (g.fault # "none" => r.fault = g.fault)
        /\ (msg.metadata = NULL => r = g)
    BY <1>1, <1>2, FreesFacts, MetadataFreeFacts, Zenon DEF Released
  <1>4. CASE setup.transactional
    <2>1. msg.data = payload(m)
      BY <1>4, Zenon DEF Sound, SoundIn
    <2>2. Foreign(msg.data)
      BY <1>1, <1>4, <2>1, ForeignFacts, Zenon
    <2>3. g = fails(h, "foreign_free")
      BY <1>1, <2>2, FreesFacts
    <2>4. fails(h, "foreign_free").fault = "foreign_free"
      BY FaultNames, FailsFacts, ZenonT(30)
    <2>. QED BY <1>3, <1>4, <2>3, <2>4, Zenon
  <1>5. CASE ~setup.transactional
    <2>1. ~Foreign(msg.data)
      BY <1>1, <1>2, <1>5, ForeignFacts, Zenon
    <2>2. /\ g.live = h.live \ {msg.data} /\ g.freed = h.freed \cup {msg.data}
          /\ g.envelopes = h.envelopes /\ g.fault = "none"
      BY <1>1, <2>1, FreesFacts, Zenon
    <2>3. CASE msg.metadata = NULL
      <3>1. r = g
        BY <1>3, <2>3, ZenonT(30)
      <3>2. Gone(g, m)
        BY <1>1, <1>5, <2>2, <2>3, GoneAfter, Zenon
      <3>3. Same(h, g, m)
        BY <1>2, <2>2, Zenon DEF Same, Objects
      <3>. QED BY <1>3, <1>5, <2>2, <2>3, <3>1, <3>2, <3>3, Zenon
    <2>4. CASE msg.metadata = table(m)
      <3>1. table(m) \in Pointers /\ table(m) # NULL /\ table(m) # msg.data
        BY <1>1, <1>2, ObjectFacts DEF Pointers
      <3>2. table(m) \notin g.freed /\ table(m) \notin g.envelopes
        BY <1>5, <2>2, <3>1, ZenonT(30) DEF Sound, SoundIn
      <3>3. r = frees(g, table(m))
        BY <1>1, <1>3, <2>4, <3>1, <3>2, MetadataFreeFacts DEF Released
      <3>4. ~Foreign(table(m))
        BY <1>1, ForeignFacts, ZenonT(30)
      <3>5. /\ r.live = g.live \ {table(m)} /\ r.freed = g.freed \cup {table(m)}
            /\ r.envelopes = g.envelopes /\ r.fault = g.fault
        <4> HIDE DEF g, r
        <4>1. /\ frees(g, table(m)).live = g.live \ {table(m)}
              /\ frees(g, table(m)).freed = g.freed \cup {table(m)}
              /\ frees(g, table(m)).envelopes = g.envelopes
              /\ frees(g, table(m)).fault = g.fault
          BY <1>3, <3>1, <3>2, <3>4, FreesOwn, Zenon
        <4>. QED BY <3>3, <4>1, Zenon
      <3>6. r.live = h.live \ {msg.data, table(m)} /\ r.freed = h.freed \cup {msg.data, table(m)}
        BY <2>2, <3>5, Zenon
      <3>7. r.envelopes = h.envelopes /\ r.fault = "none"
        BY <2>2, <3>5, ZenonT(30)
      <3>8. Gone(r, m)
        BY <1>1, <1>5, <3>6, GoneAfter, Zenon
      <3>9. Same(h, r, m)
        BY <1>2, <3>6, <3>7, Zenon DEF Same, Objects
      <3>. QED BY <1>3, <1>5, <2>4, <3>6, <3>7, <3>8, <3>9, ZenonT(30)
    <2>. QED BY <1>2, <2>3, <2>4, Zenon
  <1>. QED BY <1>4, <1>5, Zenon

(* What a list of hooks, of any length, does to a sound message.           *)
LEMMA HooksOutcome ==
  ASSUME NEW h \in Heap, NEW msg \in Struct, NEW hooks \in Seq(HookNames), NEW chance \in Chances,
         h.fault = "none", Sound(h, msg)
  PROVE  Outcome(h, msg, hooks, hooklist_run(hooks, h, msg, chance))
  <1> DEFINE n == Len(hooks)
             r == hooklist_run(hooks, h, msg, chance)
             m == msg.of
  <1>1. n \in Nat
    OBVIOUS
  <1>2. PICK g : Steps(g, n, Started(h, msg), hooks, chance) /\ r = Finished(g[n])
    BY <1>1, HooklistUnfolds, Zenon
  <1> DEFINE s == g[n]
  <1>3. Ran(h, msg, hooks, n, s)
    BY <1>2, HooksRan
  <1>4. /\ Within(hooks, "jsonexport", n) <=> Exports(hooks)
        /\ Within(hooks, "xmark_unknown", n) <=> "xmark_unknown" \in Range(hooks)
        /\ TwiceWithin(hooks, n) <=> ExportsTwice(hooks)
        /\ MarkedWithin(hooks, n) <=> Marks(hooks)
    BY WithinAll, Zenon DEF Exports
  <1>5. s \in Run /\ s.msg.of = m /\ m \in Messages
    BY <1>3, DataAlive, Zenon DEF Ran
  <1> HIDE DEF n, r, s
  <1>6. CASE s.ok
    <2>1. r = s
      BY <1>2, <1>6, Zenon DEF Finished, s
    <2>. QED BY <1>3, <1>4, <1>5, <1>6, <2>1, Zenon DEF Ran, Outcome, r
  <1>7. CASE ~s.ok
    <2>1. /\ r.h = Released(s.h, s.msg)
          /\ r.msg.of = m /\ r.msg.metadata = s.msg.metadata
          /\ ~r.ok
          /\ r.h \in Heap => r \in Run
      BY <1>2, <1>5, <1>7, FinishedFacts, Zenon DEF Released, s
    <2>2. CASE s.h.fault # "none"
      <3>1. frees(s.h, s.msg.data) \in Heap /\ frees(s.h, s.msg.data).fault = s.h.fault
        BY <1>5, <2>2, RunFacts, FreesFacts, Zenon
      <3>2. s.msg.metadata \in Pointers
        BY <1>5, RunFacts, Zenon
      <3>3. r.h \in Heap /\ r.h.fault = s.h.fault
        BY <2>1, <2>2, <3>1, <3>2, MetadataFreeFacts, ZenonT(30) DEF Released
      <3>. QED BY <1>3, <1>4, <2>1, <2>2, <3>3, ZenonT(30) DEF Ran, Outcome, r
    <2>3. CASE s.h.fault = "none"
      <3>1. Sound(s.h, s.msg) /\ Same(h, s.h, m) /\ Exports(hooks)
        BY <1>3, <1>4, <1>7, <2>3, Zenon DEF Ran
      <3>2. /\ r.h \in Heap
            /\ setup.transactional => r.h.fault = "foreign_free"
            /\ ~setup.transactional =>
                 /\ r.h.fault = "none" /\ Gone(r.h, m) /\ Same(s.h, r.h, m)
                 /\ s.msg.metadata # NULL => s.msg.metadata \in r.h.freed
        BY <1>5, <2>1, <2>3, <3>1, RunFacts, ReleasedFacts, SMTT(30)
      <3>3. CASE setup.transactional
        BY <2>1, <3>1, <3>2, <3>3, ZenonT(30) DEF Outcome, r
      <3>4. CASE ~setup.transactional
        <4>1. Same(h, r.h, m)
          BY <3>1, <3>2, <3>4, SameTransitive, ZenonT(30)
        <4>2. \/ s.msg.metadata = msg.metadata
              \/ msg.metadata = NULL /\ ExportsTwice(hooks)
          BY <1>3, <1>4, <1>7, <2>3, Zenon DEF Ran, Alike
        <4>3. s.msg.metadata \in {NULL, table(m)}
          BY <1>5, <3>1, Zenon DEF Sound, SoundIn
        <4>. QED BY <2>1, <3>1, <3>2, <3>4, <4>1, <4>2, <4>3, ZenonT(30) DEF Outcome, r
      <3>. QED BY <3>3, <3>4, Zenon
    <2>. QED BY <2>2, <2>3, Zenon
  <1>. QED BY <1>6, <1>7
-----------------------------------------------------------------------------
(* The first i hooks with a message whose pointer to metadata, md, is left *)
(* over from one that was refused.                                         *)
RanStale(md, m, hooks, i, s) ==
  /\ s \in Run /\ s.msg.of = m
  /\ s.h.fault \in {"none", "use_after_free"}
  /\ s.h.fault = "none" =>
       /\ s.msg.metadata = md /\ md \in s.h.freed
       /\ s.msg.data \in {payload(m), exported(m)} /\ s.msg.data \notin s.h.freed
       /\ s.ok => /\ ~TwiceWithin(hooks, i)
                  /\ Within(hooks, "jsonexport", i) => s.msg.data = exported(m)
                  /\ s.msg.data = payload(m) => exported(m) \notin s.h.freed

(* A hook that leaves the pointers alone leaves a stale table stale.       *)
LEMMA StaleAlike ==
  ASSUME NEW md, NEW m, NEW hooks, NEW i \in Nat, NEW s, NEW t \in Run,
         RanStale(md, m, hooks, i, s), s.ok, t.ok = s.ok, Alike(t.msg, s.msg),
         hooks[i + 1] # "jsonexport",
         t.h = s.h \/ t.h.fault = "use_after_free"
  PROVE  RanStale(md, m, hooks, i + 1, t)
  <1>1. Within(hooks, "jsonexport", i + 1) <=> Within(hooks, "jsonexport", i)
    BY WithinStep, Zenon
  <1>2. TwiceWithin(hooks, i + 1) <=> TwiceWithin(hooks, i)
    BY WithinStep, Zenon
  <1>. QED BY <1>1, <1>2, Zenon DEF RanStale, Alike

(* h_jsonexport with a stale table: refuses, or faults when it stores      *)
(* metadata, or makes the row.                                             *)
LEMMA JsonStale ==
  ASSUME NEW s \in Run, NEW chance \in Chances, s.h.fault = "none", s.ok, ~setup.transactional,
         s.msg.of \in Messages, s.msg.metadata \in s.h.freed,
         s.msg.data \in {payload(s.msg.of), exported(s.msg.of)}, s.msg.data \notin s.h.freed,
         s.msg.data = payload(s.msg.of) => exported(s.msg.of) \notin s.h.freed
  PROVE  LET t == h_jsonexport(s, chance)
             m == s.msg.of
         IN /\ Refuses(s.msg, chance) => t.h = s.h /\ t.msg = s.msg /\ ~t.ok
            /\ ~Refuses(s.msg, chance) =>
                 /\ s.msg.data = payload(m)
                 /\ \/ t.h.fault = "use_after_free"
                    \/ /\ t.h.fault = "none" /\ t.ok
                       /\ t.msg.metadata = s.msg.metadata /\ t.msg.metadata \in t.h.freed
                       /\ t.msg.data = exported(m) /\ exported(m) \notin t.h.freed
  <1> DEFINE t == h_jsonexport(s, chance)
             m == s.msg.of
             k == Kept(s, chance)
  <1>1. Read(s) = s.h
    BY RunFacts, UsesFacts, Zenon DEF Read
  <1>2. /\ t \in Run
        /\ Refuses(s.msg, chance) => t.h = s.h /\ t.msg = s.msg /\ ~t.ok
        /\ ~Refuses(s.msg, chance) =>
             /\ t.ok
             /\ t.h = frees(k.h, s.msg.data)
             /\ t.msg.data = exported(m) /\ t.msg.metadata = k.msg.metadata
             /\ k.h \in Heap
    BY <1>1, JsonUnfolds, Zenon
  <1>3. SUFFICES ASSUME ~Refuses(s.msg, chance)
                 PROVE  /\ s.msg.data = payload(m)
                        /\ \/ t.h.fault = "use_after_free"
                           \/ /\ t.h.fault = "none"
                              /\ t.msg.metadata = s.msg.metadata /\ t.msg.metadata \in t.h.freed
                              /\ exported(m) \notin t.h.freed
    BY <1>2, Zenon
  <1>4. s.msg.data = payload(m)
    BY <1>3, ObjectFacts DEF Refuses
  <1>5. /\ Built(s) \in Heap /\ Built(s).fault = "none" /\ Built(s).freed = s.h.freed
    <2>1. exported(m) \in Memory
      BY ObjectFacts, Zenon
    <2>. QED BY <1>1, <2>1, RunFacts, AllocatesFacts DEF Built
  <1>6. payload(m) \in Pointers /\ payload(m) # NULL /\ payload(m) # exported(m)
    BY ObjectFacts, Zenon DEF Pointers
  <1>7. s.msg.metadata # NULL /\ s.msg \in Struct
    BY RunFacts, Zenon
  <1>8. CASE chance.json = "exported_meta"
    <2>1. k.h = uses(Built(s), s.msg.metadata)
      BY <1>5, <1>7, <1>8, InsertFacts, Zenon DEF Kept
    <2>2. uses(Built(s), s.msg.metadata) = fails(Built(s), "use_after_free")
      BY <1>5, UsesFacts
    <2>3. fails(Built(s), "use_after_free").fault = "use_after_free"
      BY <1>5, FaultNames, FailsFacts, ZenonT(30)
    <2>4. k.h \in Heap /\ k.h.fault = "use_after_free"
      BY <1>2, <1>3, <2>1, <2>2, <2>3, Zenon
    <2> HIDE DEF k
    <2>5. frees(k.h, payload(m)).fault = "use_after_free"
      BY <1>6, <2>4, FreesFacts, Zenon
    <2>. QED BY <1>2, <1>3, <1>4, <2>5, Zenon
  <1>9. CASE chance.json # "exported_meta"
    <2>1. k.h = Built(s) /\ k.msg = s.msg
      BY <1>9, ZenonT(30) DEF Kept
    <2>2. ~Foreign(payload(m)) /\ payload(m) \notin Built(s).freed
      BY <1>4, <1>5, ForeignFacts, ZenonT(30)
    <2>3. /\ frees(Built(s), payload(m)).freed = s.h.freed \cup {payload(m)}
          /\ frees(Built(s), payload(m)).fault = "none"
      <3>1. /\ frees(Built(s), payload(m)).freed = Built(s).freed \cup {payload(m)}
            /\ frees(Built(s), payload(m)).fault = Built(s).fault
        BY <1>5, <1>6, <2>2, FreesOwn, Zenon
      <3>. QED BY <1>5, <3>1, Zenon
    <2>. QED BY <1>2, <1>3, <1>4, <1>6, <2>1, <2>3, Zenon
  <1>. QED BY <1>8, <1>9, Zenon

(* One hook on a message with a stale table.                               *)
LEMMA HookStale ==
  ASSUME NEW hooks \in Seq(HookNames), NEW chance \in Chances, NEW i \in Nat,
         i + 1 \in 1 .. Len(hooks), NEW m \in Messages, NEW md, ~setup.transactional,
         NEW s, RanStale(md, m, hooks, i, s), s.ok
  PROVE  RanStale(md, m, hooks, i + 1, hook(hooks[i + 1], s, chance))
  <1> DEFINE name == hooks[i + 1]
             t == hook(name, s, chance)
  <1>1. name \in HookNames
    OBVIOUS
  <1>2. s \in Run /\ s.msg.of = m /\ s.h.fault \in {"none", "use_after_free"}
    BY DEF RanStale
  <1>7. s.h.fault = "none" => fails(s.h, "use_after_free").fault = "use_after_free"
    BY <1>2, RunFacts, FaultNames, FailsFacts, Zenon
  <1>3. CASE name = "dummy"
    <2>1. t = s
      BY <1>3, Zenon DEF hook
    <2>2. Alike(t.msg, s.msg)
      BY <2>1 DEF Alike
    <2>. QED BY <1>2, <1>3, <2>1, <2>2, StaleAlike, Zenon
  <1>4. CASE name \in {"xmark", "xmark_of_field"}
    <2> DEFINE field == name = "xmark_of_field"
    <2>1. t = h_xmark(s, field, chance)
      BY <1>4, Zenon DEF hook
    <2>2. field \in BOOLEAN
      OBVIOUS
    <2> HIDE DEF field
    <2>3. /\ t \in Run /\ t.ok = s.ok /\ Alike(t.msg, s.msg)
          /\ s.h.fault # "none" => t.h.fault = s.h.fault
          /\ t.h = s.h \/ t.h = fails(s.h, "use_after_free")
      <3>1. /\ h_xmark(s, field, chance) \in Run /\ h_xmark(s, field, chance).ok = s.ok
            /\ Alike(h_xmark(s, field, chance).msg, s.msg)
            /\ s.h.fault # "none" => h_xmark(s, field, chance).h.fault = s.h.fault
            /\ \/ h_xmark(s, field, chance).h = s.h
               \/ h_xmark(s, field, chance).h = fails(s.h, "use_after_free")
        BY <1>2, <2>2, XmarkFacts, Zenon
      <3>. QED BY <2>1, <3>1, Zenon
    <2> HIDE DEF t
    <2>4. t.h = s.h \/ t.h.fault = "use_after_free"
      BY <1>2, <1>7, <2>3
    <2>. QED BY <1>4, <2>3, <2>4, StaleAlike, ZenonT(30) DEF t
  <1>5. CASE name = "xmark_unknown"
    <2>1. t = h_xmark_unknown(s, chance)
      BY <1>5 DEF hook
    <2>2. /\ t \in Run /\ t.ok = s.ok /\ Alike(t.msg, s.msg)
          /\ s.h.fault # "none" => t.h.fault = s.h.fault
          /\ s.msg.metadata \in s.h.freed /\ s.h.fault = "none" => t.h.fault = "use_after_free"
      <3>1. UnknownRan(s, t)
        BY <1>2, <2>1, UnknownRuns, Zenon
      <3>. QED BY <3>1, Zenon DEF UnknownRan
    <2> HIDE DEF t
    <2>3. t.h.fault = "use_after_free"
      BY <1>2, <2>2 DEF RanStale
    <2>. QED BY <1>5, <2>2, <2>3, StaleAlike, Zenon DEF t
  <1>6. CASE name = "jsonexport"
    <2>1. t = h_jsonexport(s, chance)
      BY <1>6 DEF hook
    <2>2. /\ t \in Run /\ t.msg.of = m
          /\ s.h.fault # "none" => t.h.fault = s.h.fault
      <3>1. /\ h_jsonexport(s, chance) \in Run /\ h_jsonexport(s, chance).msg.of = m
            /\ s.h.fault # "none" => h_jsonexport(s, chance).h.fault = s.h.fault
        BY <1>2, JsonKeeps, Zenon
      <3>. QED BY <2>1, <3>1, Zenon
    <2>3. CASE s.h.fault # "none"
      <3>1. t.h.fault = "use_after_free"
        BY <1>2, <2>2, <2>3, Zenon
      <3> HIDE DEF t
      <3>. QED BY <2>2, <3>1, Zenon DEF RanStale, t
    <2>4. CASE s.h.fault = "none"
      <3>1. /\ s.msg.metadata = md /\ md \in s.h.freed
            /\ s.msg.data \in {payload(m), exported(m)} /\ s.msg.data \notin s.h.freed
            /\ ~TwiceWithin(hooks, i)
            /\ Within(hooks, "jsonexport", i) => s.msg.data = exported(m)
            /\ s.msg.data = payload(m) => exported(m) \notin s.h.freed
        BY <2>4, SMTT(30) DEF RanStale
      <3>2. /\ Refuses(s.msg, chance) => t.h = s.h /\ t.msg = s.msg /\ ~t.ok
            /\ ~Refuses(s.msg, chance) =>
                 /\ s.msg.data = payload(m)
                 /\ \/ t.h.fault = "use_after_free"
                    \/ /\ t.h.fault = "none" /\ t.ok
                       /\ t.msg.metadata = s.msg.metadata /\ t.msg.metadata \in t.h.freed
                       /\ t.msg.data = exported(m) /\ exported(m) \notin t.h.freed
        BY <1>2, <2>1, <2>4, <3>1, JsonStale, ZenonT(30)
      <3>3. payload(m) # exported(m)
        BY ObjectFacts
      <3>4. TwiceWithin(hooks, i + 1) => Within(hooks, "jsonexport", i)
        BY <3>1, WithinStep, Zenon
      <3> HIDE DEF t
      <3>5. CASE Refuses(s.msg, chance)
        BY <2>2, <2>4, <3>1, <3>2, <3>5, ZenonT(30) DEF RanStale, t
      <3>6. CASE ~Refuses(s.msg, chance)
        BY <2>2, <3>1, <3>2, <3>3, <3>4, <3>6, ZenonT(30) DEF RanStale, t
      <3>. QED BY <3>5, <3>6, Zenon
    <2>. QED BY <2>3, <2>4
  <1> HIDE DEF t, name
  <1>. QED BY <1>1, <1>3, <1>4, <1>5, <1>6, Zenon DEF HookNames, t, name

(* With two jsonexport in the list, such a message never gets through.     *)
LEMMA StaleOutcome ==
  ASSUME NEW h \in Heap, NEW msg \in Struct, NEW hooks \in Seq(HookNames), NEW chance \in Chances,
         h.fault = "none", msg.of \in Messages, ~setup.transactional, ExportsTwice(hooks),
         msg.metadata \in h.freed, msg.data = payload(msg.of),
         payload(msg.of) \notin h.freed, exported(msg.of) \notin h.freed
  PROVE  /\ hooklist_run(hooks, h, msg, chance) \in Run
         /\ hooklist_run(hooks, h, msg, chance).h.fault = "use_after_free"
  <1> DEFINE n == Len(hooks)
             r == hooklist_run(hooks, h, msg, chance)
             m == msg.of
             md == msg.metadata
  <1>1. n \in Nat
    BY SMTT(30)
  <1>2. PICK g : Steps(g, n, Started(h, msg), hooks, chance) /\ r = Finished(g[n])
    BY <1>1, HooklistUnfolds, Zenon
  <1>3. RanStale(md, m, hooks, n, g[n])
    <2> DEFINE S == {i \in Nat : i <= n => RanStale(md, m, hooks, i, g[i])}
    <2>1. 0 \in S
      <3>1. g[0] = Started(h, msg)
        BY <1>1, <1>2 DEF Steps
      <3>2. /\ Started(h, msg) \in Run /\ Started(h, msg).h = h /\ Started(h, msg).msg = msg
            /\ Started(h, msg).ok
        BY Zenon DEF Started, Run
      <3>3. ~Within(hooks, "jsonexport", 0) /\ ~TwiceWithin(hooks, 0)
        BY DEF Within, TwiceWithin
      <3>. QED BY <3>1, <3>2, <3>3, Zenon DEF RanStale
    <2>2. ASSUME NEW i \in Nat, i \in S PROVE i + 1 \in S
      <3>1. SUFFICES ASSUME i + 1 <= n PROVE RanStale(md, m, hooks, i + 1, g[i + 1])
        OBVIOUS
      <3>2. i + 1 \in 1 .. n /\ RanStale(md, m, hooks, i, g[i])
        BY <1>1, <2>2, <3>1
      <3>3. g[i + 1] = HookStep(hooks, i + 1, g[i], chance)
        BY <1>1, <1>2, <3>2 DEF Steps
      <3>4. CASE g[i].ok
        <4>1. g[i + 1] = hook(hooks[i + 1], g[i], chance)
          BY <3>3, <3>4, Zenon DEF HookStep
        <4>. QED BY <3>2, <3>4, <4>1, HookStale, Zenon
      <3>5. CASE ~g[i].ok
        <4>1. g[i + 1] = g[i]
          BY <3>3, <3>5, Zenon DEF HookStep
        <4>. QED BY <3>2, <3>5, <4>1, Zenon DEF RanStale
      <3>. QED BY <3>4, <3>5, Zenon
    <2> HIDE DEF S
    <2>3. Nat \subseteq S
      BY <2>1, <2>2, Induction, Zenon
    <2>. QED BY <1>1, <2>3 DEF S
  <1> DEFINE s == g[n]
  <1>4. s \in Run /\ s.h.fault \in {"none", "use_after_free"}
    BY <1>3, Zenon DEF RanStale
  <1>5. TwiceWithin(hooks, n)
    BY WithinAll, Zenon
  <1> HIDE DEF n, r, s
  <1>6. CASE s.ok
    <2>1. r = s
      BY <1>2, <1>6, Zenon DEF Finished, s
    <2>. QED BY <1>3, <1>4, <1>5, <1>6, <2>1, Zenon DEF RanStale, r, s
  <1>7. CASE ~s.ok
    <2>1. /\ r.h = Released(s.h, s.msg)
          /\ r.h \in Heap => r \in Run
      BY <1>2, <1>4, <1>7, FinishedFacts, Zenon DEF Released, s
    <2> DEFINE f == frees(s.h, s.msg.data)
    <2>2. f \in Heap /\ (s.h.fault # "none" => f.fault = s.h.fault)
      BY <1>4, RunFacts, FreesFacts, Zenon
    <2>3. s.msg.metadata \in Pointers
      BY <1>4, RunFacts, Zenon
    <2>4. CASE s.h.fault # "none"
      <3> HIDE DEF f
      <3>1. metadata_free(f, s.msg.metadata) \in Heap
            /\ metadata_free(f, s.msg.metadata).fault = "use_after_free"
        BY <1>4, <2>2, <2>3, <2>4, MetadataFreeFacts, Zenon
      <3>. QED BY <2>1, <3>1, Zenon DEF Released, r, f
    <2>5. CASE s.h.fault = "none"
      <3>1. /\ s.msg.metadata = md /\ md \in s.h.freed
            /\ s.msg.data \in {payload(m), exported(m)} /\ s.msg.data \notin s.h.freed
        BY <1>3, <2>5, ZenonT(30) DEF RanStale, s
      <3>2. ~Foreign(s.msg.data) /\ s.msg.data # NULL /\ s.msg.data \in Pointers
        BY <3>1, ForeignFacts, ObjectFacts, SMTT(30) DEF Pointers
      <3>3. f.fault = "none" /\ f.freed = s.h.freed \cup {s.msg.data}
        <4>1. s.h \in Heap
          BY <1>4, RunFacts, Zenon
        <4>2. f.fault = s.h.fault /\ f.freed = s.h.freed \cup {s.msg.data}
          BY <3>1, <3>2, <4>1, FreesOwn, Zenon
        <4>. QED BY <2>5, <4>2, Zenon
      <3>4. md # NULL /\ md \in f.freed
        BY <1>4, <3>1, <3>3, RunFacts, Zenon
      <3> HIDE DEF f
      <3>5. metadata_free(f, md) = fails(f, "use_after_free")
        BY <2>2, <2>3, <3>1, <3>4, MetadataFreeFacts, Zenon
      <3>6. fails(f, "use_after_free") \in Heap /\ fails(f, "use_after_free").fault = "use_after_free"
        BY <2>2, <3>3, FaultNames, FailsFacts, Zenon
      <3>. QED BY <2>1, <3>1, <3>5, <3>6, Zenon DEF Released, r, f
    <2>. QED BY <2>4, <2>5, Zenon
  <1>. QED BY <1>6, <1>7, Zenon
=============================================================================
