------------------------ MODULE KafkaOffsetsProofs ------------------------
(***************************************************************************)
(* The transactional mode of kafka.c, for any partition and any number of  *)
(* crashes: with one producer thread and an output that has a message when *)
(* produce returns it delivers at least once; with any number of threads   *)
(* and any output, messages are lost by ignored errors and by crashes      *)
(* only; and with an output that answers, each crash loses less than there *)
(* are threads.                                                            *)
(***************************************************************************)
EXTENDS KafkaOffsets, FunctionTheorems, FiniteSetTheorems, TLAPS

(* The first offset no producer has taken yet.                             *)
NextOut == position - Len(queue)

(***************************************************************************)
(* The inductive invariant: the lane holds a run of consecutive offsets    *)
(* that ends before position; the producer holds the one just before it;   *)
(* everything earlier was delivered or refused; and neither the stored nor *)
(* the committed offset is past what the producer holds.                   *)
(***************************************************************************)
KInv ==
  /\ TypeOK
  /\ \A i \in 1..Len(queue) : queue[i] = NextOut + i - 1
  /\ NextOut >= 0
  /\ \A p \in Producers : held[p] # None => held[p] = NextOut - 1
  /\ \A o \in Offsets :
       o < NextOut /\ (\A p \in Producers : held[p] # o \/ done[p]) => o \in delivered \cup failed
  /\ stored <= NextOut /\ committed <= NextOut
  /\ \A p \in Producers : held[p] # None => stored <= held[p] /\ committed <= held[p]

USE KafkaAssumption DEF config

(* The first start of the process.                                         *)
LEMMA KInitInv == Init => KInv
  BY DEF Init, KInv, TypeOK, NextOut, Offsets, None

(* Polling a message lengthens the run at its end.                         *)
LEMMA ConsumeKeeps == KInv /\ transactional_consumer_consume => KInv'
<1> SUFFICES ASSUME KInv, transactional_consumer_consume PROVE KInv'
  OBVIOUS
<1> USE DEF KInv, transactional_consumer_consume
<1>1. position \in Offsets /\ queue \in Seq(Offsets)
  BY DEF TypeOK, Offsets
<1>2. Len(queue') = Len(queue) + 1 /\ NextOut' = NextOut
  BY <1>1 DEF NextOut, Offsets
<1>3. TypeOK'
  BY <1>1 DEF TypeOK, Offsets
<1>4. \A i \in 1..Len(queue)' : queue'[i] = NextOut' + i - 1
  <2> SUFFICES ASSUME NEW i \in 1..Len(queue) + 1 PROVE queue'[i] = NextOut + i - 1
    BY <1>2
  <2>1. CASE i \in 1..Len(queue)
    BY <1>1, <2>1
  <2>2. CASE i = Len(queue) + 1
    BY <1>1, <2>2 DEF NextOut, Offsets
  <2> QED
    BY <1>1, <2>1, <2>2
<1> QED
  BY <1>2, <1>3, <1>4, Zenon

(* The producer takes the first of the run, having held nothing.           *)
LEMMA GetKeeps ==
  ASSUME Single, NEW p \in Producers PROVE KInv /\ queue_get(p) => KInv'
<1> SUFFICES ASSUME KInv, queue_get(p) PROVE KInv'
  OBVIOUS
<1> USE DEF KInv, queue_get
<1>1. queue \in Seq(Offsets) /\ queue # <<>> /\ Len(queue) \in Nat /\ Len(queue) > 0
  BY DEF TypeOK
<1>2. /\ Head(queue) = queue[1] /\ queue[1] = NextOut /\ NextOut \in Offsets
      /\ Len(queue') = Len(queue) - 1 /\ NextOut' = NextOut + 1
      /\ queue' \in Seq(Offsets)
      /\ \A i \in 1..Len(queue') : queue'[i] = queue[i+1]
  BY <1>1 DEF TypeOK, NextOut, Offsets
<1>3. \A q \in Producers : q = p /\ held'[q] = NextOut /\ done[q] = FALSE
  BY <1>2 DEF Single, TypeOK
<1>4. TypeOK'
  BY <1>1, <1>2, <1>3 DEF TypeOK, Offsets, None
<1>5. \A i \in 1..Len(queue)' : queue'[i] = NextOut' + i - 1
  <2> SUFFICES ASSUME NEW i \in 1..Len(queue) - 1 PROVE queue[i+1] = NextOut + i
    BY <1>2 DEF Offsets
  <2>1. i + 1 \in 1..Len(queue) /\ (i + 1) - 1 = i
    BY <1>1
  <2>2. queue[i+1] = NextOut + (i + 1) - 1
    BY <2>1
  <2> QED
    BY <1>2, <2>2 DEF Offsets
<1>6. \A o \in Offsets :
        o < NextOut' /\ (\A q \in Producers : held'[q] # o \/ done'[q]) => o \in delivered' \cup failed'
  <2> SUFFICES ASSUME NEW o \in Offsets, o < NextOut + 1, held'[p] # o \/ done[p]
               PROVE o \in delivered \cup failed
    BY <1>2
  <2>1. o < NextOut
    BY <1>2, <1>3 DEF Offsets
  <2>2. \A q \in Producers : held[q] # o
    BY <1>3 DEF Offsets, None
  <2> QED
    BY <2>1, <2>2
<1>7. /\ stored' <= NextOut' /\ committed' <= NextOut' /\ NextOut' >= 0
      /\ \A q \in Producers : held'[q] = NextOut' - 1
      /\ \A q \in Producers : stored' <= held'[q] /\ committed' <= held'[q]
  BY <1>2, <1>3 DEF TypeOK, Offsets
<1> QED
  BY <1>4, <1>5, <1>6, <1>7

(* The output takes what is held or refuses it; nothing else changes.      *)
LEMMA ProduceKeeps ==
  ASSUME Single, NEW p \in Producers PROVE KInv /\ produce(p) => KInv'
<1> SUFFICES ASSUME KInv, produce(p) PROVE KInv'
  OBVIOUS
<1> USE DEF KInv, produce
<1>1. \A q \in Producers : q = p
  BY DEF Single
<1>2. /\ delivered' \cup failed' = delivered \cup failed \cup {held[p]} /\ held[p] \in Offsets
      /\ outq' = outq /\ delivered' \in SUBSET Offsets /\ failed' \in SUBSET Offsets
  BY DEF Single, TypeOK
<1>3. TypeOK'
  BY <1>2 DEF TypeOK
<1>4. NextOut' = NextOut
  BY DEF NextOut
<1>5. \A o \in Offsets :
        o < NextOut' /\ (\A q \in Producers : held'[q] # o \/ done'[q]) => o \in delivered' \cup failed'
  <2> SUFFICES ASSUME NEW o \in Offsets, o < NextOut, o # held[p] PROVE o \in delivered \cup failed
    BY <1>2, <1>4
  <2> QED
    BY <1>1
<1> QED
  BY <1>3, <1>4, <1>5

(* The callback stores the offset after the one just produced.             *)
LEMMA CallbackKeeps ==
  ASSUME Single, NEW p \in Producers PROVE KInv /\ consumer_commit_offset(p) => KInv'
<1> SUFFICES ASSUME KInv, consumer_commit_offset(p) PROVE KInv'
  OBVIOUS
<1> USE DEF KInv, consumer_commit_offset
<1>1. \A q \in Producers : q = p /\ held'[q] = None /\ done[q]
  BY DEF Single, TypeOK
<1>2. held[p] \in Offsets /\ stored' = held[p] + 1 /\ NextOut' = NextOut
  BY DEF TypeOK, offset_store, NextOut
<1>3. TypeOK'
  BY <1>1, <1>2 DEF TypeOK, Offsets, None
<1>4. \A o \in Offsets : o < NextOut => o \in delivered \cup failed
  BY <1>1
<1>5. stored' <= NextOut' /\ committed' <= NextOut'
  BY <1>2 DEF Offsets, TypeOK, NextOut
<1> QED
  BY <1>1, <1>2, <1>3, <1>4, <1>5 DEF NextOut

(* Only what was stored is committed.                                      *)
LEMMA CommitKeeps == KInv /\ auto_commit => KInv'
  BY DEF KInv, TypeOK, auto_commit, NextOut

(* A crash starts again at the committed offset, before which everything   *)
(* was delivered or refused.                                               *)
LEMMA CrashKeeps == KInv /\ crash => KInv'
<1> SUFFICES ASSUME KInv, crash PROVE KInv'
  OBVIOUS
<1> USE DEF KInv, crash
<1>1. TypeOK'
  BY DEF TypeOK, Offsets, None
<1>2. Len(queue') = 0 /\ NextOut' = committed /\ committed \in 0..End
  BY DEF NextOut, TypeOK
<1>3. \A o \in Offsets : o < committed => o \in delivered \cup failed
  <2> SUFFICES ASSUME NEW o \in Offsets, o < committed PROVE o \in delivered \cup failed
    OBVIOUS
  <2>1. o < NextOut
    BY <1>2 DEF NextOut, TypeOK, Offsets
  <2>2. ASSUME NEW p \in Producers PROVE held[p] # o
    <3>1. held[p] # None => committed <= held[p]
      OBVIOUS
    <3> QED
      BY <1>2, <3>1 DEF Offsets, None
  <2> QED
    BY <2>1, <2>2
<1> QED
  BY <1>1, <1>2, <1>3

(* The configuration never changes, and what is not buffered stays so:     *)
(* every step keeps KInv.                                                  *)
LEMMA KNextKeeps ==
  Single /\ KInv /\ outq = {} /\ [Next]_vars => KInv' /\ outq' = {}
<1> SUFFICES ASSUME Single, KInv, outq = {}, [Next]_vars PROVE KInv' /\ outq' = {}
  OBVIOUS
<1>1. CASE transactional_consumer_consume
  BY <1>1, ConsumeKeeps DEF transactional_consumer_consume
<1>2. CASE \E p \in Producers : queue_get(p)
  BY <1>2, GetKeeps, Zenon DEF queue_get
<1>3. CASE \E p \in Producers : produce(p)
  BY <1>3, ProduceKeeps, Zenon DEF produce, Single
<1>4. CASE \E p \in Producers : consumer_commit_offset(p)
  BY <1>4, CallbackKeeps, Zenon DEF consumer_commit_offset
<1>5. CASE auto_commit
  BY <1>5, CommitKeeps DEF auto_commit
<1>6. CASE crash
  BY <1>6, CrashKeeps DEF crash
<1>7. CASE UNCHANGED vars
  BY <1>7 DEF vars, KInv, TypeOK, NextOut
<1> QED
  BY <1>1, <1>2, <1>3, <1>4, <1>5, <1>6, <1>7 DEF Next, threads

(* No step changes the number of producers or the kind of output.          *)
LEMMA ConfigKept == [Next]_vars => UNCHANGED config
  BY DEF Next, threads, vars, transactional_consumer_consume, queue_get, produce,
         consumer_commit_offset, deliver, auto_commit, crash

(* What the committed offset leaves behind was delivered or refused.       *)
LEMMA KInvImplies == KInv => AtLeastOnce
<1> SUFFICES ASSUME KInv, NEW o \in 0..committed-1 PROVE o \in delivered \cup failed
  BY DEF AtLeastOnce
<1>1. o \in Offsets /\ o < NextOut /\ o < committed /\ committed \in Nat
  BY DEF KInv, TypeOK, Offsets, NextOut
<1>2. \A p \in Producers : held[p] # o
  BY <1>1 DEF KInv, TypeOK, Offsets, None
<1> QED
  BY <1>1, <1>2 DEF KInv

(***************************************************************************)
(* At least once, with one producer thread and an output that answers:     *)
(* whenever the process crashes, every message before the committed offset *)
(* has been delivered, or refused by the output (kafka.c:17-56,            *)
(* main.c:204-207).                                                        *)
(***************************************************************************)
THEOREM AtLeastOnceDelivery == Spec => []AtLeastOnceIfSingle
<1> DEFINE J == Single => KInv /\ outq = {}
<1>1. Init => J
  BY KInitInv DEF Init
<1>2. J /\ [Next]_vars => J'
  <2> SUFFICES ASSUME J, [Next]_vars, Single' PROVE KInv' /\ outq' = {}
    OBVIOUS
  <2>1. Single
    BY ConfigKept, Zenon DEF Single
  <2> QED
    BY <2>1, KNextKeeps
<1>3. J => AtLeastOnceIfSingle
  BY KInvImplies DEF AtLeastOnceIfSingle
<1> QED
  BY <1>1, <1>2, <1>3, PTL DEF Spec
-----------------------------------------------------------------------------
(* What an output has, will get from librdkafka's buffer or has refused.   *)
Written == delivered \cup failed \cup outq

(***************************************************************************)
(* The inductive invariant for any number of producers: as above the lane  *)
(* is a run of offsets, and nothing taken, stored or committed is past its *)
(* beginning.  An earlier offset has been written, is held, or has been    *)
(* lost to a crash, for then it is before the committed offset.            *)
(***************************************************************************)
GInv ==
  /\ TypeOK
  /\ \A i \in 1..Len(queue) : queue[i] = NextOut + i - 1
  /\ NextOut >= 0 /\ stored <= NextOut /\ committed <= NextOut
  /\ \A p \in Producers : held[p] < NextOut /\ (done[p] => held[p] \in Written)
  /\ \A o \in Offsets :
       o < NextOut => o \in Written \/ o < committed \/ \E p \in Producers : held[p] = o

(* Somebody has not fallen behind offset o.                                *)
UpTo(o) == \E p \in Producers : held[p] = None \/ held[p] >= o
Ahead == UpTo(stored) /\ UpTo(committed)

(* The first start: nothing is behind.                                     *)
LEMMA GInit == Init => GInv /\ Ahead
<1> SUFFICES ASSUME Init PROVE GInv /\ Ahead
  OBVIOUS
<1>1. GInv
  BY DEF Init, GInv, TypeOK, NextOut, Offsets, None
<1>2. Producers # {}
  BY DEF Init
<1> QED
  BY <1>1, <1>2 DEF Init, Ahead, UpTo

(* Polling lengthens the run at its end.                                   *)
LEMMA GConsume == GInv /\ transactional_consumer_consume => GInv'
<1> SUFFICES ASSUME GInv, transactional_consumer_consume PROVE GInv'
  OBVIOUS
<1> USE DEF GInv, transactional_consumer_consume
<1>1. position \in Offsets /\ queue \in Seq(Offsets)
  BY DEF TypeOK, Offsets
<1>2. Len(queue') = Len(queue) + 1 /\ NextOut' = NextOut
  BY <1>1 DEF NextOut, Offsets
<1>3. TypeOK'
  BY <1>1 DEF TypeOK, Offsets
<1>4. \A i \in 1..Len(queue)' : queue'[i] = NextOut' + i - 1
  <2> SUFFICES ASSUME NEW i \in 1..Len(queue) + 1 PROVE queue'[i] = NextOut + i - 1
    BY <1>2
  <2>1. CASE i \in 1..Len(queue)
    BY <1>1, <2>1
  <2>2. CASE i = Len(queue) + 1
    BY <1>1, <2>2 DEF NextOut, Offsets
  <2> QED
    BY <1>1, <2>1, <2>2
<1> QED
  BY <1>2, <1>3, <1>4 DEF Written

(* A producer takes the first of the run; the others hold earlier ones.    *)
LEMMA GGet ==
  ASSUME NEW p \in Producers PROVE GInv /\ Ahead /\ queue_get(p) => GInv' /\ Ahead'
<1> SUFFICES ASSUME GInv, Ahead, queue_get(p) PROVE GInv' /\ Ahead'
  OBVIOUS
<1> USE DEF GInv, queue_get
<1>1. queue \in Seq(Offsets) /\ queue # <<>> /\ Len(queue) \in Nat /\ Len(queue) > 0
  BY DEF TypeOK
<1>2. /\ Head(queue) = queue[1] /\ queue[1] = NextOut /\ NextOut \in Offsets
      /\ Len(queue') = Len(queue) - 1 /\ NextOut' = NextOut + 1
      /\ queue' \in Seq(Offsets)
      /\ \A i \in 1..Len(queue') : queue'[i] = queue[i+1]
  BY <1>1 DEF TypeOK, NextOut, Offsets
<1>3. held'[p] = NextOut /\ done[p] = FALSE /\ \A q \in Producers \ {p} : held'[q] = held[q]
  BY <1>2 DEF TypeOK
<1>4. TypeOK'
  BY <1>1, <1>2, <1>3 DEF TypeOK, Offsets, None
<1>5. \A i \in 1..Len(queue)' : queue'[i] = NextOut' + i - 1
  <2> SUFFICES ASSUME NEW i \in 1..Len(queue) - 1 PROVE queue[i+1] = NextOut + i
    BY <1>2 DEF Offsets
  <2>1. i + 1 \in 1..Len(queue) /\ (i + 1) - 1 = i
    BY <1>1
  <2>2. queue[i+1] = NextOut + (i + 1) - 1
    BY <2>1
  <2> QED
    BY <1>2, <2>2 DEF Offsets
<1>6. \A q \in Producers : held'[q] < NextOut' /\ (done'[q] => held'[q] \in Written')
  <2> SUFFICES ASSUME NEW q \in Producers
               PROVE  held'[q] < NextOut' /\ (done'[q] => held'[q] \in Written')
    OBVIOUS
  <2>1. CASE q = p
    BY <1>2, <1>3, <2>1 DEF Offsets
  <2>2. CASE q # p
    <3>1. held'[q] = held[q] /\ done'[q] = done[q] /\ Written' = Written
      BY <1>3, <2>2 DEF Written
    <3>2. held[q] \in Int
      BY DEF TypeOK, Offsets, None
    <3> QED
      BY <1>2, <3>1, <3>2 DEF Offsets
  <2> QED
    BY <2>1, <2>2
<1>7. \A o \in Offsets :
        o < NextOut' => o \in Written' \/ o < committed' \/ \E q \in Producers : held'[q] = o
  <2> SUFFICES ASSUME NEW o \in Offsets, o < NextOut + 1, o \notin Written, ~(o < committed)
               PROVE  \E q \in Producers : held'[q] = o
    BY <1>2 DEF Written
  <2>1. CASE o = NextOut
    BY <1>3, <2>1
  <2>2. CASE o < NextOut
    <3>1. PICK q \in Producers : held[q] = o
      BY <2>2
    <3>2. q # p
      BY <3>1 DEF Offsets, None
    <3> QED
      BY <1>3, <3>1, <3>2
  <2> QED
    BY <2>1, <2>2, <1>2 DEF Offsets
<1>8. stored' <= NextOut' /\ committed' <= NextOut' /\ NextOut' >= 0
  BY <1>2 DEF TypeOK, Offsets
<1>9. Ahead'
  BY <1>2, <1>3 DEF Ahead, UpTo, TypeOK, Offsets
<1> QED
  BY <1>4, <1>5, <1>6, <1>7, <1>8, <1>9

(* produce writes what is held.                                            *)
LEMMA GProduce ==
  ASSUME NEW p \in Producers PROVE GInv /\ produce(p) => GInv'
<1> SUFFICES ASSUME GInv, produce(p) PROVE GInv'
  OBVIOUS
<1> USE DEF GInv, produce
<1>1. Written' = Written \cup {held[p]} /\ held[p] \in Offsets
  BY DEF Written, TypeOK
<1>2. TypeOK'
  BY DEF TypeOK
<1>3. NextOut' = NextOut
  BY DEF NextOut
<1>4. \A q \in Producers : held'[q] < NextOut' /\ (done'[q] => held'[q] \in Written')
  BY <1>1, <1>3 DEF TypeOK
<1> QED
  BY <1>1, <1>2, <1>3, <1>4

(* The callback lets go of a message that has been written, and whoever    *)
(* lets go has not fallen behind.                                          *)
LEMMA GCallback ==
  ASSUME NEW p \in Producers PROVE GInv /\ consumer_commit_offset(p) => GInv' /\ Ahead'
<1> SUFFICES ASSUME GInv, consumer_commit_offset(p) PROVE GInv' /\ Ahead'
  OBVIOUS
<1> USE DEF GInv, consumer_commit_offset
<1>1. /\ held[p] \in Offsets /\ held[p] \in Written /\ stored' = held[p] + 1
      /\ NextOut' = NextOut /\ Written' = Written
      /\ held'[p] = None /\ \A q \in Producers \ {p} : held'[q] = held[q] /\ done'[q] = done[q]
      /\ done'[p] = FALSE
  BY DEF TypeOK, offset_store, NextOut, Written
<1>2. TypeOK'
  BY <1>1 DEF TypeOK, Offsets, None
<1>3. stored' <= NextOut' /\ committed' <= NextOut' /\ NextOut' >= 0
  BY <1>1 DEF TypeOK, Offsets, NextOut
<1>4. \A q \in Producers : held'[q] < NextOut' /\ (done'[q] => held'[q] \in Written')
  <2> SUFFICES ASSUME NEW q \in Producers
               PROVE  held'[q] < NextOut' /\ (done'[q] => held'[q] \in Written')
    OBVIOUS
  <2>1. CASE q = p
    BY <1>1, <2>1 DEF TypeOK, NextOut, None
  <2>2. CASE q # p
    BY <1>1, <2>2
  <2> QED
    BY <2>1, <2>2
<1>5. \A o \in Offsets :
        o < NextOut' => o \in Written' \/ o < committed' \/ \E q \in Producers : held'[q] = o
  <2> SUFFICES ASSUME NEW o \in Offsets, o < NextOut, o \notin Written, ~(o < committed)
               PROVE  \E q \in Producers : held'[q] = o
    BY <1>1
  <2>1. PICK q \in Producers : held[q] = o
    OBVIOUS
  <2> QED
    BY <1>1, <2>1
<1>6. Ahead'
  BY <1>1 DEF Ahead, UpTo
<1> QED
  BY <1>1, <1>2, <1>3, <1>4, <1>5, <1>6

(* What leaves the buffer is delivered or has failed.                      *)
LEMMA GDeliver ==
  ASSUME NEW o \in outq PROVE GInv /\ deliver(o) => GInv'
<1> SUFFICES ASSUME GInv, deliver(o) PROVE GInv'
  OBVIOUS
<1>1. Written' = Written /\ NextOut' = NextOut
  BY DEF GInv, deliver, Written, NextOut
<1>2. TypeOK'
  BY DEF GInv, deliver, TypeOK
<1> QED
  BY <1>1, <1>2 DEF GInv, deliver

(* What was stored is committed.                                           *)
LEMMA GCommit == GInv /\ Ahead /\ auto_commit => GInv' /\ Ahead'
<1> SUFFICES ASSUME GInv, Ahead, auto_commit PROVE GInv' /\ Ahead'
  OBVIOUS
<1>1. Written' = Written /\ NextOut' = NextOut
  BY DEF auto_commit, Written, NextOut
<1>2. TypeOK'
  BY DEF GInv, auto_commit, TypeOK
<1>3. Ahead'
  BY DEF Ahead, UpTo, auto_commit
<1> QED
  BY <1>1, <1>2, <1>3 DEF GInv, auto_commit, TypeOK, Offsets

(* After a crash the run starts at the committed offset, and is empty.     *)
LEMMA GCrash == GInv /\ crash => GInv' /\ Ahead'
<1> SUFFICES ASSUME GInv, crash PROVE GInv' /\ Ahead'
  OBVIOUS
<1>1. TypeOK'
  BY DEF GInv, crash, TypeOK, Offsets, None
<1>2. Len(queue') = 0 /\ NextOut' = committed /\ committed \in 0..End
  BY DEF GInv, crash, NextOut, TypeOK
<1>3. \A p \in Producers : held'[p] = None /\ ~done'[p]
  BY DEF crash
<1>4. Producers' # {}
  BY DEF GInv, crash, TypeOK
<1> QED
  BY <1>1, <1>2, <1>3, <1>4 DEF GInv, Ahead, UpTo, crash, Offsets, None

(* Every step keeps the invariant.                                         *)
LEMMA GNext == GInv /\ Ahead /\ [Next]_vars => GInv' /\ Ahead'
<1> SUFFICES ASSUME GInv, Ahead, [Next]_vars PROVE GInv' /\ Ahead'
  OBVIOUS
<1>1. CASE transactional_consumer_consume
  BY <1>1, GConsume DEF transactional_consumer_consume, Ahead, UpTo
<1>2. CASE \E p \in Producers : queue_get(p)
  BY <1>2, GGet, Zenon
<1>3. CASE \E p \in Producers : produce(p)
  BY <1>3, GProduce, Zenon DEF produce, Ahead, UpTo
<1>4. CASE \E p \in Producers : consumer_commit_offset(p)
  BY <1>4, GCallback, Zenon
<1>5. CASE \E o \in outq : deliver(o)
  BY <1>5, GDeliver, Zenon DEF deliver, Ahead, UpTo
<1>6. CASE auto_commit
  BY <1>6, GCommit
<1>7. CASE crash
  BY <1>7, GCrash
<1>8. CASE UNCHANGED vars
  BY <1>8 DEF vars, GInv, TypeOK, NextOut, Written, Ahead, UpTo
<1> QED
  BY <1>1, <1>2, <1>3, <1>4, <1>5, <1>6, <1>7, <1>8, Zenon DEF Next, threads

(* Lost although neither produce nor librdkafka reported an error.         *)
Missed == Lost \ failed

(* What was neither written nor refused, and is not held.                  *)
LEMMA MissedIs ==
  Missed = {o \in 0..committed-1 : o \notin Written /\ \A p \in Producers : held[p] # o}
  BY DEF Missed, Lost, Written

(* While the process lives nothing is added to what is missed: the commit  *)
(* covers only messages that left the queue, and the callback lets go only *)
(* of a message that has been written.                                     *)
LEMMA MissedShrinks ==
  GInv /\ [Next]_vars /\ crashes' = crashes => Missed' \subseteq Missed
<1> SUFFICES ASSUME GInv, [Next]_vars, crashes' = crashes, NEW o \in Missed'
             PROVE  o \in Missed
  OBVIOUS
<1>1. /\ o \in 0..committed'-1 /\ o \notin Written'
      /\ \A p \in Producers' : held'[p] # o
  BY DEF Missed, Lost, Written
<1>2. SUFFICES o < committed /\ o \notin Written /\ \A p \in Producers : held[p] # o
  <2>1. committed' \in Int /\ committed \in Int /\ o \in Int /\ o >= 0
    <3>1. committed \in Int /\ stored \in Int
      BY DEF GInv, TypeOK
    <3>2. committed' = committed \/ committed' = stored
      BY DEF Next, threads, transactional_consumer_consume, queue_get, produce,
             consumer_commit_offset, deliver, auto_commit, crash, vars
    <3> QED
      BY <1>1, <3>1, <3>2
  <2> QED
    BY <1>2, <2>1, MissedIs
<1>3. CASE transactional_consumer_consume
  BY <1>1, <1>3 DEF transactional_consumer_consume, Written, GInv, TypeOK
<1>4. ASSUME NEW p \in Producers, queue_get(p)
      PROVE  o < committed /\ o \notin Written /\ \A q \in Producers : held[q] # o
  <2>1. o < committed /\ o \notin Written /\ o # None
    BY <1>1, <1>4 DEF queue_get, Written, GInv, TypeOK, None
  <2>2. \A q \in Producers \ {p} : held[q] # o
    BY <1>1, <1>4 DEF queue_get, GInv, TypeOK
  <2> QED
    BY <1>4, <2>1, <2>2 DEF queue_get
<1>5. ASSUME NEW p \in Producers, produce(p)
      PROVE  o < committed /\ o \notin Written /\ \A q \in Producers : held[q] # o
  BY <1>1, <1>5 DEF produce, Written, GInv, TypeOK
<1>6. ASSUME NEW p \in Producers, consumer_commit_offset(p)
      PROVE  o < committed /\ o \notin Written /\ \A q \in Producers : held[q] # o
  <2>1. o < committed /\ o \notin Written
    <3>1. committed' = committed /\ Written' = Written
      BY <1>6, Zenon DEF consumer_commit_offset, Written
    <3>2. committed \in Int /\ o \in 0..committed-1 /\ o \notin Written
      BY <1>1, <3>1 DEF GInv, TypeOK
    <3> QED
      BY ONLY <3>2
  <2>2. held[p] # o
    BY <1>6, <2>1 DEF consumer_commit_offset, GInv
  <2>3. \A q \in Producers \ {p} : held[q] # o
    BY <1>1, <1>6 DEF consumer_commit_offset, GInv, TypeOK
  <2> QED
    BY <2>1, <2>2, <2>3
<1>7. ASSUME NEW m \in outq, deliver(m)
      PROVE  o < committed /\ o \notin Written /\ \A q \in Producers : held[q] # o
  BY <1>1, <1>7 DEF deliver, Written, GInv, TypeOK
<1>8. CASE auto_commit
  <2>1. o < NextOut /\ o \in Offsets /\ o \notin Written /\ \A q \in Producers : held[q] # o
    BY <1>1, <1>8 DEF auto_commit, Written, GInv, TypeOK, NextOut, Offsets
  <2> QED
    BY <2>1 DEF GInv
<1>9. CASE crash
  BY <1>9 DEF crash, GInv, TypeOK
<1>10. CASE UNCHANGED vars
  BY <1>1, <1>10 DEF vars, Written, GInv, TypeOK
<1> QED
  BY <1>3, <1>4, <1>5, <1>6, <1>7, <1>8, <1>9, <1>10, Zenon DEF Next, threads

(* A crash loses what was held or buffered.                                *)
LEMMA CrashCosts ==
  crash => Lost' \ Lost \subseteq outq \cup {held[p] : p \in Producers}
  BY DEF crash, Lost

(* Only a crash is counted as one.                                         *)
LEMMA CrashOrNot == [Next]_vars => crash \/ crashes' = crashes
  BY Zenon DEF Next, threads, transactional_consumer_consume, queue_get, produce,
         consumer_commit_offset, deliver, auto_commit, vars

(* Whatever the output and however many producers, a message is lost only  *)
(* by an error that produce or librdkafka reported and nobody acted upon   *)
(* (kafka.c:71-74, kafka.c:511-519), or by a crash that found it in the    *)
(* hands of a producer or in librdkafka's buffer.                          *)
THEOREM LossesExplained == Spec => LossExplained
<1> DEFINE Explained == Lost' \ Lost \subseteq IF crashes' = crashes THEN failed'
                                              ELSE outq \cup {held[p] : p \in Producers}
<1>1. Init => GInv /\ Ahead
  BY GInit
<1>2. GInv /\ Ahead /\ [Next]_vars => GInv' /\ Ahead'
  BY GNext
<1>3. GInv /\ [Next]_vars => [Explained]_vars
  <2> SUFFICES ASSUME GInv, [Next]_vars PROVE Explained
    OBVIOUS
  <2>1. CASE crashes' = crashes
    BY <2>1, MissedShrinks DEF Missed
  <2>2. CASE crashes' # crashes
    BY <2>2, CrashOrNot, CrashCosts
  <2> QED
    BY <2>1, <2>2
<1> QED
  BY <1>1, <1>2, <1>3, PTL DEF Spec, LossExplained
-----------------------------------------------------------------------------
(* A synchronous output leaves nothing in librdkafka's buffer.             *)
SyncInv == sync => outq = {}

(* Only kafka_producer_produce fills the buffer.                           *)
LEMMA SyncKept ==
  /\ Init => SyncInv
  /\ SyncInv /\ [Next]_vars => SyncInv'
<1>1. Init => SyncInv
  BY DEF Init, SyncInv
<1>2. ASSUME SyncInv, [Next]_vars PROVE SyncInv'
  BY <1>2, Zenon DEF SyncInv, Next, threads, transactional_consumer_consume, queue_get, produce,
              consumer_commit_offset, deliver, auto_commit, crash, vars
<1> QED
  BY <1>1, <1>2

(* One message each: what all producers but one hold.                      *)
LEMMA HeldByOthers ==
  ASSUME TypeOK, NEW w \in Producers
  PROVE  LET rest == {held[p] : p \in Producers \ {w}}
         IN  IsFiniteSet(rest) /\ Cardinality(rest) <= Cardinality(Producers) - 1
<1> DEFINE others == Producers \ {w}
           rest   == {held[p] : p \in others}
           f      == [p \in others |-> held[p]]
<1>1. IsFiniteSet(Producers)
  BY DEF TypeOK
<1>2. IsFiniteSet(others) /\ Cardinality(others) = Cardinality(Producers) - 1
  BY <1>1, FS_RemoveElement
<1>3. f \in Surjection(others, rest)
  BY DEF Surjection
<1>4. IsFiniteSet(rest) /\ Cardinality(rest) <= Cardinality(others)
  BY <1>2, <1>3, FS_Surjection
<1> QED
  BY <1>2, <1>4

(* The offsets missed are below the committed one.                         *)
LEMMA MissedFinite == TypeOK => IsFiniteSet(Missed)
<1> SUFFICES ASSUME TypeOK PROVE IsFiniteSet(Missed)
  OBVIOUS
<1>1. committed - 1 \in Int /\ Missed \subseteq 0..committed-1
  BY DEF TypeOK, Missed, Lost
<1>2. IsFiniteSet(0..committed-1)
  BY <1>1, FS_Interval
<1> QED
  BY <1>1, <1>2, FS_Subset, Zenon

(* What a crash adds to the missed messages are the ones that the other    *)
(* producers held while one of them was ahead of the committed offset.     *)
LEMMA CrashLoses ==
  ASSUME GInv, Ahead, SyncInv, sync, crash
  PROVE  \E w \in Producers : Missed' \subseteq Missed \cup {held[p] : p \in Producers \ {w}}
<1>1. PICK w \in Producers : held[w] = None \/ held[w] >= committed
  BY DEF Ahead, UpTo
<1>2. ASSUME NEW o \in Missed' PROVE o \in Missed \cup {held[p] : p \in Producers \ {w}}
  <2>1. o \in 0..committed-1 /\ o \notin delivered \cup failed \cup outq
    BY <1>2 DEF Missed, Lost, crash, SyncInv
  <2>2. CASE \A p \in Producers : held[p] # o
    BY <2>1, <2>2 DEF Missed, Lost
  <2>3. CASE \E p \in Producers : held[p] = o
    <3>1. PICK p \in Producers : held[p] = o
      BY <2>3
    <3>2. p # w
      BY <1>1, <2>1, <3>1 DEF None, GInv, TypeOK
    <3> QED
      BY <3>1, <3>2
  <2> QED
    BY <2>2, <2>3
<1> QED
  BY <1>2

(* One crash more allows one loss more for every other producer.           *)
LEMMA OneCrashMore ==
  ASSUME NEW c \in Int, NEW k \in Int, NEW a \in Int, NEW b \in Int, a <= c * k, b <= k
  PROVE  a + b <= (c + 1) * k
<1>1. (c + 1) * k = c * k + k
  OBVIOUS
<1>2. c * k \in Int
  OBVIOUS
<1> DEFINE ck == c * k
           nk == (c + 1) * k
<1>3. nk = ck + k /\ ck \in Int /\ a <= ck
  BY <1>1, <1>2
<1> HIDE DEF ck, nk
<1>4. a + b <= nk
  BY <1>3
<1> QED
  BY <1>4 DEF nk

(* Each crash costs at most one message for every producer but one.        *)
LEMMA BoundKept ==
  GInv /\ Ahead /\ SyncInv /\ LossBound /\ [Next]_vars => LossBound'
<1> SUFFICES ASSUME GInv, Ahead, SyncInv, LossBound, [Next]_vars, sync'
             PROVE  Cardinality(Missed)' <= crashes' * (Cardinality(Producers') - 1)
  BY DEF LossBound, Missed
<1>1. sync' = sync /\ Producers' = Producers
  BY Zenon DEF Next, threads, transactional_consumer_consume, queue_get, produce,
         consumer_commit_offset, deliver, auto_commit, crash, vars
<1>2. IsFiniteSet(Missed) /\ Cardinality(Missed) \in Nat
  BY MissedFinite, FS_CardinalityType DEF GInv
<1>3. IsFiniteSet(Producers) /\ Cardinality(Producers) \in Nat
  BY FS_CardinalityType DEF GInv, TypeOK
<1>4. Cardinality(Missed) <= crashes * (Cardinality(Producers) - 1)
  BY <1>1 DEF LossBound, Missed
<1>5. CASE crashes' = crashes
  <2>1. Missed' \subseteq Missed
    BY <1>5, MissedShrinks
  <2>2. Cardinality(Missed)' <= Cardinality(Missed) /\ IsFiniteSet(Missed')
    BY <1>2, <2>1, FS_Subset
  <2>3. Cardinality(Missed') \in Nat
    BY <2>2, FS_CardinalityType
  <2> DEFINE bound == crashes * (Cardinality(Producers) - 1)
  <2>4. bound \in Int
    BY <1>3 DEF GInv, TypeOK
  <2>5. Cardinality(Missed) <= bound
    BY <1>4
  <2>6. crashes' * (Cardinality(Producers') - 1) = bound
    BY <1>1, <1>5
  <2> HIDE DEF bound
  <2> QED
    BY <1>2, <2>2, <2>3, <2>4, <2>5, <2>6
<1>6. CASE crash
  <2>1. PICK w \in Producers : Missed' \subseteq Missed \cup {held[p] : p \in Producers \ {w}}
    BY <1>1, <1>6, CrashLoses
  <2> DEFINE rest == {held[p] : p \in Producers \ {w}}
  <2>2. IsFiniteSet(rest) /\ Cardinality(rest) <= Cardinality(Producers) - 1
    BY HeldByOthers DEF GInv
  <2>3. Missed' \subseteq Missed \cup rest
    BY <2>1
  <2> HIDE DEF rest
  <2>4. /\ IsFiniteSet(Missed \cup rest)
        /\ Cardinality(Missed \cup rest)
             = Cardinality(Missed) + Cardinality(rest) - Cardinality(Missed \cap rest)
    BY <1>2, <2>2, FS_Union
  <2>5. IsFiniteSet(Missed \cap rest)
    BY <1>2, FS_Subset
  <2>6. Cardinality(rest) \in Nat /\ Cardinality(Missed \cap rest) \in Nat
    BY <2>2, <2>5, FS_CardinalityType
  <2>7. Cardinality(Missed') <= Cardinality(Missed \cup rest) /\ IsFiniteSet(Missed')
    BY <2>3, <2>4, FS_Subset
  <2>8. Cardinality(Missed') \in Nat
    BY <2>7, FS_CardinalityType
  <2>9. Cardinality(Missed') <= Cardinality(Missed) + Cardinality(rest)
    BY <1>2, <2>4, <2>6, <2>7, <2>8
  <2>10. crashes \in Int /\ crashes' = crashes + 1
    BY <1>6 DEF GInv, TypeOK, crash
  <2> DEFINE bound == (crashes + 1) * (Cardinality(Producers) - 1)
  <2>11. Cardinality(Missed) + Cardinality(rest) <= bound
    <3>1. Cardinality(Producers) - 1 \in Int /\ Cardinality(Missed) \in Int /\ Cardinality(rest) \in Int
      BY <1>2, <1>3, <2>6
    <3> QED
      BY <3>1, <1>4, <2>2, <2>10, OneCrashMore
  <2>12. bound \in Int
    BY <1>3, <2>10
  <2>13. crashes' * (Cardinality(Producers') - 1) = bound
    BY <1>1, <2>10
  <2> HIDE DEF bound
  <2> QED
    BY <1>2, <2>6, <2>8, <2>9, <2>11, <2>12, <2>13
<1>7. crash \/ crashes' = crashes
  BY CrashOrNot
<1> QED
  BY <1>5, <1>6, <1>7

(* However many producers share the lanes of a transactional consumer,     *)
(* with an output that answers each crash loses at most one message for    *)
(* every producer but one, besides what the output refused (kafka.c:29-47  *)
(* with main.c:196-215).                                                   *)
THEOREM LossesBounded == Spec => []LossBound
<1>1. Init => LossBound
  <2> SUFFICES ASSUME Init PROVE LossBound
    OBVIOUS
  <2>1. Missed = {} /\ crashes = 0
    BY DEF Init, Missed, Lost
  <2>2. Cardinality(Missed) = 0
    BY <2>1, FS_EmptySet
  <2>3. IsFiniteSet(Producers) /\ Cardinality(Producers) \in Nat
    BY FS_CardinalityType DEF Init
  <2> QED
    BY <2>1, <2>2, <2>3 DEF LossBound, Missed
<1> QED
  BY <1>1, GInit, GNext, SyncKept, BoundKept, PTL DEF Spec
=============================================================================
