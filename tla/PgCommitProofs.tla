--------------------------- MODULE PgCommitProofs ---------------------------
(***************************************************************************)
(* Proofs about the postgres producer for every BATCH and ITER, every      *)
(* setting, and any messages.                                              *)
(***************************************************************************)
EXTENDS PgCommit, SequenceTheorems, TLAPS

(***************************************************************************)
(* The inductive invariant.  A connection that has no COPY has nothing     *)
(* left of one; one that has, holds count rows of it, and then copy is 1.  *)
(* The converse is what fails inside of commit() and after a cut: between  *)
(* the end of the master's COPY and the reset, copy is still 1.            *)
(***************************************************************************)
Clean(c) == ~c.spoilt /\ (~c.open => c.rows = <<>> /\ ~c.trailer)

InStep(k) ==
  /\ Clean(conn[k])
  /\ conn[k].open => copy = 1 /\ Len(conn[k].rows) = count
  /\ conn[k].trailer =>
       /\ k = "master" /\ setting.binary
       /\ wpc = "end_master" \/ (cut /\ ppc = "cancelled")
  /\ ~Locked /\ ~cut /\ copy = 1 => conn[k].open
  /\ wpc = "end_replica" /\ k = "master" => ~conn[k].open
  /\ wpc = "reset" => ~conn[k].open
  /\ ppc = "freed" => ~conn[k].open

Threads ==
  /\ count > 0 => copy = 1
  /\ wpc = "exit" => ppc # "run"
  /\ ppc = "freed" => wpc = "exit"
  /\ cut => wpc = "exit"

(* Where the rows are: NoRowLost, one connection and one part at a time.   *)
Accounted(c) ==
  \A m \in Range(c.sent) : m \in Range(c.table) \/ \E r \in c.refused : m \in Range(r.rows)

Spoiling(k) == cut /\ setting.binary /\ ppc = "freed" /\ k = "master"
Excused(c, k) ==
  \A r \in c.refused :
    /\ Len(r.rows) <= BATCH
    /\ (\E m \in Range(r.rows) : ~Good(m)) \/ (r.spoilt /\ Spoiling(k))

Rows(k) == conn[k].sent \o conn[k].rows = put /\ Accounted(conn[k]) /\ Excused(conn[k], k)

IInv == TypeOK /\ Threads /\ \A k \in Conns : InStep(k) /\ Rows(k)
-----------------------------------------------------------------------------
(* A connection that stays out of any COPY, while copy says so.            *)
LEMMA ClosedInStep ==
  ASSUME NEW k, conn' = conn, copy' = copy, copy = 0,
         ~conn[k].open, ~conn[k].trailer, Clean(conn[k])
  PROVE  InStep(k)'
<1>1. copy # 1
  OBVIOUS
<1> QED
  BY <1>1, Zenon DEF InStep

(* What a connection is doing stays in step while nothing happens.         *)
LEMMA InStepKept ==
  ASSUME NEW k, InStep(k), conn' = conn, copy' = copy, count' = count, setting' = setting,
         wpc' = wpc, ppc' = ppc, cut' = cut, Locked' = Locked
  PROVE  InStep(k)'
  BY Zenon DEF InStep

(* The settings are those of some case.                                    *)
LEMMA SettingType ==
  ASSUME TypeOK
  PROVE  /\ setting.binary \in BOOLEAN /\ setting.replica \in BOOLEAN
         /\ "master" \in Conns /\ (setting.replica => "replica" \in Conns)
         /\ Conns \subseteq {"master", "replica"}
         /\ DOMAIN load \subseteq Messages
<1>1. PICK c \in Cases : c = [setting |-> setting, load |-> load]
  BY DEF TypeOK
<1>2. setting \in Setting /\ DOMAIN load \subseteq Messages
  BY <1>1, PgAssumption
<1> QED
  BY <1>2 DEF Setting, Conns

(* The rows of two sequences are the rows of both.                         *)
LEMMA RangeOfConcat ==
  ASSUME NEW S, NEW s \in Seq(S), NEW t \in Seq(S)
  PROVE  Range(s \o t) = Range(s) \cup Range(t)
<1>1. /\ s \o t \in Seq(S) /\ Len(s \o t) = Len(s) + Len(t)
      /\ \A i \in 1..Len(s) + Len(t) : (s \o t)[i] = IF i <= Len(s) THEN s[i] ELSE t[i - Len(s)]
  BY ConcatProperties, Zenon
<1>2. /\ DOMAIN s = 1..Len(s) /\ DOMAIN t = 1..Len(t) /\ DOMAIN (s \o t) = 1..Len(s) + Len(t)
      /\ Len(s) \in Nat /\ Len(t) \in Nat
  BY <1>1
<1> DEFINE u == s \o t
<1>3. /\ DOMAIN u = 1..Len(s) + Len(t)
      /\ \A i \in 1..Len(s) + Len(t) : u[i] = IF i <= Len(s) THEN s[i] ELSE t[i - Len(s)]
  BY <1>1, <1>2
<1> HIDE DEF u
<1>4. ASSUME NEW x \in Range(u) PROVE x \in Range(s) \cup Range(t)
  <2>1. PICK i \in 1..Len(s) + Len(t) : x = u[i]
    BY <1>3 DEF Range
  <2>2. CASE i <= Len(s)
    BY <2>1, <2>2, <1>2, <1>3 DEF Range
  <2>3. CASE ~(i <= Len(s))
    <3>1. i - Len(s) \in DOMAIN t /\ x = t[i - Len(s)]
      BY <2>1, <2>3, <1>2, <1>3
    <3> QED
      BY <3>1 DEF Range
  <2> QED
    BY <2>2, <2>3
<1>5. ASSUME NEW x \in Range(s) PROVE x \in Range(u)
  <2>1. PICK i \in 1..Len(s) : x = s[i]
    BY <1>2 DEF Range
  <2>2. i \in 1..Len(s) + Len(t) /\ u[i] = x
    BY <2>1, <1>2, <1>3
  <2> QED
    BY <2>2, <1>3 DEF Range
<1>6. ASSUME NEW x \in Range(t) PROVE x \in Range(u)
  <2>1. PICK i \in 1..Len(t) : x = t[i]
    BY <1>2 DEF Range
  <2>2. Len(s) + i \in 1..Len(s) + Len(t) /\ u[Len(s) + i] = x
    BY <2>1, <1>2, <1>3
  <2> QED
    BY <2>2, <1>3 DEF Range
<1> QED
  BY <1>4, <1>5, <1>6 DEF u
-----------------------------------------------------------------------------
(* To append to the second of two sequences is to append to both.          *)
LEMMA ConcatAppend ==
  ASSUME NEW S, NEW s \in Seq(S), NEW t \in Seq(S), NEW e \in S
  PROVE  s \o Append(t, e) = Append(s \o t, e)
<1> DEFINE last == <<e>>
<1>1. last \in Seq(S)
  OBVIOUS
<1>2. Append(t, e) = t \o last
  BY AppendIsConcat
<1>3. s \o t \in Seq(S)
  BY ConcatProperties
<1>4. Append(s \o t, e) = (s \o t) \o last
  BY <1>3, AppendIsConcat
<1> HIDE DEF last
<1>5. (s \o t) \o last = s \o (t \o last)
  BY <1>1, ConcatAssociative
<1> QED
  BY <1>2, <1>4, <1>5

(* PQputCopyData into an open COPY appends the row and nothing else.       *)
LEMMA PutRow ==
  ASSUME NEW c \in Connection, c.open, ~c.trailer, NEW m \in Messages
  PROVE  LET d == PQputCopyData(c, m) IN
         /\ d \in Connection
         /\ d.open /\ ~d.trailer /\ d.spoilt = c.spoilt
         /\ d.rows = Append(c.rows, m) /\ Len(d.rows) = Len(c.rows) + 1
         /\ d.sent = c.sent /\ d.table = c.table /\ d.refused = c.refused
         /\ d.sent \o d.rows = Append(c.sent \o c.rows, m)
<1> DEFINE d == PQputCopyData(c, m)
<1>1. d = [c EXCEPT !.rows = Append(@, m), !.spoilt = @ \/ c.trailer]
  BY DEF PQputCopyData
<1>2. c.rows \in Seq(Messages) /\ c.sent \in Seq(Messages) /\ c.spoilt \in BOOLEAN
  BY DEF Connection
<1>3. Append(c.rows, m) \in Seq(Messages) /\ Len(Append(c.rows, m)) = Len(c.rows) + 1
  BY <1>2
<1>4. /\ d \in Connection
      /\ d.open /\ ~d.trailer /\ d.spoilt = c.spoilt
      /\ d.rows = Append(c.rows, m)
      /\ d.sent = c.sent /\ d.table = c.table /\ d.refused = c.refused
  BY <1>1, <1>2, <1>3, Zenon DEF Connection
<1>5. c.sent \o Append(c.rows, m) = Append(c.sent \o c.rows, m)
  <2> DEFINE s == c.sent
             t == c.rows
  <2>1. s \in Seq(Messages) /\ t \in Seq(Messages)
    BY <1>2
  <2> HIDE DEF s, t
  <2>2. s \o Append(t, m) = Append(s \o t, m)
    BY <2>1, ConcatAppend
  <2> QED
    BY <2>2 DEF s, t
<1> QED
  BY <1>3, <1>4, <1>5

(* PQputCopyEnd leaves the connection without a COPY; the rows are stored, *)
(* or go down together with one that is no good or with the trailer.       *)
LEMMA EndCopy ==
  ASSUME NEW c \in Connection, Accounted(c), ~c.open => c.rows = <<>> /\ ~c.trailer /\ ~c.spoilt,
         Len(c.rows) <= BATCH
  PROVE  LET d == PQputCopyEnd(c) IN
         /\ d \in Connection
         /\ ~d.open /\ Clean(d) /\ ~d.trailer /\ d.rows = <<>>
         /\ d.sent \o d.rows = c.sent \o c.rows
         /\ Accounted(d)
         /\ \A r \in d.refused :
              \/ r \in c.refused
              \/ /\ Len(r.rows) <= BATCH
                 /\ (\E m \in Range(r.rows) : ~Good(m)) \/ (r.spoilt /\ c.spoilt)
<1> DEFINE d == PQputCopyEnd(c)
           r0 == [rows |-> c.rows, spoilt |-> c.spoilt]
<1>1. /\ c.rows \in Seq(Messages) /\ c.sent \in Seq(Messages) /\ c.table \in Seq(Messages)
      /\ c.refused \in SUBSET Refusal /\ c.spoilt \in BOOLEAN /\ c.open \in BOOLEAN
      /\ c.trailer \in BOOLEAN
  BY DEF Connection
<1>2. CASE ~c.open
  BY <1>2, Zenon DEF PQputCopyEnd, Clean
<1>3. CASE c.open
  <2>1. /\ c.sent \o c.rows \in Seq(Messages) /\ c.table \o c.rows \in Seq(Messages)
        /\ <<>> \in Seq(Messages)
        /\ (c.sent \o c.rows) \o <<>> = c.sent \o c.rows
    BY <1>1, ConcatProperties, ConcatEmptySeq
  <2>2. Range(c.sent \o c.rows) = Range(c.sent) \cup Range(c.rows)
    BY <1>1, RangeOfConcat
  <2>3. Range(c.table \o c.rows) = Range(c.table) \cup Range(c.rows)
    BY <1>1, RangeOfConcat
  <2>4. r0 \in Refusal /\ r0.rows = c.rows /\ r0.spoilt = c.spoilt
    BY <1>1 DEF Refusal
  <2> HIDE DEF r0
  <2>5. d = [open |-> FALSE, rows |-> <<>>, trailer |-> FALSE, spoilt |-> FALSE,
             sent |-> c.sent \o c.rows,
             table |-> IF Stores(c) THEN c.table \o c.rows ELSE c.table,
             refused |-> IF Stores(c) THEN c.refused ELSE c.refused \cup {r0}]
    BY <1>3 DEF PQputCopyEnd, r0
  <2>6. /\ d \in Connection
        /\ ~d.open /\ Clean(d) /\ ~d.trailer /\ d.rows = <<>>
        /\ d.sent = c.sent \o c.rows
        /\ d.table = IF Stores(c) THEN c.table \o c.rows ELSE c.table
        /\ d.refused = IF Stores(c) THEN c.refused ELSE c.refused \cup {r0}
    BY <1>1, <2>1, <2>4, <2>5 DEF Connection, Clean
  <2> HIDE DEF d
  <2>7. Accounted(d)
    BY <2>2, <2>3, <2>4, <2>6 DEF Accounted
  <2>8. ~Stores(c) => c.spoilt \/ \E m \in Range(c.rows) : ~Good(m)
    BY DEF Stores
  <2>9. ASSUME NEW r \in d.refused, r \notin c.refused
        PROVE  /\ Len(r.rows) <= BATCH
               /\ (\E m \in Range(r.rows) : ~Good(m)) \/ (r.spoilt /\ c.spoilt)
    BY <2>4, <2>6, <2>8, <2>9
  <2> QED
    BY <2>1, <2>6, <2>7, <2>9 DEF d
<1> QED
  BY <1>2, <1>3, Zenon

(* The trailer changes no row, and spoils a COPY only if it comes again.   *)
LEMMA Trailer ==
  ASSUME NEW c \in Connection, setting.binary \in BOOLEAN
  PROVE  LET d == WithTrailer(c) IN
         /\ d \in Connection
         /\ d.open = c.open /\ d.rows = c.rows /\ d.sent = c.sent
         /\ d.table = c.table /\ d.refused = c.refused
         /\ ~c.open => d = c
         /\ d.trailer => c.trailer \/ (setting.binary /\ c.open)
         /\ d.spoilt => c.spoilt \/ (setting.binary /\ c.trailer)
<1>1. CASE setting.binary /\ c.open
  <2>1. WithTrailer(c) = [c EXCEPT !.trailer = TRUE, !.spoilt = @ \/ c.trailer]
    BY <1>1 DEF WithTrailer
  <2> QED
    BY <1>1, <2>1, Zenon DEF Connection
<1>2. CASE ~(setting.binary /\ c.open)
  <2>1. WithTrailer(c) = c
    BY <1>2 DEF WithTrailer
  <2> QED
    BY <2>1
<1> QED
  BY <1>1, <1>2

(* commit() ends the COPY of every connection that has one.                *)
LEMMA Commit ==
  ASSUME TypeOK, NEW cs \in [Conns -> Connection],
         \A k \in Conns : Accounted(cs[k]) /\ Clean(cs[k]) /\ Len(cs[k].rows) <= BATCH
  PROVE  /\ commit(cs) \in [Conns -> Connection]
         /\ \A k \in Conns :
              LET d == commit(cs)[k] IN
              /\ ~d.open /\ Clean(d) /\ ~d.trailer /\ d.rows = <<>>
              /\ d.sent \o d.rows = cs[k].sent \o cs[k].rows
              /\ Accounted(d)
              /\ \A r \in d.refused :
                   \/ r \in cs[k].refused
                   \/ /\ Len(r.rows) <= BATCH
                      /\ \/ \E m \in Range(r.rows) : ~Good(m)
                         \/ r.spoilt /\ k = "master" /\ setting.binary /\ cs[k].trailer
<1> SUFFICES ASSUME NEW k \in Conns
             PROVE  LET d == commit(cs)[k] IN
                    /\ d \in Connection
                    /\ ~d.open /\ Clean(d) /\ ~d.trailer /\ d.rows = <<>>
                    /\ d.sent \o d.rows = cs[k].sent \o cs[k].rows
                    /\ Accounted(d)
                    /\ \A r \in d.refused :
                         \/ r \in cs[k].refused
                         \/ /\ Len(r.rows) <= BATCH
                            /\ \/ \E m \in Range(r.rows) : ~Good(m)
                               \/ r.spoilt /\ k = "master" /\ setting.binary /\ cs[k].trailer
  BY ZenonT(30) DEF commit
<1> DEFINE c == IF k = "master" THEN WithTrailer(cs[k]) ELSE cs[k]
           d == PQputCopyEnd(c)
<1>1. commit(cs)[k] = d
  BY DEF commit
<1>2. cs[k] \in Connection /\ Accounted(cs[k]) /\ Clean(cs[k]) /\ Len(cs[k].rows) <= BATCH
  OBVIOUS
<1>3. /\ c \in Connection
      /\ c.open = cs[k].open /\ c.rows = cs[k].rows /\ c.sent = cs[k].sent
      /\ c.table = cs[k].table /\ c.refused = cs[k].refused
      /\ ~cs[k].open => c = cs[k]
      /\ c.spoilt => cs[k].spoilt \/ (k = "master" /\ setting.binary /\ cs[k].trailer)
  <2>1. CASE k = "master"
    BY <1>2, <2>1, SettingType, Trailer
  <2>2. CASE k # "master"
    BY <1>2, <2>2
  <2> QED
    BY <2>1, <2>2
<1> HIDE DEF c
<1>4. /\ Accounted(c) /\ Len(c.rows) <= BATCH
      /\ ~c.open => c.rows = <<>> /\ ~c.trailer /\ ~c.spoilt
  BY <1>2, <1>3 DEF Accounted, Clean
<1>5. /\ d \in Connection
      /\ ~d.open /\ Clean(d) /\ ~d.trailer /\ d.rows = <<>>
      /\ d.sent \o d.rows = c.sent \o c.rows
      /\ Accounted(d)
      /\ \A r \in d.refused :
           \/ r \in c.refused
           \/ /\ Len(r.rows) <= BATCH
              /\ (\E m \in Range(r.rows) : ~Good(m)) \/ (r.spoilt /\ c.spoilt)
  BY <1>3, <1>4, EndCopy, Zenon
<1> HIDE DEF d
<1>6. c.spoilt => k = "master" /\ setting.binary /\ cs[k].trailer
  BY <1>2, <1>3 DEF Clean
<1> QED
  BY <1>1, <1>3, <1>5, <1>6, Zenon
-----------------------------------------------------------------------------
(* The settings of the next state.                                         *)
LEMMA SameSetting ==
  ASSUME UNCHANGED given
  PROVE  Conns' = Conns /\ \A m : Good(m)' = Good(m)
  BY DEF given, Conns, Good

(* A refusal had its excuse before, or has one that stays an excuse.       *)
LEMMA StillExcused ==
  ASSUME IInv, UNCHANGED given, ppc # "freed", NEW k \in Conns,
         \A r \in conn'[k].refused :
           \/ r \in conn[k].refused
           \/ Len(r.rows) <= BATCH /\ \E m \in Range(r.rows) : ~Good(m)
  PROVE  Excused(conn[k], k)'
<1>1. Excused(conn[k], k) /\ ~Spoiling(k)
  BY Zenon DEF IInv, Rows, Spoiling
<1>2. \A r \in conn'[k].refused :
        Len(r.rows) <= BATCH /\ \E m \in Range(r.rows) : ~Good(m)
  BY <1>1 DEF Excused
<1>3. \A m : Good(m)' = Good(m)
  BY SameSetting
<1> QED
  BY <1>2, <1>3 DEF Excused

(* A connection whose rows a step leaves where they are keeps the account. *)
LEMMA RowsKept ==
  ASSUME IInv, UNCHANGED <<given, put>>, ppc # "freed", NEW k \in Conns,
         conn'[k].sent = conn[k].sent, conn'[k].rows = conn[k].rows,
         conn'[k].table = conn[k].table, conn'[k].refused = conn[k].refused
  PROVE  Rows(k)'
<1>1. conn[k].sent \o conn[k].rows = put /\ Accounted(conn[k])
  BY Zenon DEF IInv, Rows
<1>2. conn'[k].sent \o conn'[k].rows = put'
  BY <1>1
<1>3. Accounted(conn[k])'
  BY <1>1 DEF Accounted
<1>4. Excused(conn[k], k)'
  BY StillExcused
<1> QED
  BY <1>2, <1>3, <1>4 DEF Rows

LEMMA InitInv == Init => IInv
<1> SUFFICES ASSUME Init PROVE IInv
  OBVIOUS
<1>1. PICK c \in Cases : setting = c.setting /\ load = c.load
  BY DEF Init
<1>2. c = [setting |-> c.setting, load |-> c.load] /\ DOMAIN c.load \subseteq Messages
  BY PgAssumption
<1>3. [setting |-> setting, load |-> load] \in Cases /\ DOMAIN load \subseteq Messages
  BY <1>1, <1>2
<1>4. Closed \in Connection /\ <<>> \in Seq(Messages)
  BY DEF Closed, Connection
<1>5. TypeOK
  <2>1. count \in 0..BATCH-1 /\ commit_iter \in 0..ITER-1 /\ copy \in {0, 1}
    BY PgAssumption DEF Init
  <2>2. conn \in [Conns -> Connection]
    BY <1>4 DEF Init
  <2> QED
    BY <1>3, <1>4, <2>1, <2>2, Zenon DEF Init, TypeOK
<1>6. Threads
  BY DEF Init, Threads
<1>7. ASSUME NEW k \in Conns PROVE InStep(k) /\ Rows(k)
  <2>1. conn[k] = Closed
    BY DEF Init
  <2>2. InStep(k)
    BY <2>1 DEF Init, InStep, Clean, Closed, Locked
  <2>3. Range(<<>>) = {} /\ <<>> \o <<>> = <<>>
    BY DEF Range
  <2>4. Rows(k)
    BY <2>1, <2>3 DEF Init, Rows, Accounted, Excused, Closed
  <2> QED
    BY <2>2, <2>4
<1> QED
  BY <1>5, <1>6, <1>7 DEF IInv

(* Payloads that are no use only leave the messages to be done.            *)
LEMMA DiscardInv == ASSUME IInv, NEW m \in todo, produce_discard(m) PROVE IInv'
<1> USE DEF produce_discard, meta
<1>1. TypeOK'
  BY SameSetting DEF IInv, TypeOK, given
<1>2. Threads'
  BY DEF IInv, Threads
<1>3. ASSUME NEW k \in Conns PROVE InStep(k)' /\ Rows(k)'
  <2>1. InStep(k)'
    BY DEF IInv, InStep, Clean, Locked, given
  <2> QED
    BY <2>1, RowsKept
<1> QED
  BY <1>1, <1>2, <1>3, SameSetting DEF IInv

(* The connections when produce() has seen to it that there is a COPY.     *)
LEMMA Opened ==
  ASSUME IInv, ppc = "run", ~Locked, NEW k \in Conns
  PROVE  LET c == opened[k] IN
         /\ c \in Connection
         /\ c.open /\ ~c.trailer /\ ~c.spoilt
         /\ c.rows = conn[k].rows /\ Len(c.rows) = count
         /\ c.sent = conn[k].sent /\ c.table = conn[k].table /\ c.refused = conn[k].refused
<1>1. conn[k] \in Connection /\ copy \in {0, 1} /\ count \in Nat
  BY PgAssumption DEF IInv, TypeOK
<1>2. ~cut /\ wpc # "end_master"
  BY DEF IInv, Threads, Locked, InCommit
<1>3. ~conn[k].trailer /\ ~conn[k].spoilt
  BY <1>2 DEF IInv, InStep, Clean
<1>4. CASE copy = 1
  <2>1. opened[k] = conn[k]
    BY <1>4 DEF opened
  <2>2. conn[k].open /\ Len(conn[k].rows) = count
    BY <1>2, <1>4 DEF IInv, InStep
  <2> QED
    BY <1>1, <1>3, <2>1, <2>2
<1>5. CASE copy = 0
  <2>1. opened[k] = [conn[k] EXCEPT !.open = TRUE]
    BY <1>5 DEF opened, PQexec
  <2>2. conn[k].rows = <<>> /\ count = 0
    BY <1>1, <1>5 DEF IInv, InStep, Clean, Threads
  <2>3. opened[k] \in Connection /\ opened[k].open /\ opened[k].rows = conn[k].rows
    BY <1>1, <2>1, ZenonT(30) DEF Connection
  <2>4. /\ opened[k].trailer = conn[k].trailer /\ opened[k].spoilt = conn[k].spoilt
        /\ opened[k].sent = conn[k].sent /\ opened[k].table = conn[k].table
        /\ opened[k].refused = conn[k].refused
    BY <1>1, <2>1 DEF Connection
  <2>5. Len(opened[k].rows) = count
    BY <2>2, <2>3
  <2> QED
    BY <1>3, <2>3, <2>4, <2>5
<1> QED
  BY <1>1, <1>4, <1>5

(* The COPY when a row has been put into it, before any commit().          *)
LEMMA RowPut ==
  ASSUME IInv, ppc = "run", ~Locked, NEW m \in Messages, NEW k \in Conns
  PROVE  LET d == PQputCopyData(opened[k], m) IN
         /\ d \in Connection
         /\ d.open /\ ~d.trailer /\ ~d.spoilt
         /\ Len(d.rows) = count + 1
         /\ d.sent \o d.rows = Append(put, m)
         /\ d.refused = conn[k].refused
         /\ Accounted(d)
<1> DEFINE c == opened[k]
           d == PQputCopyData(c, m)
<1>1. /\ c \in Connection
      /\ c.open /\ ~c.trailer /\ ~c.spoilt
      /\ c.rows = conn[k].rows /\ Len(c.rows) = count
      /\ c.sent = conn[k].sent /\ c.table = conn[k].table /\ c.refused = conn[k].refused
  BY Opened
<1> HIDE DEF c
<1>2. /\ d \in Connection
      /\ d.open /\ ~d.trailer /\ d.spoilt = c.spoilt
      /\ Len(d.rows) = Len(c.rows) + 1
      /\ d.sent = c.sent /\ d.table = c.table /\ d.refused = c.refused
      /\ d.sent \o d.rows = Append(c.sent \o c.rows, m)
  BY <1>1, PutRow, Zenon
<1> HIDE DEF d
<1>3. conn[k].sent \o conn[k].rows = put /\ Accounted(conn[k])
  BY ZenonT(30) DEF IInv, Rows
<1>4. Accounted(d)
  BY <1>1, <1>2, <1>3 DEF Accounted
<1>5. d.sent \o d.rows = Append(put, m)
  BY <1>1, <1>2, <1>3
<1> QED
  BY <1>1, <1>2, <1>4, <1>5 DEF c, d

(* produce() puts a row, and commits the BATCH-th.                         *)
LEMMA ProduceInv == ASSUME IInv, NEW m \in todo, produce(m) PROVE IInv'
<1> DEFINE cs == [k \in Conns |-> PQputCopyData(opened[k], m)]
<1>1. /\ ppc = "run" /\ ~Locked /\ m \in Messages /\ ppc' = ppc /\ wpc' = wpc
      /\ UNCHANGED given /\ cut' = cut /\ todo' = todo \ {m} /\ put' = Append(put, m)
  BY DEF produce, IInv, TypeOK
<1>2. ~cut /\ Conns' = Conns /\ Locked' = Locked
  BY <1>1, SameSetting, SMTT(30) DEF IInv, Threads, Locked, InCommit
<1>3. \A k \in Conns :
        /\ cs[k] \in Connection
        /\ cs[k].open /\ ~cs[k].trailer /\ ~cs[k].spoilt
        /\ Len(cs[k].rows) = count + 1
        /\ cs[k].sent \o cs[k].rows = put'
        /\ cs[k].refused = conn[k].refused
        /\ Accounted(cs[k])
  BY <1>1, RowPut, Zenon
<1>4. cs \in [Conns -> Connection]
  BY <1>3, ZenonT(30)
<1>5. count \in 0..BATCH-1 /\ put \in Seq(Messages) /\ BATCH \in Nat
  BY PgAssumption DEF IInv, TypeOK
<1>6. Append(put, m) \in Seq(Messages)
  BY <1>1, <1>5
<1>7. CASE batch_full(count + 1)
  <2>1. conn' = commit(cs) /\ count' = 0 /\ copy' = 0 /\ commit_iter' = 0
    BY <1>7 DEF produce
  <2> HIDE DEF cs
  <2>2. \A k \in Conns : Accounted(cs[k]) /\ Clean(cs[k]) /\ Len(cs[k].rows) <= BATCH
    <3>1. count + 1 <= BATCH
      BY <1>5
    <3> QED
      BY <1>3, <3>1, Zenon DEF Clean
  <2>3. TypeOK
    BY DEF IInv
  <2>4. /\ commit(cs) \in [Conns -> Connection]
        /\ \A k \in Conns :
             LET d == commit(cs)[k] IN
             /\ ~d.open /\ Clean(d) /\ ~d.trailer /\ d.rows = <<>>
             /\ d.sent \o d.rows = cs[k].sent \o cs[k].rows
             /\ Accounted(d)
             /\ \A r \in d.refused :
                  \/ r \in cs[k].refused
                  \/ /\ Len(r.rows) <= BATCH
                     /\ \/ \E n \in Range(r.rows) : ~Good(n)
                        \/ r.spoilt /\ k = "master" /\ setting.binary /\ cs[k].trailer
    BY <1>4, <2>2, <2>3, Commit, ZenonT(30)
  <2>5. TypeOK'
    <3>1. 0 \in 0..BATCH-1 /\ 0 \in 0..ITER-1
      BY PgAssumption
    <3> QED
      BY <1>1, <1>2, <1>5, <1>6, <2>1, <2>3, <2>4, <3>1, ZenonT(30) DEF TypeOK, given
  <2>6. Threads'
    BY <1>1, <2>1 DEF IInv, Threads
  <2>7. ASSUME NEW k \in Conns PROVE InStep(k)' /\ Rows(k)'
    <3>1. InStep(k)'
      <4>1. ~conn'[k].open /\ ~conn'[k].trailer /\ Clean(conn[k])'
        BY <2>1, <2>4, Zenon DEF Clean
      <4> QED
        BY <2>1, <4>1 DEF InStep
    <3>2. Excused(conn[k], k)'
      <4>1. \A r \in conn'[k].refused :
              \/ r \in conn[k].refused
              \/ Len(r.rows) <= BATCH /\ \E n \in Range(r.rows) : ~Good(n)
        BY <1>3, <2>1, <2>4, Zenon
      <4> QED
        BY <1>1, <4>1, StillExcused
    <3>3. Accounted(conn[k])' /\ conn'[k].sent \o conn'[k].rows = put'
      BY <1>3, <2>1, <2>4, Zenon DEF Accounted
    <3> QED
      BY <3>1, <3>2, <3>3 DEF Rows
  <2> QED
    BY <1>2, <2>5, <2>6, <2>7, SMTT(30) DEF IInv
<1>8. CASE ~batch_full(count + 1)
  <2>1. conn' = cs /\ count' = count + 1 /\ copy' = 1 /\ commit_iter' = commit_iter
    BY <1>8 DEF produce
  <2> HIDE DEF cs
  <2>2. count' \in 0..BATCH-1
    BY <1>5, <1>8, <2>1 DEF batch_full
  <2>3. TypeOK'
    BY <1>1, <1>2, <1>4, <1>6, <2>1, <2>2, SMTT(30) DEF IInv, TypeOK, given
  <2>4. Threads'
    BY <1>1, <2>1, SMTT(30) DEF IInv, Threads
  <2>5. ASSUME NEW k \in Conns PROVE InStep(k)' /\ Rows(k)'
    <3>1. InStep(k)'
      BY <1>1, <1>2, <1>3, <2>1, Zenon DEF InStep, Clean, Locked, InCommit
    <3>2. Excused(conn[k], k)'
      BY <1>1, <1>3, <2>1, StillExcused, Zenon
    <3>3. Accounted(conn[k])' /\ conn'[k].sent \o conn'[k].rows = put'
      BY <1>3, <2>1, ZenonT(30) DEF Accounted
    <3> QED
      BY <3>1, <3>2, <3>3 DEF Rows
  <2> QED
    BY <1>2, <2>3, <2>4, <2>5 DEF IInv
<1> QED
  BY <1>7, <1>8

(* exports: the COPY begins, and nothing is put into it.                   *)
LEMMA UnparsedInv == ASSUME IInv, NEW m \in todo, produce_unparsed(m) PROVE IInv'
<1>1. /\ ppc = "run" /\ ~Locked /\ ppc' = ppc /\ wpc' = wpc /\ commit_iter' = commit_iter
      /\ UNCHANGED <<given, put>> /\ cut' = cut /\ todo' = todo \ {m}
      /\ conn' = opened /\ copy' = 1 /\ count' = count
  BY DEF produce_unparsed
<1>2. ~cut /\ Conns' = Conns /\ Locked' = Locked
  BY <1>1, SameSetting DEF IInv, Threads, Locked, InCommit
<1>3. \A k \in Conns :
        /\ opened[k] \in Connection
        /\ opened[k].open /\ ~opened[k].trailer /\ ~opened[k].spoilt
        /\ opened[k].rows = conn[k].rows /\ Len(opened[k].rows) = count
        /\ opened[k].sent = conn[k].sent /\ opened[k].table = conn[k].table
        /\ opened[k].refused = conn[k].refused
  BY <1>1, Opened
<1>4. opened \in [Conns -> Connection]
  BY <1>3 DEF opened
<1>5. TypeOK'
  BY <1>1, <1>2, <1>4 DEF IInv, TypeOK, given
<1>6. Threads'
  BY <1>1 DEF IInv, Threads
<1>7. ASSUME NEW k \in Conns PROVE InStep(k)' /\ Rows(k)'
  <2>1. InStep(k)'
    BY <1>1, <1>2, <1>3 DEF InStep, Clean, Locked, InCommit
  <2> QED
    BY <1>1, <1>3, <2>1, RowsKept
<1> QED
  BY <1>2, <1>5, <1>6, <1>7 DEF IInv
-----------------------------------------------------------------------------
(* The worker's clock: commit() is only begun with rows to commit.         *)
LEMMA TickInv == ASSUME IInv, worker_tick PROVE IInv'
<1>1. /\ wpc = "sleep" /\ wpc' \in {"sleep", "trailer"} /\ commit_iter' = tick(commit_iter)
      /\ UNCHANGED <<given, put>> /\ conn' = conn /\ count' = count /\ copy' = copy
      /\ ppc' = ppc /\ todo' = todo /\ cut' = cut
  BY DEF worker_tick
<1>2. Conns' = Conns /\ ~cut /\ ppc # "freed" /\ ~Locked
  BY <1>1, SameSetting DEF IInv, Threads, Locked, InCommit
<1>3. tick(commit_iter) \in 0..ITER-1
  BY PgAssumption DEF IInv, TypeOK, tick
<1>4. TypeOK'
  BY <1>1, <1>2, <1>3 DEF IInv, TypeOK, given, InCommit
<1>5. Threads'
  BY <1>1, <1>2 DEF IInv, Threads
<1>6. ASSUME NEW k \in Conns PROVE InStep(k)' /\ Rows(k)'
  <2>1. InStep(k)'
    BY <1>1, <1>2 DEF IInv, InStep, Clean, given
  <2> QED
    BY <1>1, <1>2, <2>1, RowsKept, SMTT(30)
<1> QED
  BY <1>2, <1>4, <1>5, <1>6 DEF IInv

(* What the steps of the worker's commit() leave alone.                    *)
LEMMA InCommitKept ==
  ASSUME IInv, wpc \in InCommit, wpc' \in InCommit, UNCHANGED <<given, meta, ppc, todo, put, cut>>
  PROVE  /\ Conns' = Conns /\ ~cut /\ ppc # "freed" /\ Threads'
         /\ conn' \in [Conns -> Connection] => TypeOK'
<1>1. Conns' = Conns /\ ~cut /\ ppc # "freed" /\ wpc' # "exit"
  BY SameSetting DEF IInv, Threads, InCommit
<1>2. Threads'
  BY <1>1 DEF IInv, Threads, meta
<1>3. ASSUME conn' \in [Conns -> Connection] PROVE TypeOK'
  BY <1>1, <1>3 DEF IInv, TypeOK, given, meta
<1> QED
  BY <1>1, <1>2, <1>3

(* commit(): the trailer goes to the master.                               *)
LEMMA TrailerInv == ASSUME IInv, worker_trailer PROVE IInv'
<1>1. /\ wpc = "trailer" /\ wpc' = "end_master" /\ conn' = [conn EXCEPT !["master"] = WithTrailer(@)]
      /\ UNCHANGED <<given, meta, ppc, todo, put, cut>>
  BY DEF worker_trailer
<1>2. TypeOK /\ conn \in [Conns -> Connection] /\ wpc \in InCommit /\ wpc' \in InCommit
  BY <1>1 DEF IInv, TypeOK, InCommit
<1>3. /\ Conns' = Conns /\ ~cut /\ ppc # "freed" /\ Threads'
      /\ conn' \in [Conns -> Connection] => TypeOK'
  BY <1>1, <1>2, InCommitKept
<1>4. "master" \in Conns /\ setting.binary \in BOOLEAN
  BY <1>2, SettingType
<1>5. ASSUME NEW k \in Conns
      PROVE  /\ conn'[k] \in Connection /\ InStep(k)' /\ Rows(k)'
  <2>0. /\ ~conn[k].trailer /\ Clean(conn[k])
        /\ conn[k].open => copy = 1 /\ Len(conn[k].rows) = count
    BY <1>1, <1>3 DEF IInv, InStep
  <2>1. CASE k = "master"
    <3> DEFINE d == WithTrailer(conn[k])
    <3>1. conn'[k] = d
      BY <1>1, <1>2, <2>1
    <3>2. /\ d \in Connection
          /\ d.open = conn[k].open /\ d.rows = conn[k].rows /\ d.sent = conn[k].sent
          /\ d.table = conn[k].table /\ d.refused = conn[k].refused
          /\ ~conn[k].open => d = conn[k]
          /\ d.trailer => conn[k].trailer \/ (setting.binary /\ conn[k].open)
          /\ d.spoilt => conn[k].spoilt \/ (setting.binary /\ conn[k].trailer)
      BY <1>2, <1>4, Trailer, SMTT(30)
    <3> HIDE DEF d
    <3>3. Clean(d) /\ (d.trailer => setting.binary)
      BY <2>0, <3>2, SMTT(30) DEF Clean
    <3>4. InStep(k)'
      <4>1. Clean(conn[k])' /\ conn'[k].open = conn[k].open /\ conn'[k].rows = conn[k].rows
        BY <3>1, <3>2, <3>3, Zenon
      <4>2. conn'[k].trailer => k = "master" /\ setting.binary
        BY <2>1, <3>1, <3>3, Zenon
      <4>3. setting' = setting /\ copy' = copy /\ count' = count /\ ppc' # "freed"
        BY <1>1, <1>3, Zenon DEF given, meta
      <4> QED
        BY <1>1, <1>2, <2>0, <4>1, <4>2, <4>3, ZenonT(30) DEF InStep, Locked
    <3> QED
      BY <1>1, <1>3, <3>1, <3>2, <3>4, RowsKept, SMTT(30)
  <2>2. CASE k # "master"
    <3>1. conn'[k] = conn[k]
      BY <1>1, <1>2, <2>2, SMTT(30)
    <3>2. InStep(k)'
      BY <1>1, <1>2, <1>3, <2>0, <2>2, <3>1, SMTT(30) DEF InStep, Clean, Locked, InCommit, meta
    <3> QED
      BY <1>1, <1>2, <1>3, <3>1, <3>2, RowsKept, SMTT(30)
  <2> QED
    BY <2>1, <2>2
<1>6. conn' \in [Conns -> Connection]
  BY <1>1, <1>2, <1>5, ZenonT(30)
<1> QED
  BY <1>3, <1>5, <1>6 DEF IInv

(* No COPY holds more than a batch.                                        *)
LEMMA RowsBounded == ASSUME IInv, NEW k \in Conns PROVE Len(conn[k].rows) <= BATCH
<1>1. count \in 0..BATCH-1 /\ BATCH \in Nat
  BY PgAssumption DEF IInv, TypeOK
<1>2. CASE conn[k].open
  BY <1>1, <1>2 DEF IInv, InStep
<1>3. CASE ~conn[k].open
  <2>1. Len(conn[k].rows) = 0
    BY <1>3 DEF IInv, InStep, Clean
  <2> QED
    BY <1>1, <2>1
<1> QED
  BY <1>2, <1>3

(* A connection whose COPY the worker ends.                                *)
LEMMA CopyEnded ==
  ASSUME IInv, UNCHANGED <<given, put>>, ppc # "freed", NEW k \in Conns,
         conn'[k] = PQputCopyEnd(conn[k])
  PROVE  /\ conn'[k] \in Connection
         /\ ~conn'[k].open /\ ~conn'[k].trailer /\ Clean(conn[k])'
         /\ Rows(k)'
<1> DEFINE c == conn[k]
           d == PQputCopyEnd(c)
<1>1. /\ c \in Connection /\ Accounted(c) /\ c.sent \o c.rows = put
      /\ ~c.spoilt /\ (~c.open => c.rows = <<>> /\ ~c.trailer)
  BY Zenon DEF IInv, TypeOK, InStep, Clean, Rows
<1>2. Len(c.rows) <= BATCH
  BY RowsBounded
<1> HIDE DEF c
<1>3. /\ d \in Connection
      /\ ~d.open /\ Clean(d) /\ ~d.trailer /\ d.rows = <<>>
      /\ d.sent \o d.rows = c.sent \o c.rows
      /\ Accounted(d)
      /\ \A r \in d.refused :
           \/ r \in c.refused
           \/ /\ Len(r.rows) <= BATCH
              /\ (\E m \in Range(r.rows) : ~Good(m)) \/ (r.spoilt /\ c.spoilt)
  BY <1>1, <1>2, EndCopy, ZenonT(30)
<1>4. conn'[k] = d
  BY DEF c
<1> HIDE DEF d
<1>5. Excused(conn[k], k)'
  <2>1. \A r \in conn'[k].refused :
          \/ r \in conn[k].refused
          \/ Len(r.rows) <= BATCH /\ \E m \in Range(r.rows) : ~Good(m)
    BY <1>1, <1>3, <1>4 DEF c
  <2> QED
    BY <2>1, StillExcused
<1>6. Accounted(conn[k])' /\ conn'[k].sent \o conn'[k].rows = put'
  BY <1>1, <1>3, <1>4, ZenonT(30) DEF Accounted
<1>7. Clean(conn[k])'
  BY <1>3, <1>4 DEF Clean
<1> QED
  BY <1>3, <1>4, <1>5, <1>6, <1>7, Zenon DEF Rows

(* commit(): the master's COPY ends.                                       *)
LEMMA EndMasterInv == ASSUME IInv, worker_end_master PROVE IInv'
<1>1. /\ wpc = "end_master" /\ wpc' \in {"end_replica", "reset"}
      /\ wpc' = "reset" => ~setting.replica
      /\ conn' = [conn EXCEPT !["master"] = PQputCopyEnd(@)]
      /\ UNCHANGED <<given, meta, ppc, todo, put, cut>>
  BY DEF worker_end_master
<1>2. TypeOK /\ conn \in [Conns -> Connection] /\ wpc \in InCommit /\ wpc' \in InCommit
  BY <1>1 DEF IInv, TypeOK, InCommit
<1>3. /\ Conns' = Conns /\ ~cut /\ ppc # "freed" /\ Threads'
      /\ conn' \in [Conns -> Connection] => TypeOK'
  BY <1>1, <1>2, InCommitKept, SMTT(30)
<1>4. ASSUME NEW k \in Conns
      PROVE  /\ conn'[k] \in Connection /\ InStep(k)' /\ Rows(k)'
  <2>1. CASE k = "master"
    <3>1. conn'[k] = PQputCopyEnd(conn[k])
      BY <1>1, <1>2, <2>1, SMTT(30)
    <3>2. /\ conn'[k] \in Connection
          /\ ~conn'[k].open /\ ~conn'[k].trailer /\ Clean(conn[k])'
          /\ Rows(k)'
      BY <1>1, <1>3, <3>1, CopyEnded, SMTT(30)
    <3>3. InStep(k)'
      BY <1>2, <3>2 DEF InStep, Locked
    <3> QED
      BY <3>2, <3>3
  <2>2. CASE k # "master"
    <3>1. conn'[k] = conn[k] /\ wpc' # "reset"
      BY <1>1, <1>2, <2>2 DEF Conns
    <3>2. /\ ~conn[k].trailer /\ Clean(conn[k])
          /\ conn[k].open => copy = 1 /\ Len(conn[k].rows) = count
      BY <2>2 DEF IInv, InStep
    <3>3. InStep(k)'
      <4>1. copy' = copy /\ count' = count /\ ppc' # "freed"
        BY <1>1, <1>3, Zenon DEF meta
      <4>2. Clean(conn[k])'
        BY <3>1, <3>2, Zenon
      <4> QED
        BY <1>1, <1>2, <2>2, <3>1, <3>2, <4>1, <4>2, ZenonT(30) DEF InStep, Locked
    <3> QED
      BY <1>1, <1>2, <1>3, <3>1, <3>3, RowsKept, SMTT(30)
  <2> QED
    BY <2>1, <2>2
<1>5. conn' \in [Conns -> Connection]
  BY <1>1, <1>2, <1>4, ZenonT(30)
<1> QED
  BY <1>3, <1>4, <1>5 DEF IInv

(* commit(): the replica's COPY ends.                                      *)
LEMMA EndReplicaInv == ASSUME IInv, worker_end_replica PROVE IInv'
<1>1. /\ wpc = "end_replica" /\ wpc' = "reset"
      /\ conn' = [conn EXCEPT !["replica"] = PQputCopyEnd(@)]
      /\ UNCHANGED <<given, meta, ppc, todo, put, cut>>
  BY DEF worker_end_replica
<1>2. TypeOK /\ conn \in [Conns -> Connection] /\ wpc \in InCommit /\ wpc' \in InCommit
  BY <1>1 DEF IInv, TypeOK, InCommit
<1>3. /\ Conns' = Conns /\ ~cut /\ ppc # "freed" /\ Threads'
      /\ conn' \in [Conns -> Connection] => TypeOK'
  BY <1>1, <1>2, InCommitKept
<1>4. ASSUME NEW k \in Conns
      PROVE  /\ conn'[k] \in Connection /\ InStep(k)' /\ Rows(k)'
  <2>1. CASE k = "replica"
    <3>1. conn'[k] = PQputCopyEnd(conn[k])
      BY <1>1, <1>2, <2>1
    <3>2. /\ conn'[k] \in Connection
          /\ ~conn'[k].open /\ ~conn'[k].trailer /\ Clean(conn[k])'
          /\ Rows(k)'
      BY <1>1, <1>3, <3>1, CopyEnded, SMTT(30)
    <3>3. InStep(k)'
      BY <1>2, <3>2 DEF InStep, Locked
    <3> QED
      BY <3>2, <3>3
  <2>2. CASE k # "replica"
    <3>1. conn'[k] = conn[k] /\ k = "master"
      BY <1>1, <1>2, <2>2, SMTT(30) DEF Conns
    <3>2. ~conn[k].open /\ ~conn[k].trailer /\ Clean(conn[k])
      BY <1>1, <3>1 DEF IInv, InStep, Clean
    <3>3. InStep(k)'
      BY <1>1, <1>2, <1>3, <3>1, <3>2, SMTT(30) DEF InStep, Clean, Locked
    <3> QED
      BY <1>1, <1>2, <1>3, <3>1, <3>3, RowsKept, SMTT(30)
  <2> QED
    BY <2>1, <2>2
<1>5. conn' \in [Conns -> Connection]
  BY <1>1, <1>2, <1>4, ZenonT(30)
<1> QED
  BY <1>3, <1>4, <1>5 DEF IInv

(* commit(): the counters are reset and the mutex is given back.           *)
LEMMA ResetInv == ASSUME IInv, worker_reset PROVE IInv'
<1>1. /\ wpc = "reset" /\ wpc' = "sleep" /\ conn' = conn
      /\ count' = 0 /\ copy' = 0 /\ commit_iter' = 0
      /\ UNCHANGED <<given, put>> /\ ppc' = ppc /\ todo' = todo /\ cut' = cut
  BY DEF worker_reset
<1>2. Conns' = Conns /\ ~cut /\ ppc # "freed"
  BY <1>1, SameSetting DEF IInv, Threads
<1>3. 0 \in 0..BATCH-1 /\ 0 \in 0..ITER-1
  BY PgAssumption
<1>4. TypeOK'
  BY <1>1, <1>2, <1>3 DEF IInv, TypeOK, given, InCommit
<1>5. Threads'
  BY <1>1, <1>2 DEF IInv, Threads
<1>6. ASSUME NEW k \in Conns PROVE InStep(k)' /\ Rows(k)'
  <2>1. ~conn[k].open /\ ~conn[k].trailer /\ Clean(conn[k])
    BY <1>1 DEF IInv, InStep, Clean
  <2>2. InStep(k)'
    BY <1>1, <1>2, <2>1 DEF InStep, Clean
  <2> QED
    BY <1>1, <1>2, <2>2, RowsKept, SMTT(30)
<1> QED
  BY <1>2, <1>4, <1>5, <1>6 DEF IInv

(* The cancellation takes the worker wherever it stands.                   *)
LEMMA CancelledInv == ASSUME IInv, worker_cancelled PROVE IInv'
<1>1. /\ ppc = "cancelled" /\ wpc # "exit" /\ wpc' = "exit" /\ cut' = Locked
      /\ UNCHANGED <<given, put>> /\ conn' = conn /\ count' = count /\ copy' = copy
      /\ commit_iter' = commit_iter /\ ppc' = ppc /\ todo' = todo
  BY DEF worker_cancelled, meta
<1>2. Conns' = Conns /\ ~cut /\ ~Locked'
  BY <1>1, SameSetting DEF IInv, Threads, Locked, InCommit
<1>3. TypeOK'
  <2>1. cut' \in BOOLEAN
    BY <1>1 DEF Locked
  <2> QED
    BY <1>1, <1>2, <2>1 DEF IInv, TypeOK, given
<1>4. Threads'
  BY <1>1 DEF IInv, Threads
<1>5. ASSUME NEW k \in Conns PROVE InStep(k)' /\ Rows(k)'
  <2>1. InStep(k)'
    BY <1>1, <1>2, ZenonT(30) DEF IInv, InStep, Clean, Locked, InCommit, given
  <2> QED
    BY <1>1, <2>1, RowsKept
<1> QED
  BY <1>2, <1>3, <1>4, <1>5 DEF IInv

(* pthread_cancel only asks.                                               *)
LEMMA FreeInv == ASSUME IInv, producer_free PROVE IInv'
<1>1. /\ ppc = "run" /\ ppc' = "cancelled" /\ wpc' = wpc /\ cut' = cut
      /\ UNCHANGED <<given, put>> /\ conn' = conn /\ count' = count /\ copy' = copy
      /\ commit_iter' = commit_iter /\ todo' = todo
  BY DEF producer_free, meta
<1>2. Conns' = Conns /\ ~cut
  BY <1>1, SameSetting DEF IInv, Threads
<1>3. TypeOK'
  BY <1>1, <1>2 DEF IInv, TypeOK, given
<1>4. Threads'
  BY <1>1 DEF IInv, Threads
<1>5. ASSUME NEW k \in Conns PROVE InStep(k)' /\ Rows(k)'
  <2>1. InStep(k)'
    BY <1>1, <1>2 DEF IInv, InStep, Clean, Locked, given
  <2> QED
    BY <1>1, <2>1, RowsKept
<1> QED
  BY <1>2, <1>3, <1>4, <1>5 DEF IInv

(* The last commit(): only here can a second trailer follow the first, and *)
(* only if the worker was cut short after it had sent the first.           *)
LEMMA FreeJoinedInv == ASSUME IInv, producer_free_joined PROVE IInv'
<1>1. /\ ppc = "cancelled" /\ wpc = "exit" /\ wpc' = wpc /\ ppc' = "freed" /\ cut' = cut
      /\ UNCHANGED <<given, put>> /\ todo' = todo
  BY DEF producer_free_joined
<1>2. Conns' = Conns /\ TypeOK /\ conn \in [Conns -> Connection] /\ \A m : Good(m)' = Good(m)
  BY <1>1, SameSetting DEF IInv, TypeOK
<1>3. 0 \in 0..BATCH-1 /\ 0 \in 0..ITER-1
  BY PgAssumption
<1>4. CASE leftover
  <2>1. conn' = commit(conn) /\ count' = 0 /\ copy' = 0 /\ commit_iter' = 0
    BY <1>4 DEF producer_free_joined
  <2>2. \A k \in Conns : Accounted(conn[k]) /\ Clean(conn[k]) /\ Len(conn[k].rows) <= BATCH
    BY RowsBounded, Zenon DEF IInv, InStep, Rows
  <2>3. /\ commit(conn) \in [Conns -> Connection]
        /\ \A k \in Conns :
             LET d == commit(conn)[k] IN
             /\ ~d.open /\ Clean(d) /\ ~d.trailer /\ d.rows = <<>>
             /\ d.sent \o d.rows = conn[k].sent \o conn[k].rows
             /\ Accounted(d)
             /\ \A r \in d.refused :
                  \/ r \in conn[k].refused
                  \/ /\ Len(r.rows) <= BATCH
                     /\ \/ \E n \in Range(r.rows) : ~Good(n)
                        \/ r.spoilt /\ k = "master" /\ setting.binary /\ conn[k].trailer
    BY <1>2, <2>2, Commit, ZenonT(30)
  <2>4. TypeOK'
    BY <1>1, <1>2, <1>3, <2>1, <2>3 DEF TypeOK, given
  <2>5. Threads'
    BY <1>1, <2>1 DEF Threads
  <2>6. ASSUME NEW k \in Conns PROVE InStep(k)' /\ Rows(k)'
    <3>1. ~conn'[k].open /\ ~conn'[k].trailer /\ Clean(conn[k])'
      BY <2>1, <2>3, Zenon DEF Clean
    <3>2. InStep(k)'
      BY <2>1, <3>1 DEF InStep
    <3>3. Accounted(conn[k])' /\ conn'[k].sent \o conn'[k].rows = put'
      BY <1>1, <2>1, <2>3, Zenon DEF Accounted, IInv, Rows
    <3>4. Excused(conn[k], k) /\ ~Spoiling(k) /\ (conn[k].trailer => cut)
      BY <1>1, ZenonT(30) DEF IInv, Rows, InStep, Spoiling
    <3>5. ASSUME NEW r \in conn'[k].refused
          PROVE  /\ Len(r.rows) <= BATCH
                 /\ (\E m \in Range(r.rows) : ~Good(m)) \/ (r.spoilt /\ Spoiling(k)')
      <4>1. CASE r \in conn[k].refused
        BY <3>4, <4>1 DEF Excused
      <4>2. CASE r \notin conn[k].refused
        <5>1. /\ Len(r.rows) <= BATCH
              /\ \/ \E n \in Range(r.rows) : ~Good(n)
                 \/ r.spoilt /\ k = "master" /\ setting.binary /\ conn[k].trailer
          BY <2>1, <2>3, <3>5, <4>2, ZenonT(30)
        <5> QED
          BY <1>1, <3>4, <5>1, SMTT(30) DEF Spoiling, given
      <4> QED
        BY <4>1, <4>2
    <3>6. Excused(conn[k], k)'
      BY <1>2, <3>5 DEF Excused
    <3> QED
      BY <3>2, <3>3, <3>6, SMTT(30) DEF Rows
  <2> QED
    BY <1>2, <2>4, <2>5, <2>6 DEF IInv
<1>5. CASE ~leftover
  <2>1. conn' = conn /\ copy' = copy /\ count' = count /\ commit_iter' = commit_iter /\ copy = 0
    BY <1>5 DEF producer_free_joined, leftover, meta
  <2>2. TypeOK'
    BY <1>1, <1>2, <2>1 DEF TypeOK, given
  <2>3. Threads'
    BY <1>1, <2>1 DEF IInv, Threads
  <2>4. ASSUME NEW k \in Conns PROVE InStep(k)' /\ Rows(k)'
    <3>1. ~conn[k].open /\ ~conn[k].trailer /\ Clean(conn[k])
      <4>1. copy # 1
        BY ONLY <2>1
      <4> QED
        BY <4>1, ZenonT(30) DEF IInv, InStep, Clean
    <3>2. InStep(k)'
      BY <2>1, <3>1, ClosedInStep, Zenon
    <3> QED
      BY <1>1, <2>1, <3>2, RowsKept, SMTT(30)
  <2> QED
    BY <1>2, <2>2, <2>3, <2>4 DEF IInv
<1> QED
  BY <1>4, <1>5
-----------------------------------------------------------------------------
(* Every step keeps the invariant.                                         *)
LEMMA NextInv == ASSUME IInv, [Next]_vars PROVE IInv'
<1>1. ASSUME NEW m \in todo, produce_discard(m) \/ produce(m) \/ produce_unparsed(m) PROVE IInv'
  BY <1>1, DiscardInv, ProduceInv, UnparsedInv, SMTT(30)
<1>2. CASE worker_tick
  BY <1>2, TickInv
<1>3. CASE worker_commit
  BY <1>3, TrailerInv, EndMasterInv, EndReplicaInv, ResetInv, SMTT(30) DEF worker_commit
<1>4. CASE worker_cancelled
  BY <1>4, CancelledInv
<1>5. CASE producer_free
  BY <1>5, FreeInv
<1>6. CASE producer_free_joined
  BY <1>6, FreeJoinedInv
<1>7. CASE UNCHANGED vars
  <2>1. Conns' = Conns /\ Locked' = Locked /\ \A m : Good(m)' = Good(m)
    BY <1>7 DEF vars, Conns, Locked, InCommit, Good
  <2>2. TypeOK' /\ Threads'
    BY <1>7, <2>1 DEF vars, IInv, TypeOK, Threads
  <2>3. ASSUME NEW k \in Conns PROVE InStep(k)' /\ Rows(k)'
    <3>1. InStep(k)'
      BY <1>7, <2>1, InStepKept, Zenon DEF vars, IInv
    <3>2. Rows(k)'
      BY <1>7, <2>1, ZenonT(30) DEF vars, IInv, Rows, Accounted, Excused, Spoiling
    <3> QED
      BY <3>1, <3>2, SMTT(30)
  <2> QED
    BY <2>1, <2>2, <2>3, SMTT(30) DEF IInv
<1> QED
  BY <1>1, <1>2, <1>3, <1>4, <1>5, <1>6, <1>7, SMTT(30) DEF Next

(***************************************************************************)
(* The postgres producer keeps its invariant, for any batch size, any      *)
(* number of ticks between commits, any setting and any messages.          *)
(***************************************************************************)
THEOREM Invariance == Spec => []IInv
<1>1. Init => IInv
  BY InitInv
<1>2. IInv /\ [Next]_vars => IInv'
  BY NextInv
<1> QED
  BY <1>1, <1>2, PTL DEF Spec

(***************************************************************************)
(* Whenever the worker or produce() holds the mutex before a commit, count *)
(* and copy tell the truth about the COPYs of both connections, which is   *)
(* what the comment at utils/postgres.c:51-52 relies on.                   *)
(***************************************************************************)
THEOREM CountersTellTheCopy == Spec => []CommitSafe
<1>1. ASSUME IInv PROVE CommitSafe
  <2>1. count \in 0..BATCH-1 /\ BATCH \in Nat /\ (count > 0 => copy = 1)
    BY <1>1, PgAssumption DEF IInv, TypeOK, Threads
  <2>2. count < BATCH
    BY <2>1
  <2>3. ASSUME ~Locked, ~cut, NEW k \in Conns
        PROVE  (conn[k].open <=> copy = 1) /\ Len(conn[k].rows) = count
    <3>1. /\ conn[k].open <=> copy = 1
          /\ conn[k].open => Len(conn[k].rows) = count
          /\ ~conn[k].open => conn[k].rows = <<>>
      BY <1>1, <2>3 DEF IInv, InStep, Clean
    <3>2. ~conn[k].open => count = 0
      BY <2>1, <3>1
    <3> QED
      BY <3>1, <3>2, SMTT(30)
  <2> QED
    BY <2>1, <2>2, <2>3, SMTT(30) DEF CommitSafe
<1> QED
  BY <1>1, Invariance, PTL

(***************************************************************************)
(* Every row put is stored, in the open COPY, or went down with a COPY the *)
(* server refused as a whole: for a row that is no good, or, once          *)
(* producer_free is through, for the trailer that it repeated after the    *)
(* worker had been cancelled inside of commit() (postgres.c:345-362).      *)
(***************************************************************************)
THEOREM RowsAccountedFor == Spec => []NoRowLost
<1>1. IInv => NoRowLost
  BY Zenon DEF IInv, Rows, Accounted, Excused, Spoiling, NoRowLost
<1> QED
  BY <1>1, Invariance, PTL

(* producer_free leaves no row behind in an open COPY.                     *)
THEOREM NothingLeftOpen == Spec => []FinalFlush
<1>1. IInv => FinalFlush
  BY DEF IInv, InStep, Clean, FinalFlush
<1> QED
  BY <1>1, Invariance, PTL
=============================================================================
