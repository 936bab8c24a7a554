------------------------------ MODULE PgCommit ------------------------------
(***************************************************************************)
(* postgres.c, exports.c and utils/postgres.c: one postgres producer.  The *)
(* producer thread streams rows into a COPY and ends the COPY after every  *)
(* BATCH rows; its commit_worker thread ends a COPY that has been standing *)
(* for ITER seconds; producer_free cancels the worker, joins it and ends   *)
(* what is left.                                                           *)
(*                                                                         *)
(* produce() holds commit_mutex from the first look at the COPY to the     *)
(* last and cannot be cancelled, so it is one step.  The worker's commit() *)
(* is not: pthread_cancel can hit it in any of its libpq calls, which send *)
(* to a socket.                                                            *)
(***************************************************************************)
EXTENDS Integers, Sequences, SequencesExt, Payload

CONSTANTS Messages,    \* the messages handed to produce(), each once
          BATCH,       \* 2000
          ITER,        \* 16: commit_iter is masked with 0xF
          Cases        \* settings a producer may have, and messages it may get

(***************************************************************************)
(* replica: conninfo_replica # NULL; binary: cpyfmt == PQ_COPY_BINARY;     *)
(* exports: the exports producer, always binary and without a replica.     *)
(***************************************************************************)
Setting == {s \in [replica : BOOLEAN, binary : BOOLEAN, exports : BOOLEAN] :
              s.exports => s.binary /\ ~s.replica}

(***************************************************************************)
(* terminated: data[len] is '\0'; taken: the server takes the text row     *)
(* that is made of the bytes (binary rows were made for the table).        *)
(***************************************************************************)
Payloads == [terminated : BOOLEAN, bytes : Seq(0..255), taken : BOOLEAN]

ASSUME PgAssumption ==
  /\ BATCH \in Nat \ {0}
  /\ ITER \in Nat \ {0}
  /\ \A c \in Cases : /\ c = [setting |-> c.setting, load |-> c.load]
                       /\ c.setting \in Setting
                       /\ DOMAIN c.load \subseteq Messages
                       /\ \A m \in DOMAIN c.load :
                            /\ c.load[m] \in Payloads
                            /\ c.load[m].taken <=> Acceptable(row(c.load[m].bytes))

VARIABLES
  setting,      \* the setting of this producer, which never changes
  load,         \* the payloads of the messages, which never change either
  conn,         \* conn[k]: the connection to the master or replica
  count,        \* m->count: rows in the COPY
  copy,         \* m->copy: 1 while there is a COPY
  commit_iter,  \* m->commit_iter: ticks of the worker since the last commit
  wpc,          \* where commit_worker stands
  ppc,          \* "run", "cancelled" (in producer_free), "freed"
  todo,         \* messages not yet handed to produce()
  put,          \* history: the rows put, in order
  cut           \* history: the worker was cancelled inside of commit()

meta == <<count, copy, commit_iter>>
given == <<setting, load>>
vars == <<setting, load, conn, count, copy, commit_iter, wpc, ppc, todo, put, cut>>

Conns == IF setting.replica THEN {"master", "replica"} ELSE {"master"}

(* The worker holds commit_mutex exactly while it is in commit().          *)
InCommit == {"trailer", "end_master", "end_replica", "reset"}
Locked == wpc \in InCommit

(***************************************************************************)
(* A connection, and the server behind it.  rows, trailer, spoilt: the     *)
(* rows of the open COPY, whether the trailer was sent, and whether        *)
(* anything came after it.  sent: the rows of the COPYs that were ended;   *)
(* table: those the server stored; refused: the COPYs it did not.          *)
(***************************************************************************)
Closed == [open |-> FALSE, rows |-> <<>>, trailer |-> FALSE, spoilt |-> FALSE,
           sent |-> <<>>, table |-> <<>>, refused |-> {}]

Init ==
  /\ \E c \in Cases : setting = c.setting /\ load = c.load
  /\ conn = [k \in Conns |-> Closed]
  /\ count = 0 /\ copy = 0 /\ commit_iter = 0
  /\ wpc = "sleep"
  /\ ppc = "run"
  /\ todo = DOMAIN load
  /\ put = <<>>
  /\ cut = FALSE
-----------------------------------------------------------------------------
(* PQexec of the COPY command; anything but PGRES_COPY_IN aborts.          *)
PQexec(c) == [c EXCEPT !.open = TRUE]

(* PQputCopyData: without a COPY it fails, which nobody looks at.          *)
PQputCopyData(c, m) ==
  IF c.open THEN [c EXCEPT !.rows = Append(@, m), !.spoilt = @ \/ c.trailer] ELSE c

Good(m) == setting.binary \/ load[m].taken

(***************************************************************************)
(* PQputCopyEnd: the server stores all rows of the COPY, or none if one of *)
(* them is no good or if data followed the trailer.  Nobody looks at the   *)
(* outcome, nor at the failure without a COPY.                             *)
(***************************************************************************)
Stores(c) == ~c.spoilt /\ \A m \in Range(c.rows) : Good(m)
PQputCopyEnd(c) ==
  IF ~c.open THEN c
  ELSE [open |-> FALSE, rows |-> <<>>, trailer |-> FALSE, spoilt |-> FALSE,
        sent |-> c.sent \o c.rows,
        table |-> IF Stores(c) THEN c.table \o c.rows ELSE c.table,
        refused |-> IF Stores(c) THEN c.refused
                    ELSE c.refused \cup {[rows |-> c.rows, spoilt |-> c.spoilt]}]

(* The trailer goes to the master only.                                    *)
WithTrailer(c) ==
  IF setting.binary /\ c.open THEN [c EXCEPT !.trailer = TRUE, !.spoilt = @ \/ c.trailer] ELSE c

(* commit() when nothing can cut it short.                                 *)
commit(cs) ==
  [k \in Conns |-> PQputCopyEnd(IF k = "master" THEN WithTrailer(cs[k]) ELSE cs[k])]
-----------------------------------------------------------------------------
(* Without its terminator, or with a NUL in it, a payload is discarded.    *)
unusable(m) ==
  /\ setting.binary => setting.exports
  /\ \/ ~load[m].terminated
     \/ ~setting.binary /\ embedded_nul(load[m].bytes)

(* Also if it cannot be escaped; all before commit_mutex is taken.         *)
produce_discard(m) ==
  /\ ppc = "run"
  /\ unusable(m) \/ ~setting.binary
  /\ todo' = todo \ {m}
  /\ UNCHANGED <<given, conn, meta, wpc, ppc, put, cut>>

opened_master_only ==
  [k \in Conns |-> IF copy = 0 /\ k = "master" THEN PQexec(conn[k]) ELSE conn[k]]

opened == [k \in Conns |-> IF copy = 0 THEN PQexec(conn[k]) ELSE conn[k]]

batch_full(n) == n = BATCH

(* A row is put; the BATCH-th one is followed by commit().                 *)
produce(m) ==
  LET cs == [k \in Conns |-> PQputCopyData(opened[k], m)] IN
  /\ ppc = "run" /\ ~Locked /\ ~unusable(m)
  /\ todo' = todo \ {m}
  /\ put' = Append(put, m)
  /\ IF batch_full(count + 1)
     THEN conn' = commit(cs) /\ count' = 0 /\ copy' = 0 /\ commit_iter' = 0
     ELSE conn' = cs /\ count' = count + 1 /\ copy' = 1 /\ UNCHANGED commit_iter
  /\ UNCHANGED <<given, wpc, ppc, cut>>

(* exports: the COPY is begun before the message turns out to be no good.  *)
produce_unparsed(m) ==
  /\ setting.exports
  /\ ppc = "run" /\ ~Locked /\ ~unusable(m)
  /\ todo' = todo \ {m}
  /\ conn' = opened
  /\ copy' = 1
  /\ UNCHANGED <<given, count, commit_iter, wpc, ppc, put, cut>>
-----------------------------------------------------------------------------
tick_saturating(i) == IF i < ITER - 1 THEN i + 1 ELSE i
tick(i) == (i + 1) % ITER

(* commit_worker: sleep(1), lock, count the tick, and maybe commit.        *)
worker_tick ==
  /\ wpc = "sleep"
  /\ commit_iter' = tick(commit_iter)
  /\ wpc' = IF commit_iter' = 0 /\ count > 0 THEN "trailer" ELSE "sleep"
  /\ UNCHANGED <<given, conn, count, copy, ppc, todo, put, cut>>

worker_trailer ==
  /\ wpc = "trailer"
  /\ conn' = [conn EXCEPT !["master"] = WithTrailer(@)]
  /\ wpc' = "end_master"
  /\ UNCHANGED <<given, meta, ppc, todo, put, cut>>

worker_end_master ==
  /\ wpc = "end_master"
  /\ conn' = [conn EXCEPT !["master"] = PQputCopyEnd(@)]
  /\ wpc' = IF setting.replica THEN "end_replica" ELSE "reset"
  /\ UNCHANGED <<given, meta, ppc, todo, put, cut>>

worker_end_replica ==
  /\ wpc = "end_replica"
  /\ conn' = [conn EXCEPT !["replica"] = PQputCopyEnd(@)]
  /\ wpc' = "reset"
  /\ UNCHANGED <<given, meta, ppc, todo, put, cut>>

worker_reset_no_copy ==
  /\ wpc = "reset"
  /\ count' = 0 /\ commit_iter' = 0
  /\ wpc' = "sleep"
  /\ UNCHANGED <<given, conn, copy, ppc, todo, put, cut>>

(* The assignments at the end of commit(), and the unlock.                 *)
worker_reset ==
  /\ wpc = "reset"
  /\ count' = 0 /\ copy' = 0 /\ commit_iter' = 0
  /\ wpc' = "sleep"
  /\ UNCHANGED <<given, conn, ppc, todo, put, cut>>

worker_cancelled_disabled == FALSE

(***************************************************************************)
(* The pending cancellation is acted upon: in sleep, in pthread_testcancel *)
(* or in a libpq call of commit(), before or after what it is called for.  *)
(* The cleanup handler unlocks commit_mutex.                               *)
(***************************************************************************)
worker_cancelled ==
  /\ ppc = "cancelled"
  /\ wpc # "exit"
  /\ cut' = Locked
  /\ wpc' = "exit"
  /\ UNCHANGED <<given, conn, meta, ppc, todo, put>>
-----------------------------------------------------------------------------
(* producer_free: pthread_cancel ...                                       *)
producer_free ==
  /\ ppc = "run"
  /\ ppc' = "cancelled"
  /\ UNCHANGED <<given, conn, meta, wpc, todo, put, cut>>

leftover_ignored == FALSE
leftover == copy # 0

(* ... and, the worker joined, a last commit().                            *)
producer_free_joined ==
  /\ ppc = "cancelled"
  /\ wpc = "exit"
  /\ IF leftover
     THEN conn' = commit(conn) /\ count' = 0 /\ copy' = 0 /\ commit_iter' = 0
     ELSE UNCHANGED <<conn, meta>>
  /\ ppc' = "freed"
  /\ UNCHANGED <<given, wpc, todo, put, cut>>
-----------------------------------------------------------------------------
worker_commit == worker_trailer \/ worker_end_master \/ worker_end_replica \/ worker_reset

Next ==
  \/ \E m \in todo : produce_discard(m) \/ produce(m) \/ produce_unparsed(m)
  \/ worker_tick \/ worker_commit \/ worker_cancelled
  \/ producer_free \/ producer_free_joined
  \/ ppc = "freed" /\ UNCHANGED vars

(***************************************************************************)
(* Threads run: the worker goes on ticking and committing, a pending       *)
(* cancellation is acted upon, a join returns.  Nothing is assumed of the  *)
(* messages or of when producer_free is called.                            *)
(***************************************************************************)
Fairness ==
  /\ WF_vars(worker_tick) /\ WF_vars(worker_commit)
  /\ WF_vars(worker_cancelled) /\ WF_vars(producer_free_joined)

Spec == Init /\ [][Next]_vars
FairSpec == Spec /\ Fairness
-----------------------------------------------------------------------------
Refusal == [rows : Seq(Messages), spoilt : BOOLEAN]
Connection == [open : BOOLEAN, rows : Seq(Messages), trailer : BOOLEAN, spoilt : BOOLEAN,
               sent : Seq(Messages), table : Seq(Messages), refused : SUBSET Refusal]

(* The type of the state; commit_iter is four bits wide.                   *)
TypeOK ==
  /\ [setting |-> setting, load |-> load] \in Cases
  /\ conn \in [Conns -> Connection]
  /\ count \in 0..BATCH-1
  /\ copy \in {0, 1}
  /\ commit_iter \in 0..ITER-1
  /\ wpc \in InCommit \cup {"sleep", "exit"}
  /\ ppc \in {"run", "cancelled", "freed"}
  /\ todo \in SUBSET Messages
  /\ put \in Seq(Messages)
  /\ cut \in BOOLEAN

(***************************************************************************)
(* "if count > 0 it implies that copy == 1, therefore it is safe to commit *)
(* data" (utils/postgres.c:51-52), and what makes it safe: outside of      *)
(* commit(), copy says whether both connections are in a COPY, and count   *)
(* how many rows that COPY holds on each of them, always less than BATCH.  *)
(***************************************************************************)
CommitSafe ==
  /\ count > 0 => copy = 1
  /\ count < BATCH
  /\ ~Locked /\ ~cut =>
       \A k \in Conns : /\ conn[k].open <=> copy = 1
                        /\ Len(conn[k].rows) = count

(***************************************************************************)
(* Master and replica are given the same rows in the same order, and every *)
(* row put is stored, in the open COPY, or went down with a COPY that the  *)
(* server refused as a whole: at most BATCH rows, for one of them that is  *)
(* no good, or because producer_free repeated the trailer after the worker *)
(* was cancelled in commit() (postgres.c:308-339, utils/postgres.c:12-23). *)
(***************************************************************************)
NoRowLost ==
  \A k \in Conns :
    LET c == conn[k] IN
    /\ c.sent \o c.rows = put
    /\ \A m \in Range(c.sent) : m \in Range(c.table) \/ \E r \in c.refused : m \in Range(r.rows)
    /\ \A r \in c.refused :
         /\ Len(r.rows) <= BATCH
         /\ \/ \E m \in Range(r.rows) : ~Good(m)
            \/ r.spoilt /\ cut /\ setting.binary /\ ppc = "freed" /\ k = "master"

(***************************************************************************)
(* After producer_free nothing is left in an open COPY, even if the worker *)
(* was cancelled in the middle of commit() and left the master's COPY      *)
(* ended and the replica's not (postgres.c:345-362).                       *)
(***************************************************************************)
FinalFlush ==
  ppc = "freed" => \A k \in Conns : ~conn[k].open /\ conn[k].rows = <<>>

(***************************************************************************)
(* What a text row that was put reads like at the server: the payload, its *)
(* \u0000 escapes and everything that is not UTF-8 replaced by '?', and     *)
(* every quote doubled, for COPY does not undo that part of                *)
(* PQescapeLiteral.  And the server takes the row, if the payload was JSON *)
(* on one line, unless a backslash that is itself escaped stands before    *)
(* u0000: the repair then breaks the escape it is part of                  *)
(* (postgres.c:257-275, 308-320, utils/helper.c:58-154).                   *)
(***************************************************************************)
RowsRight ==
  ~setting.binary =>
    \A p \in {load[m] : m \in Range(put)} : \A s \in {p.bytes} :
      /\ copy_text(row(s)) = doubled({QUOTE}, Cleaned(s))
      /\ Range(s) \cap Breaks = {} /\ WellEscaped(s) =>
           (p.taken <=> EscapedLookalikes(s) = {})

(***************************************************************************)
(* Every row is part of a COPY that is ended, without any further message  *)
(* coming in: by the batch, by the worker's clock or by producer_free.     *)
(***************************************************************************)
AutoCommit ==
  \A m \in Messages :
    m \in Range(put) ~> \A k \in Conns : m \in Range(conn[k].sent)

(* producer_free returns: nobody keeps the mutex or the join waiting.      *)
FreeReturns == ppc = "cancelled" ~> ppc = "freed"
=============================================================================
