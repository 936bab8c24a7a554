---------------------------- MODULE MessageLists ----------------------------
(***************************************************************************)
(* queue.c at the level of its pointers: the cells of struct MessageList,  *)
(* doubly linked into the global list by next and prev, and singly linked  *)
(* into the list of their xmark by xnext.  A cell that is freed keeps its  *)
(* fields and may be allocated again, so a pointer that is left behind     *)
(* shows.  The threads are Queue.tla: the mutex makes each operation here  *)
(* one step.                                                               *)
(***************************************************************************)
EXTENDS Integers, Sequences, SequencesExt, FiniteSets

CONSTANTS Nodes,           \* the cells the allocator has
          Xmarks,
          MAX_QUEUE_SIZE,
          NULL

ASSUME ListAssumption ==
  /\ IsFiniteSet(Nodes) /\ NULL \notin Nodes
  /\ MAX_QUEUE_SIZE \in Nat

VARIABLES
  next, prev, xnext,  \* the fields of the cells
  xmark,              \* xmark[n]: n->msg->xmark
  allocated,          \* the cells in use
  first, last,        \* q->first, q->last
  xfirst, xlast,      \* x->first, x->last
  length, count,      \* q->length, x->count
  freed               \* queue_free has run

heads == <<first, last, xfirst, xlast, length, count>>
vars == <<next, prev, xnext, xmark, allocated, first, last, xfirst, xlast,
          length, count, freed>>

(* No cell has been allocated, so nobody has looked at its fields.         *)
Init ==
  /\ next = [n \in Nodes |-> NULL]
  /\ prev = [n \in Nodes |-> NULL]
  /\ xnext = [n \in Nodes |-> NULL]
  /\ xmark = [n \in Nodes |-> CHOOSE x \in Xmarks : TRUE]
  /\ allocated = {}
  /\ first = NULL /\ last = NULL
  /\ xfirst = [x \in Xmarks |-> NULL]
  /\ xlast = [x \in Xmarks |-> NULL]
  /\ length = 0
  /\ count = [x \in Xmarks |-> 0]
  /\ freed = FALSE
-----------------------------------------------------------------------------
link_lane_front(n, x) ==
  /\ xnext' = [xnext EXCEPT ![n] = xfirst[x]]
  /\ xfirst' = [xfirst EXCEPT ![x] = n]
  /\ xlast' = [xlast EXCEPT ![x] = IF @ = NULL THEN n ELSE @]

(* The last cell of the lane, if any, is followed by n, and n by nothing.  *)
link_lane(n, x) ==
  /\ xnext' = IF xlast[x] = NULL THEN [xnext EXCEPT ![n] = NULL]
              ELSE [xnext EXCEPT ![n] = NULL, ![xlast[x]] = n]
  /\ xfirst' = [xfirst EXCEPT ![x] = IF xlast[x] = NULL THEN n ELSE @]
  /\ xlast' = [xlast EXCEPT ![x] = n]

(* The same in the global list, where n also points back.                  *)
link_global(n) ==
  /\ next' = IF last = NULL THEN [next EXCEPT ![n] = NULL]
             ELSE [next EXCEPT ![n] = NULL, ![last] = n]
  /\ prev' = [prev EXCEPT ![n] = last]
  /\ first' = IF last = NULL THEN n ELSE first
  /\ last' = n

counted(x) == length' = length + 1 /\ count' = [count EXCEPT ![x] = @ + 1]

(* message_list_init, and the linking that queue_add does under the mutex. *)
queue_add(n, x) ==
  /\ ~freed /\ length <= MAX_QUEUE_SIZE
  /\ allocated' = allocated \cup {n}
  /\ xmark' = [xmark EXCEPT ![n] = x]
  /\ link_lane(n, x)
  /\ link_global(n)
  /\ counted(x)
  /\ UNCHANGED freed
-----------------------------------------------------------------------------
(* The neighbours of n, or the ends of the list, are joined without it.    *)
splice_out(n) ==
  /\ prev' = IF next[n] = NULL THEN prev ELSE [prev EXCEPT ![next[n]] = prev[n]]
  /\ next' = IF prev[n] = NULL THEN next ELSE [next EXCEPT ![prev[n]] = next[n]]
  /\ first' = IF prev[n] = NULL THEN next[n] ELSE first
  /\ last' = IF first' = NULL THEN NULL ELSE IF next[n] = NULL THEN prev[n] ELSE last

xlast_kept(x) == xlast' = xlast

(* An emptied lane has no last cell either.                                *)
xlast_reset(x) == xlast' = [xlast EXCEPT ![x] = IF xfirst'[x] = NULL THEN NULL ELSE @]

(* The unlinking that queue_get does under the mutex, message_list_free.   *)
queue_get(x) ==
  LET firstrec == xfirst[x] IN
  /\ ~freed /\ firstrec # NULL
  /\ xfirst' = [xfirst EXCEPT ![x] = xnext[firstrec]]
  /\ splice_out(firstrec)
  /\ xlast_reset(x)
  /\ count' = [count EXCEPT ![x] = IF xfirst'[x] = NULL THEN 0 ELSE @ - 1]
  /\ length' = IF first' = NULL THEN 0 ELSE length - 1
  /\ allocated' = allocated \ {firstrec}
  /\ UNCHANGED <<xnext, xmark, freed>>
-----------------------------------------------------------------------------
(* The cells met from s on along the field f, as far as there are cells.   *)
Walk(f, s) ==
  LET at[i \in 0..Cardinality(Nodes)] ==
        IF i = 0 THEN s ELSE IF at[i-1] = NULL THEN NULL ELSE f[at[i-1]]
      n == Cardinality({i \in DOMAIN at : at[i] # NULL})
  IN [i \in 1..n |-> at[i-1]]

(* queue_free: every cell along next is freed, its successor read before.  *)
queue_free ==
  /\ ~freed
  /\ freed' = TRUE
  /\ allocated' = allocated \ Range(Walk(next, first))
  /\ UNCHANGED <<next, prev, xnext, xmark, heads>>

Next ==
  \/ \E n \in Nodes \ allocated, x \in Xmarks : queue_add(n, x)
  \/ \E x \in Xmarks : queue_get(x)
  \/ queue_free
  \/ freed /\ UNCHANGED vars

Spec == Init /\ [][Next]_vars
-----------------------------------------------------------------------------
(***************************************************************************)
(* The global list reads the same from both ends, wherever in it the head  *)
(* of a lane was spliced out.  The lists reach the allocated cells and no  *)
(* others, each lane those of its xmark: no cell is lost, and none that is *)
(* freed is followed, though it keeps its pointers (queue.c:287-310,       *)
(* 381-412).  So queue_free, which follows the global list, leaves no cell *)
(* behind (queue.c:445-453).                                               *)
(***************************************************************************)
PointersRight ==
  /\ Walk(prev, last) = Reverse(Walk(next, first))
  /\ IF freed THEN allocated = {}
     ELSE /\ Range(Walk(next, first)) = allocated
          /\ \A x \in Xmarks : Range(Walk(xnext, xfirst[x])) = {n \in allocated : xmark[n] = x}
          /\ \A x \in Xmarks : xlast[x] = NULL <=> xfirst[x] = NULL

(***************************************************************************)
(* The pointers implement the lanes: reading each lane along xnext gives a *)
(* first-in first-out queue with the common bound.                         *)
(***************************************************************************)
Lanes == INSTANCE LaneQueue WITH
           lane <- [x \in Xmarks |-> Walk(xnext, xfirst[x])], size <- length,
           Entries <- Nodes, Capacity <- MAX_QUEUE_SIZE + 1
LanesFIFO == Lanes!Spec
=============================================================================
