----------------------------- MODULE LaneQueue -----------------------------
(***************************************************************************)
(* What the message queue of schaufel promises to the threads around it:   *)
(* one first-in first-out lane per xmark (routing mark), and never more    *)
(* than Capacity messages in all lanes together.  No threads, no lock, no  *)
(* condition variables, no linked lists: Queue.tla (the threads) and       *)
(* MessageLists.tla (the pointers) are each shown to implement it.         *)
(***************************************************************************)
EXTENDS Integers, Sequences

CONSTANTS Xmarks,   \* the routing marks
          Entries,  \* what may be queued
          Capacity  \* how many entries fit

VARIABLES lane,     \* lane[x]: the queued entries of xmark x, oldest first
          size      \* how many entries are queued

Init ==
  /\ lane = [x \in Xmarks |-> <<>>]
  /\ size = 0

Put(x, e) ==
  /\ size < Capacity
  /\ lane' = [lane EXCEPT ![x] = Append(@, e)]
  /\ size' = size + 1

Take(x) ==
  /\ lane[x] # <<>>
  /\ lane' = [lane EXCEPT ![x] = Tail(@)]
  /\ size' = size - 1

Next == \E x \in Xmarks : Take(x) \/ \E e \in Entries : Put(x, e)

Spec == Init /\ [][Next]_<<lane, size>>
=============================================================================
