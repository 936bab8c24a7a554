----------------------------- MODULE HashTable -----------------------------
(***************************************************************************)
(* utils/htable.c and its only user, utils/metadata.c: the metadata of a   *)
(* message, a hash table with a chain of nodes in every slot, which is     *)
(* made on the first insert.                                               *)
(*                                                                         *)
(* A node is its key and its value; values are numbered in the order they  *)
(* are handed in, so that each is allocated once.                          *)
(***************************************************************************)
EXTENDS Integers, Sequences, FiniteSetsExt

CONSTANTS Keys,
          Hashings,           \* the functions considered for htable_default_hash
          MIN_HTABLE_SIZE,    \* 8; a power of two, as is every size then
          MaxValues           \* bound on the values handed in

ASSUME HashAssumption ==
  /\ Hashings \subseteq [Keys -> Nat]
  /\ MIN_HTABLE_SIZE \in Nat \ {0}
  /\ MaxValues \in Nat

VARIABLES
  hash,     \* hash[k]: the hash of key k, which never changes
  tbl,      \* the table: size, nitems and items, a chain for every slot
  made,     \* *md # NULL
  next,     \* values handed in so far
  freed     \* freed[v]: how often value v has been freed

vars == <<hash, tbl, made, next, freed>>

NoTable == [size |-> 0, nitems |-> 0, items |-> <<>>]

htable_create ==
  [size |-> MIN_HTABLE_SIZE, nitems |-> 0,
   items |-> [s \in 0..(MIN_HTABLE_SIZE - 1) |-> <<>>]]

Init ==
  /\ hash \in Hashings
  /\ tbl = NoTable
  /\ made = FALSE
  /\ next = 0
  /\ freed = [v \in 1..MaxValues |-> 0]

(* hash & mask: the size is a power of two.                                *)
slot(t, k) == hash[k] % t.size

place(chain, k) == {n \in DOMAIN chain : chain[n].key = k}
-----------------------------------------------------------------------------
grow_in_place(t) ==
  [t EXCEPT !.size = 2 * t.size,
            !.items = [s \in 0..(2 * t.size - 1) |-> IF s < t.size THEN t.items[s] ELSE <<>>]]

(* A node moves to the slot that one more bit of its hash names, to the    *)
(* front of the chain there; the others stay in order.                     *)
split(t, chain) ==
  LET after[i \in 0..Len(chain)] ==
        IF i = 0 THEN [stay |-> <<>>, moved |-> <<>>]
        ELSE LET a == after[i - 1]
                 node == chain[i]
             IN IF hash[node.key] % t.size = hash[node.key] % (2 * t.size)
                THEN [a EXCEPT !.stay = Append(@, node)]
                ELSE [a EXCEPT !.moved = <<node>> \o @]
  IN after[Len(chain)]

grow(t) ==
  [t EXCEPT !.size = 2 * t.size,
            !.items = [s \in 0..(2 * t.size - 1) |->
                         IF s < t.size THEN split(t, t.items[s]).stay
                         ELSE split(t, t.items[s - t.size]).moved]]

shrink_front(t) ==
  [t EXCEPT !.size = t.size \div 2,
            !.items = [s \in 0..(t.size \div 2 - 1) |->
                         IF t.items[s] # <<>> THEN t.items[s] ELSE t.items[s + t.size \div 2]]]

(* The chain of the upper half is hung on the end of the one below.        *)
shrink(t) ==
  [t EXCEPT !.size = t.size \div 2,
            !.items = [s \in 0..(t.size \div 2 - 1) |-> t.items[s] \o t.items[s + t.size \div 2]]]

_htable_resize(t) ==
  CASE t.nitems < MIN_HTABLE_SIZE -> t
    [] t.nitems >= MIN_HTABLE_SIZE /\ t.nitems > t.size -> grow(t)
    [] t.nitems >= MIN_HTABLE_SIZE /\ t.nitems <= t.size \div 2 -> shrink(t)
    [] OTHER -> t

htable_find(t, k) ==
  LET chain == t.items[slot(t, k)] IN
  IF place(chain, k) = {} THEN 0 ELSE chain[Min(place(chain, k))].value

(* A key that is there gets the new value and the old one is freed.        *)
htable_insert(t, k, v) ==
  LET s == slot(t, k)
      at == place(t.items[s], k)
      node == [key |-> k, value |-> v]
  IN IF at # {} THEN [t EXCEPT !.items[s][Min(at)] = node]
     ELSE _htable_resize([t EXCEPT !.nitems = @ + 1, !.items[s] = <<node>> \o @])

unlinked(chain, n) == SubSeq(chain, 1, n - 1) \o SubSeq(chain, n + 1, Len(chain))

htable_remove(t, k) ==
  LET s == slot(t, k) IN
  _htable_resize([t EXCEPT !.nitems = @ - 1,
                           !.items[s] = unlinked(@, Min(place(@, k)))])

mdatum_free_not(v) == UNCHANGED freed

(* The values here are the ones that are freed; a function pointer, which  *)
(* is only disowned, owns no memory.  0 is no value.                       *)
mdatum_free(v) == freed' = IF v = 0 THEN freed ELSE [freed EXCEPT ![v] = @ + 1]
-----------------------------------------------------------------------------
(***************************************************************************)
(* metadata_insert makes the table if there is none.                       *)
(***************************************************************************)
metadata_insert(k) ==
  LET t == IF made THEN tbl ELSE htable_create IN
  /\ next < MaxValues
  /\ next' = next + 1
  /\ made' = TRUE
  /\ tbl' = htable_insert(t, k, next + 1)
  /\ mdatum_free(htable_find(t, k))
  /\ UNCHANGED hash

htable_delete(k) ==
  /\ made /\ place(tbl.items[slot(tbl, k)], k) # {}
  /\ mdatum_free(htable_find(tbl, k))
  /\ tbl' = htable_remove(tbl, k)
  /\ UNCHANGED <<hash, made, next>>

Nodes(t) == UNION {Range(t.items[s]) : s \in 0..(t.size - 1)}

(* metadata_free: htable_free_items frees every value in every chain.  The *)
(* message, and its pointer to the table, go with it.                      *)
metadata_free ==
  /\ made
  /\ freed' = [v \in DOMAIN freed |->
                 freed[v] + IF \E n \in Nodes(tbl) : n.value = v THEN 1 ELSE 0]
  /\ tbl' = NoTable
  /\ made' = FALSE
  /\ UNCHANGED <<hash, next>>

Next == (\E k \in Keys : metadata_insert(k) \/ htable_delete(k)) \/ metadata_free

Spec == Init /\ [][Next]_vars
-----------------------------------------------------------------------------
Chains == [s \in 0..(tbl.size - 1) |-> tbl.items[s]]

(* Every key is in its slot, where htable_find looks for it, at most once; *)
(* nitems is the number of nodes; after every resize there are no more     *)
(* nodes than slots, and the table is more than half full unless it is of  *)
(* the smallest size.                                                      *)
TableRight ==
  /\ made => /\ DOMAIN tbl.items = 0..(tbl.size - 1)
             /\ tbl.nitems <= tbl.size
             /\ tbl.size # MIN_HTABLE_SIZE => tbl.nitems > tbl.size \div 2
  /\ tbl.nitems = Cardinality(Nodes(tbl))
  /\ \A s \in DOMAIN Chains : \A n \in DOMAIN Chains[s] :
       /\ slot(tbl, Chains[s][n].key) = s
       /\ \A m \in DOMAIN Chains[s] : Chains[s][m].key = Chains[s][n].key => m = n

(* Memory: a value is freed when it is replaced, deleted or its table is   *)
(* freed, once, and never while it is in the table.                        *)
FreedOnce ==
  \A v \in 1..next :
    freed[v] = IF \E n \in Nodes(tbl) : n.value = v THEN 0 ELSE 1

(* The table is a map from keys to values as lookups see it, whatever the  *)
(* hashes are and however it has grown and shrunk.                         *)
Found == {k \in Keys : made /\ htable_find(tbl, k) # 0}
Map == INSTANCE Dictionary WITH Values <- 1..MaxValues,
                                dict <- [k \in Found |-> htable_find(tbl, k)]
IsDictionary == Map!Spec
=============================================================================
