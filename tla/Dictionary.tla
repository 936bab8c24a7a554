----------------------------- MODULE Dictionary -----------------------------
(***************************************************************************)
(* What a hash table promises: a finite map from keys to values.           *)
(***************************************************************************)
EXTENDS Functions

CONSTANTS Keys, Values

VARIABLE dict

Empty == [k \in {} |-> 0]

Init == dict = Empty

Without(d, k) == Restrict(d, DOMAIN d \ {k})

Put(k) ==
  /\ k \in DOMAIN dict' /\ dict'[k] \in Values
  /\ Without(dict', k) = Without(dict, k)

Remove(k) == k \in DOMAIN dict /\ dict' = Without(dict, k)

Clear == dict' = Empty

Next == (\E k \in Keys : Put(k) \/ Remove(k)) \/ Clear

Spec == Init /\ [][Next]_dict
=============================================================================
