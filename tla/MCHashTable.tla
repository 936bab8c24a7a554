---------------------------- MODULE MCHashTable ----------------------------
EXTENDS HashTable

MCKeys == 1..5

(* All keys in one chain; two chains that part when the table grows first, *)
(* or second; no two keys that stay together.                              *)
SomeHashings == {<<3, 3, 3, 3, 3>>, <<0, 2, 0, 2, 4>>, <<1, 5, 3, 1, 5>>, <<0, 1, 2, 3, 6>>}
=============================================================================
