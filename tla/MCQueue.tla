------------------------------ MODULE MCQueue ------------------------------
(* Small instances of Queue.tla for TLC.                                   *)
EXTENDS Queue, TLC

CONSTANTS c1, c2, p1, p2, x0, x1

\* p1 serves xmark x0 and p2 serves x1: lanes are drained independently.
OneLaneEach == (p1 :> x0) @@ (p2 :> x1)

\* Under OneLaneEach, exchanging both lanes together with their producers
\* changes nothing.
SwapLanes == (p1 :> p2) @@ (p2 :> p1) @@ (x0 :> x1) @@ (x1 :> x0)
Symmetry == Permutations(Consumers) \cup Permutations(Messages) \cup {SwapLanes}
=============================================================================
