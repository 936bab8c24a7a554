----------------------------- MODULE MCSchaufel -----------------------------
(* Small instances of Schaufel.tla for TLC.                                *)
EXTENDS Schaufel, TLC

CONSTANTS c1, c2, p1, p2, x0, x1

\* Every lane has its producer.
OneLaneEach == (p1 :> x0) @@ (p2 :> x1)
\* One producer, for x0; messages for x1, if there are any, have none.
OneLane == p1 :> x0

\* Under OneLaneEach, exchanging both lanes together with their producers
\* changes nothing.
SwapLanes == (p1 :> p2) @@ (p2 :> p1) @@ (x0 :> x1) @@ (x1 :> x0)
Symmetry == Permutations(Consumers) \cup Permutations(Messages) \cup {SwapLanes}
=============================================================================
