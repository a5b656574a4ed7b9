---------------------------- MODULE MCDelivery ----------------------------
(* What the configurations of the Delivery runs need beside the constants:  *)
(* the sessions and the connections of a run are interchangeable.           *)
EXTENDS Delivery, TLC

Symmetric == Permutations(Sessions) \union Permutations(Conns)
=============================================================================
