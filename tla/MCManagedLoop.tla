--------------------------- MODULE MCManagedLoop ---------------------------
(* What the configurations of the ManagedLoop runs need beside the          *)
(* constants: the project of each repo and the repo of each key.            *)
EXTENDS ManagedLoop, TLC

CONSTANTS r1, k1, k2, app

OneProject == [r \in Repos |-> app]
OneRepo == [k \in Keys |-> r1]
=============================================================================
