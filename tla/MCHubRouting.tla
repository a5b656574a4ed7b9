--------------------------- MODULE MCHubRouting ---------------------------
(* What the configurations of the HubRouting runs need beside the constants: *)
(* a thread of the MR that the worktree reviews, a to-do of the same MR, and *)
(* a failure of the default branch.                                          *)
EXTENDS HubRouting, TLC

CONSTANTS k1, thread, todo, failure

FoundBy == [i \in Items |-> IF i = thread THEN k1 ELSE Hub]
Reviewed == [i \in Items |-> IF i = failure THEN None ELSE k1]
Later == Items \ {todo}
=============================================================================
