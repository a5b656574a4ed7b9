---------------------------- MODULE MCLifecycle -----------------------------
(* Lifecycle for TLC: a session and a board, so that two clients start a     *)
(* daemon at once, and a second process, for a start that meets a daemon     *)
(* which runs, starts, or is about to end.                                   *)
EXTENDS Lifecycle

=============================================================================
