----------------------------- MODULE MCJobRetry -----------------------------
(* JobRetry for TLC.  One job in each of two pipelines: a check compares the *)
(* newest finished pipeline with the saved one, and the retries of different *)
(* jobs share nothing.  No symmetry, which is not sound with liveness.       *)
EXTENDS JobRetry

=============================================================================
