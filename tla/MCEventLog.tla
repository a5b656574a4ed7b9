---------------------------- MODULE MCEventLog ----------------------------
(* What the configurations of the EventLog runs need beside the constants:  *)
(* the kinds of fault of one run.                                           *)
EXTENDS EventLog

LogFaults == {"restart", "short", "crash"}
AllFaults == LogFaults \union {"reset", "back", "cut"}
=============================================================================
