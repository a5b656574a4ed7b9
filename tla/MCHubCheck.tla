----------------------------- MODULE MCHubCheck -----------------------------
(* One MR: no rule of the check or of the router relates two of them.        *)
EXTENDS HubCheck
=============================================================================
