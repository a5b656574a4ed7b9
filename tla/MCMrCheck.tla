----------------------------- MODULE MCMrCheck -----------------------------
(* MrCheck for TLC: an author watch, a review watch, and two pages.          *)
EXTENDS MrCheck, TLC

CONSTANTS t1, t2

OnePageEach == t1 :> 1 @@ t2 :> 2
TalkMoveOrKill == {<<3, 0, 0>>, <<2, 0, 1>>, <<1, 1, 1>>, <<0, 2, 0>>}
OnePage == t1 :> 1
AllEvents == {[mode |-> m, events |-> {}] : m \in {"author", "review"}}

=============================================================================
