----------------------------- MODULE EventFeed -----------------------------
(* What the event log promises to its readers ("a new connection with        *)
(* `--after <last id>` loses no event", REQUIREMENTS.md W11.8): lines are    *)
(* made and go away, and each reader takes the lines in their order, at most *)
(* once, and skips none that is still there.                                 *)
EXTENDS Naturals

CONSTANTS Readers

VARIABLES
    made,  \* lines are numbered from 1 in the order in which they are made
    kept,  \* the lines that the log still has
    seen,  \* the lines that each reader took
    broken \* the log is lost or its ids are: the promise is over

feedVars == <<made, kept, seen, broken>>

FeedInit ==
    /\ made = 0
    /\ kept = {}
    /\ seen = [r \in Readers |-> {}]
    /\ ~broken

\* A write that fails keeps only some of its lines, and may break one of them.
Publish ==
    /\ made' > made
    /\ kept' \subseteq kept \union made + 1 .. made'
    /\ UNCHANGED <<seen, broken>>

Forget ==
    /\ kept' \subseteq kept
    /\ UNCHANGED <<made, seen, broken>>

\* The first batch of a reader starts anywhere, each other one after the last.
Take(r, batch) ==
    /\ batch # {} /\ batch \subseteq 1 .. made
    /\ \A m \in seen[r], n \in batch : m < n
    /\ \A n \in kept :
        /\ \E last \in batch : n < last
        /\ \E first \in seen[r] \union batch : first < n
        /\ \A m \in seen[r] : m < n
        => n \in batch
    /\ seen' = [seen EXCEPT ![r] = @ \union batch]
    /\ UNCHANGED <<made, kept, broken>>

Break == broken'

FeedNext ==
    \/ Break
    \/ Publish
    \/ Forget
    \/ \E r \in Readers, batch \in SUBSET (1 .. made) : Take(r, batch)

FeedSpec == FeedInit /\ [][FeedNext]_feedVars
=============================================================================
