------------------------------ MODULE MrCheck ------------------------------
(* The check of one merge request (engine/mrs.rs): what GitLab has of the    *)
(* MR is read in several calls, compared with the saved engine state, and    *)
(* the differences become events.  GitLab changes between the calls, a call  *)
(* can fail, and the daemon can be killed at any point.  The daemon filters  *)
(* the events for the mode of the watch (core/filter.rs), opens the items of *)
(* the events, and prunes the items that the check does not see any more.    *)
(*                                                                           *)
(* The MR is in one watch, an author or a review watch, which ends with it.  *)
(* `draft` stands for draft, title, description and labels: they have one    *)
(* rule.                                                                     *)
EXTENDS Naturals, Sequences, FiniteSets, FiniteSetsExt

CONSTANTS
    Me,         \* the user of the token
    Other,      \* a different person
    None,
    Threads,    \* the discussions of the MR
    PageOf,     \* the page of the discussions call that has a thread
    Watches,    \* the watches: a mode, and the event kinds of --events
    Budgets     \* bound: how often people talk in threads, how often other things
                \* change, and how often the daemon is killed

Users == {Me, Other}

Needs == {"failed", "conflict", "reply", "reply_to_you", "commits", "ready", "draft"}

\* The engine state of an MR.  `seen` is the head that the user saw.
EngineMr ==
    [state : {"opened", "merged", "closed"}, draft : BOOLEAN,
     pipeline : [id : Nat, status : {"running", "failed", "success"}],
     approved : SUBSET Users, conflicts : BOOLEAN, mergeable : BOOLEAN,
     status : {None, "checking", "draft_status", "conflict", "mergeable"}, seen : Nat, lastNote : Nat,
     reactions : SUBSET (Nat \X Users), head : Nat, resolved : SUBSET Threads,
     needs : SUBSET Needs]

ASSUME MrCheckAssumption ==
    /\ Me # Other /\ None \notin Users
    /\ IsFiniteSet(Threads)
    /\ PageOf \in [Threads -> Nat \ {0}]
    /\ Threads \intersect {None, "pipeline", "conflict"} = {}
    /\ None \notin EngineMr
    /\ \A w \in Watches : w.mode \in {"author", "review"} /\ w.events \subseteq STRING
    /\ Budgets \subseteq Nat \X Nat \X Nat

Pages == Max({0} \union {PageOf[t] : t \in Threads})

VARIABLES
    mr,      \* what GitLab has
    watch,   \* the mode and the chosen events of the watch
    at,      \* where the check is; "over" when the watch ended
    got,     \* what the check read so far
    saved,   \* the engine state of the MR, or None before the first check
    present, \* the `present` list of the engine state
    events,  \* the events of the check that the daemon did not take yet
    pending, \* the pending items of the watch
    needs,   \* what the sidebar shows that the user must do, in the state of the worktree
    told,    \* history: what came out of the filter
    seen,    \* history: the notes of other people that give no event
    answered, \* history: the notes that the user answered once, or that a check found in
              \* an MR that is not open
    lost,    \* history: a kill took events
    talks, moves, kills \* bound counters

check == <<at, got, saved, present, events, pending, needs, told, lost>>
bounds == <<talks, moves, kills>>
vars == <<mr, watch, check, seen, answered, bounds>>

-----------------------------------------------------------------------------
(* GitLab (external) *)

NewMr ==
    [state |-> "opened", head |-> 1, own |-> {1}, conflict |-> FALSE, checking |-> FALSE,
     draft |-> FALSE, draftBy |-> None, pipeline |-> [id |-> 1, status |-> "running"],
     starts |-> 0, approved |-> {}, notes |-> <<>>, resolved |-> [t \in Threads |-> None],
     reactions |-> {}]

\* The merge status names one reason only, and a draft comes before a conflict.
MergeStatus ==
    IF mr.checking THEN "checking"
    ELSE IF mr.draft THEN "draft_status"
    ELSE IF mr.conflict THEN "conflict" ELSE "mergeable"

Commented == {n \in DOMAIN mr.notes : mr.notes[n].author = Other}
ThreadsWithNotes == {mr.notes[n].thread : n \in DOMAIN mr.notes}
NotesUpTo(n, t) == {m \in DOMAIN mr.notes : m <= n /\ mr.notes[m].thread = t}

Spend(talk, move, kill) ==
    /\ talks' = talks + talk /\ moves' = moves + move /\ kills' = kills + kill
    /\ \E b \in Budgets : talks' <= b[1] /\ moves' <= b[2] /\ kills' <= b[3]

Changed(new, talk, move) ==
    /\ Spend(talk, move, 0)
    /\ mr' = new
    /\ UNCHANGED <<watch, check>>

Talk(new) == Changed(new, 1, 0)
Move(new) == Changed(new, 0, 1)

Answered(n, t) == answered' = answered \union NotesUpTo(n, t)

\* A comment on a page that the check read already, while later pages are open,
\* can have a smaller ID than one that the check still reads.
Comment(u, t) ==
    LET note == Len(mr.notes) + 1
        passed == at = "reading" /\ PageOf[t] <= got.page /\ got.page < Pages
    IN  /\ Talk([mr EXCEPT !.notes = Append(@, [author |-> u, thread |-> t])])
        /\ seen' = IF passed /\ u = Other THEN seen \union {note} ELSE seen
        /\ IF u = Me \/ mr.resolved[t] # None
           THEN answered' = answered \union NotesUpTo(note - 1, t) \union {note}
           ELSE UNCHANGED answered

React(u) == \E n \in Commented :
    /\ <<n, u>> \notin mr.reactions
    /\ Talk([mr EXCEPT !.reactions = @ \union {<<n, u>>}])
    /\ IF u = Me THEN Answered(n, mr.notes[n].thread) ELSE UNCHANGED answered
    /\ UNCHANGED seen

TakeBackReaction == \E r \in mr.reactions :
    /\ Talk([mr EXCEPT !.reactions = @ \ {r}])
    /\ UNCHANGED <<seen, answered>>

Resolve(u) == \E t \in ThreadsWithNotes :
    /\ mr.resolved[t] = None
    /\ Talk([mr EXCEPT !.resolved[t] = u])
    /\ Answered(Len(mr.notes), t)
    /\ UNCHANGED seen

Unresolve == \E t \in Threads :
    /\ mr.resolved[t] # None
    /\ Talk([mr EXCEPT !.resolved[t] = None])
    /\ UNCHANGED <<seen, answered>>

\* The merge status is computed later.  `starts` counts the conflicts.
WithConflict(new, conflict) ==
    [new EXCEPT !.conflict = conflict, !.checking = TRUE,
                !.starts = IF conflict /\ ~mr.conflict THEN @ + 1 ELSE @]

Quietly(new) == Move(new) /\ UNCHANGED <<seen, answered>>

\* `own`: the heads that the branch of the worktree had.
Push(own) == \E conflict \in BOOLEAN :
    Quietly(WithConflict([mr EXCEPT !.head = @ + 1,
                                    !.own = IF own THEN @ \union {mr.head + 1} ELSE @],
                         conflict))

TargetMoves == Quietly(WithConflict(mr, ~mr.conflict))

Draft(u) == Quietly([mr EXCEPT !.draft = ~@, !.draftBy = u])

Approve(u) == Quietly([mr EXCEPT !.approved = IF u \in @ THEN @ \ {u} ELSE @ \union {u}])

\* A pipeline ends, one of its jobs runs again, or a new one starts.
PipelineMoves ==
    \E next \in {[id |-> mr.pipeline.id, status |-> s] :
                    s \in IF mr.pipeline.status = "running" THEN {"failed", "success"} ELSE {"running"}}
                \union {[id |-> mr.pipeline.id + 1, status |-> "running"]} :
        Quietly([mr EXCEPT !.pipeline = next])

Ends == \E state \in {"merged", "closed"} :
    mr.state = "opened" /\ Quietly([mr EXCEPT !.state = state])

Reopens == mr.state = "closed" /\ Quietly([mr EXCEPT !.state = "opened"])

StatusComputed ==
    /\ mr.checking
    /\ mr' = [mr EXCEPT !.checking = FALSE]
    /\ UNCHANGED <<watch, check, seen, answered, bounds>>

GitLab ==
    \/ \E u \in Users, t \in Threads : Comment(u, t)
    \/ \E u \in Users : React(u) \/ Resolve(u) \/ Draft(u) \/ Approve(u)
    \/ \E own \in BOOLEAN : Push(own)
    \/ TakeBackReaction \/ Unresolve \/ TargetMoves \/ PipelineMoves \/ Ends \/ Reopens

-----------------------------------------------------------------------------
(* The calls of a check *)

NothingRead ==
    [base |-> None, head |-> None, page |-> 0, notes |-> {}, draftBy |-> None,
     resolved |-> [t \in Threads |-> None], reactions |-> {}]

NothingTold == [notes |-> {}, again |-> {}, conflicts |-> 0]

Init ==
    /\ mr = NewMr
    /\ watch \in Watches
    /\ at = "idle" /\ got = NothingRead
    /\ saved = None /\ present = {} /\ events = {} /\ pending = {} /\ needs = {}
    /\ told = NothingTold /\ lost = FALSE /\ seen = {} /\ answered = {}
    /\ talks = 0 /\ moves = 0 /\ kills = 0

Begin ==
    /\ at = "idle"
    /\ at' = "reading" /\ got' = NothingRead
    /\ UNCHANGED <<mr, watch, saved, present, events, pending, needs, told, lost, seen, answered, bounds>>

Read(what) ==
    /\ at = "reading"
    /\ got' = what
    /\ UNCHANGED <<mr, watch, at, saved, present, events, pending, needs, told, lost, seen, answered, bounds>>

\* The GraphQL call, and the REST call that has the head, run at once with the
\* discussions.
ReadBase ==
    /\ got.base = None
    /\ Read([got EXCEPT !.base =
            [state |-> mr.state, draft |-> mr.draft, pipeline |-> mr.pipeline,
             approved |-> mr.approved, status |-> MergeStatus,
             conflicts |-> mr.conflict /\ ~mr.checking,
             mergeable |-> MergeStatus = "mergeable"]])

ReadRest == got.head = None /\ Read([got EXCEPT !.head = mr.head])

\* The author of the newest system note on it: it is on the last page.
Actor == IF got.page + 1 = Pages THEN mr.draftBy ELSE None

\* The pages come one by one.
ReadPage ==
    LET page == got.page + 1
        here == {t \in Threads : PageOf[t] = page}
    IN  /\ page <= Pages
        /\ Read([got EXCEPT
                !.page = page,
                !.notes = @ \union {n \in DOMAIN mr.notes : mr.notes[n].thread \in here},
                !.resolved = [t \in Threads |-> IF t \in here THEN mr.resolved[t] ELSE @[t]],
                !.draftBy = Actor])

AllRead == got.base # None /\ got.head # None /\ got.page = Pages

ReactionsOn(notes) == {r \in mr.reactions : r[1] \in notes}

\* One call for each comment, when all other calls are done.
ReadReactions ==
    /\ at = "reading" /\ AllRead
    /\ at' = "read"
    /\ got' = [got EXCEPT !.reactions = ReactionsOn(got.notes)]
    /\ UNCHANGED <<mr, watch, saved, present, events, pending, needs, told, lost, seen, answered, bounds>>

\* Any call can fail, and the jobs of a failed pipeline as well: nothing is
\* saved, and the next check finds the same differences.
CheckFails ==
    /\ at \in {"reading", "read"}
    /\ at' = "idle" /\ got' = NothingRead
    /\ UNCHANGED <<mr, watch, saved, present, events, pending, needs, told, lost, seen, answered, bounds>>

-----------------------------------------------------------------------------
(* What the check saw: `normalize` *)

Author(n) == mr.notes[n].author
NotesOf(t) == {n \in got.notes : mr.notes[n].thread = t}
SeenThreads == {t \in Threads : NotesOf(t) # {}}

\* Mutated: a reaction of the user is no answer.
UnaddressedByReply ==
    {t \in SeenThreads : got.resolved[t] = None /\ Author(Max(NotesOf(t))) # Me}

Unaddressed ==
    {t \in SeenThreads :
        /\ got.resolved[t] = None
        /\ Author(Max(NotesOf(t))) # Me /\ <<Max(NotesOf(t)), Me>> \notin got.reactions}

\* Mutated: only the thread that the user began.
YouBegan(t) == Author(Min(NotesOf(t))) = Me

YouCommented(t) == \E n \in NotesOf(t) : Author(n) = Me
ResolvedMine == {t \in SeenThreads : got.resolved[t] # None /\ Author(Min(NotesOf(t))) = Me}

-----------------------------------------------------------------------------
(* The comparison: `new_state`, `mr_events` and `mrs_compare` *)

\* The state of an MR that the saved state does not have.
Fallback ==
    [state |-> None, draft |-> None, pipeline |-> None, approved |-> {}, conflicts |-> FALSE,
     mergeable |-> FALSE, status |-> None, seen |-> None, lastNote |-> 0, reactions |-> {},
     head |-> None, resolved |-> {}, needs |-> {}]

\* Mutated: a status that is not computed yet counts like the others.
NeverTransient(status) == FALSE

Transient(status) == status = "checking"

Seen(old) ==
    \/ old.seen = None
    \/ \E n \in got.notes : n > old.lastNote /\ Author(n) = Me
    \/ Me \in got.base.approved \ old.approved

NewState(old) ==
    LET keep == Transient(got.base.status)
    IN  [state |-> got.base.state, draft |-> got.base.draft, pipeline |-> got.base.pipeline,
         approved |-> got.base.approved,
         conflicts |-> IF keep THEN old.conflicts ELSE got.base.conflicts,
         mergeable |-> IF keep THEN old.mergeable ELSE got.base.mergeable,
         status |-> IF keep THEN old.status ELSE got.base.status,
         seen |-> IF Seen(old) THEN got.head ELSE old.seen,
         lastNote |-> Max(got.notes \union {old.lastNote}),
         reactions |-> got.reactions,
         head |-> got.head,
         resolved |-> ResolvedMine,
         needs |-> {}]

Event(kind, about) == [kind |-> kind, about |-> about, item |-> None]
WithItem(kind, about, item) == [kind |-> kind, about |-> about, item |-> item]

\* Mutated: the last note of the last check is new again.
CommentEventsFromLast(old) ==
    {WithItem("comment", n, mr.notes[n].thread) :
        n \in {m \in got.notes : m >= old.lastNote /\ Author(m) = Other}}

CommentEvents(old) ==
    {LET t == mr.notes[n].thread
         kind == IF Author(n) = Me THEN "own-comment" ELSE "comment"
     IN  WithItem(kind, n, IF t \in Unaddressed THEN t ELSE None) :
        n \in {m \in got.notes : m > old.lastNote}}

ReactionEvents(old) ==
    {Event("reaction", r) : r \in {x \in got.reactions \ old.reactions : x[2] # Me}}

PipelineEvents(old, new) ==
    LET p == new.pipeline
    IN  IF p = old.pipeline THEN {}
        ELSE IF p.status = "failed" THEN {WithItem("pipeline", p, "pipeline")}
        ELSE IF p.status = "success" THEN {Event("pipeline", p)} ELSE {}

ApprovalEvents(old, new) ==
    {Event("approved", u) : u \in new.approved \ (old.approved \union {Me})}
        \union {Event("unapproved", u) : u \in old.approved \ (new.approved \union {Me})}

DraftEvents(old, new) ==
    IF new.draft # old.draft /\ got.draftBy # Me
    THEN {Event(IF new.draft THEN "draft" ELSE "ready", got.draftBy)} ELSE {}

MergeEvents(old, new) ==
    (IF new.conflicts /\ ~old.conflicts THEN {WithItem("conflict", None, "conflict")} ELSE {})
        \union (IF new.mergeable /\ ~old.mergeable THEN {Event("mergeable", None)} ELSE {})

EndEvents(old, new) ==
    IF old.state = "opened" /\ new.state # "opened" THEN {Event(new.state, None)} ELSE {}

PushEvents(old, new) ==
    IF new.head # old.head THEN {Event("pushed", <<old.head, new.head>>)} ELSE {}

ResolvedEvents(old) ==
    {Event("resolved", t) : t \in {r \in ResolvedMine \ old.resolved : got.resolved[r] # Me}}

MrEvents(old, new) ==
    UNION {CommentEvents(old), ReactionEvents(old), PipelineEvents(old, new), ApprovalEvents(old, new),
           DraftEvents(old, new), MergeEvents(old, new), EndEvents(old, new),
           PushEvents(old, new), ResolvedEvents(old)}

\* The lines of the open threads come only with other events.
Lines(some) ==
    IF some = {} THEN {} ELSE some \union {WithItem("unaddressed", t, t) : t \in Unaddressed}

\* Only an open MR has items.
PresentItems(new) ==
    IF new.state # "opened" THEN {}
    ELSE Unaddressed
         \union (IF new.pipeline.status = "failed" THEN {"pipeline"} ELSE {})
         \union (IF new.status = "conflict" THEN {"conflict"} ELSE {})

\* What an open MR asks of the user.
OpenNeeds(new) ==
    IF new.state # "opened" THEN {}
    ELSE {n \in Needs :
            CASE n = "failed" -> new.pipeline.status = "failed"
              [] n = "conflict" -> new.status = "conflict"
              [] n = "reply" -> Unaddressed # {}
              [] n = "reply_to_you" -> \E t \in Unaddressed : YouCommented(t)
              [] n = "commits" -> new.head # new.seen
              [] n = "ready" -> new.status = "mergeable"
              [] n = "draft" -> new.draft}

\* check_mrs: the first check only saves.
Save ==
    LET old == IF saved = None THEN Fallback ELSE saved
        new == NewState(old)
    IN  /\ at = "read"
        /\ at' = "saved"
        /\ saved' = [new EXCEPT !.needs = OpenNeeds(new)]
        /\ present' = PresentItems(new)
        /\ events' = IF saved = None THEN {} ELSE Lines(MrEvents(old, new))
        /\ seen' = IF saved = None THEN seen \union {n \in got.notes : Author(n) = Other} ELSE seen
        /\ answered' = IF new.state = "opened" THEN answered ELSE answered \union got.notes
        /\ UNCHANGED <<mr, watch, got, pending, needs, told, lost, bounds>>

-----------------------------------------------------------------------------
(* The daemon: mark_pushes, filter, route, prune_items *)

\* The worktree has the commit of a push of its own.
Local(head) == head \in mr.own

Holds(e) ==
    IF watch.mode = "author" THEN e.kind = "pushed" => ~Local(e.about[2])
    ELSE e.kind = "unaddressed" => YouCommented(e.about)

Kinds == {"reaction", "pipeline", "comment", "own-comment", "approved", "unapproved", "draft",
          "ready", "conflict", "mergeable", "merged", "closed", "unaddressed", "pushed"}
            \union (IF watch.mode = "review" THEN {"resolved"} ELSE {})

\* The end of an MR always passes, because it ends the watch.
Chosen == IF watch.events = {} THEN Kinds ELSE watch.events \union {"merged", "closed"}

\* Mutated: a dropped line keeps its item in the other events.
FilterKeepsItems(all) == {e \in all : e.kind \in Kinds \intersect Chosen /\ Holds(e)}

\* The item of a dropped event does not open from another event.
Filter(all) ==
    LET dropped == {e.item : e \in {d \in all : ~Holds(d)}}
    IN  {IF e.item \in dropped THEN [e EXCEPT !.item = None] ELSE e :
            e \in {k \in all : k.kind \in Kinds \intersect Chosen /\ Holds(k)}}

\* Mutated: a review has no value for its own threads.
NeedsWithoutReply(mode) ==
    saved.needs \intersect IF mode = "author" THEN {"failed", "conflict", "reply", "ready", "draft"}
                           ELSE {"commits"}

\* The worktree has one reply value for both modes.
NeedsOf(mode) ==
    IF mode = "author"
    THEN saved.needs \intersect {"failed", "conflict", "reply", "ready", "draft"}
    ELSE (saved.needs \intersect {"commits"})
         \union (IF "reply_to_you" \in saved.needs THEN {"reply"} ELSE {})

ItemsOf(some) == {e.item : e \in some} \ {None}

Told(some) ==
    LET notes == {e.about : e \in {c \in some : c.kind = "comment"}}
    IN  [notes |-> told.notes \union notes,
         again |-> told.again \union (told.notes \intersect notes),
         conflicts |-> told.conflicts + Cardinality({e \in some : e.kind = "conflict"})]

\* end_mrs: the end of its MR ends the watch.
Ended(some) == \E e \in some : e.kind \in {"merged", "closed"}

\* Route, prune_items, write_needs and end_mrs.
Deliver ==
    LET some == Filter(events)
    IN  /\ at = "saved"
        /\ at' = IF Ended(some) THEN "over" ELSE "idle"
        /\ got' = NothingRead
        /\ told' = Told(some)
        /\ pending' = (pending \union ItemsOf(some)) \intersect present
        /\ needs' = NeedsOf(watch.mode)
        /\ events' = {}
        /\ UNCHANGED <<mr, watch, saved, present, lost, seen, answered, bounds>>

\* A kill -9 after the save: the events were in memory only.
Kill ==
    /\ at \notin {"idle", "over"}
    /\ Spend(0, 0, 1)
    /\ at' = "idle" /\ got' = NothingRead /\ events' = {}
    /\ lost' = (lost \/ events # {})
    /\ UNCHANGED <<mr, watch, saved, present, pending, needs, told, seen, answered>>

-----------------------------------------------------------------------------
CheckStep == Begin \/ ReadBase \/ ReadRest \/ ReadPage \/ ReadReactions \/ Save \/ Deliver

Next == GitLab \/ StatusComputed \/ CheckStep \/ CheckFails \/ Kill

Spec == Init /\ [][Next]_vars

\* The rounds go on, GitLab computes the merge status, and its errors end.
FairSpec ==
    /\ Spec
    /\ WF_vars(CheckStep) /\ WF_vars(StatusComputed)
    /\ <>[][~CheckFails]_vars

-----------------------------------------------------------------------------
(* Safety *)

\* Each event of the list of the watch.
Wanted(kind) == watch.events = {} \/ kind \in watch.events

Settled == at \in {"idle", "over"} /\ ~lost

\* W3.15: a check that fails, and a kill before the save, tell a comment of a
\* different person neither twice nor never (`CommentEvents`, `check_mrs`).
CommentsToldOnce ==
    /\ told.again = {}
    /\ Settled /\ saved # None /\ Wanted("comment") =>
        \A n \in Commented : n <= saved.lastNote => n \in told.notes \union seen

\* W9.6, W9.7: a comment that came to the watch is a pending item until the
\* user answers it, reacts to it or the thread is resolved, also when checks
\* fail, GitLab changes during a check and other threads come and go.  A review
\* watch has only the threads that the user wrote in.
StaysUntilAnswered ==
    \A n \in told.notes \ answered :
        LET t == mr.notes[n].thread
        IN  \/ t \in pending
            \/ /\ watch.mode = "review"
               /\ \A m \in NotesUpTo(n, t) : mr.notes[m].author # Me

\* W6.19: a review watch opens no item of a thread that only others wrote in,
\* whatever other events of the thread come (`filter`).
OthersThreadsStayOut ==
    watch.mode = "review" =>
        \A t \in pending \intersect Threads :
            \E n \in DOMAIN mr.notes : mr.notes[n] = [author |-> Me, thread |-> t]

\* W9.21: the sidebar shows a need for each pending item of an own MR, and a reply
\* for each pending thread of a review, although the items follow the events of
\* many checks, and the needs only what the last check saw (`needs`, `filter`).
ItemsShowNeed ==
    /\ pending \intersect Threads # {} => "reply" \in needs
    /\ watch.mode = "author" =>
           /\ "pipeline" \in pending => "failed" \in needs
           /\ "conflict" \in pending => "conflict" \in needs

\* One conflict gives one event: GitLab computes the merge status later, and
\* a status that is not computed yet must not look like the end of the conflict
\* (`transient`, `new_state`).
ConflictsToldOnce == told.conflicts <= mr.starts

-----------------------------------------------------------------------------
(* Liveness *)

AddressedNow(t) ==
    LET notes == NotesUpTo(Len(mr.notes), t)
    IN  \/ notes = {} \/ mr.resolved[t] # None
        \/ mr.notes[Max(notes)].author = Me \/ <<Max(notes), Me>> \in mr.reactions

\* W9.5, W9.6: when GitLab shows for good that a thread has its answer, its
\* item goes away, although checks are killed and fail for some time.
AnsweredGoesAway == \A t \in Threads : <>[]AddressedNow(t) => <>[](t \notin pending)

=============================================================================
