------------------------------ MODULE HubCheck ------------------------------
(* The check of the hub (engine/hub.rs) and the fixed rules of its router    *)
(* (engine/router).  A check reads to-dos, merge requests (MRs), notes and   *)
(* reactions in parallel and one after the other, while people go on; it     *)
(* compares them with the state of the last check, saves the new state, and  *)
(* gives the news.  The router starts at most one agent for each MR.         *)
(*                                                                           *)
(* A hub runs all the time and has no event list, and a page (100) has all   *)
(* open MRs.  The rows and moves of the items, with the free lock of the     *)
(* router, are in HubRouting; the pipelines of the default branch are in     *)
(* JobRetry.                                                                 *)
EXTENDS Naturals, Sequences, FiniteSets

CONSTANTS
    Mrs,      \* the MRs, 1 .. n in the order of their creation
    Authors,  \* a subset of {"me", "person", "bot"}
    MaxNotes, \* bound: notes of an MR
    MaxSteps  \* bound: steps of people, and failed checks

ASSUME HubCheckAssumption ==
    /\ Mrs \subseteq Nat \ {0} /\ IsFiniteSet(Mrs)
    /\ Authors \subseteq {"me", "person", "bot"} /\ Authors # {}
    /\ MaxNotes \in Nat /\ MaxSteps \in Nat

VARIABLES
    mr,      \* GitLab: each MR
    tree,    \* the worktree of each reviewed MR, with its agent
    report,  \* the MRs with a review report file
    saved,   \* the engine state of the hub
    check,   \* the check, with what it read
    pend,    \* the pending items of the hub
    told,    \* history: the news that checks gave
    lost,    \* history: the news that a kill took after its state was saved
    steps    \* bound counter

gitlab == <<mr, tree, report>>
vars == <<mr, tree, report, saved, check, pend, told, lost, steps>>

\* `liked` of a note of the user: a reaction of another user; of another note:
\* a reaction of the user.  `aged`: the notes up to it are older than 14 days.
\* "reopened" is open.  There is one to-do of an MR at most.
NoMr == [state |-> "none", author |-> "me", updated |-> 0, todo |-> "none",
         notes |-> <<>>, aged |-> 0]

Blank == [updated |-> 0, last |-> 0, own |-> 0, open |-> {}, likes |-> {}]

NoState == [first |-> TRUE, todos |-> {}, opened |-> {}, mrs |-> <<>>, present |-> {}]

\* An unread list is {<<>>}: no list of GitLab has this element.
Unread == {<<>>}

NoCheck == [at |-> "idle", skip |-> {}, todos |-> {}, opened |-> {}, mine |-> Unread,
            watched |-> <<>>, notes |-> <<>>, read |-> FALSE, likes |-> Unread, events |-> {}]

\* The key of an item: to-do 0, or a note.  A new MR and a reaction open none.
ItemOf(e) == <<e.mr, e.id>>
ItemsOf(events) ==
    {ItemOf(e) : e \in {e \in events : e.kind \in {"review_requested", "mentioned", "note"}}}

IsOpen(m) == mr[m].state \in {"opened", "reopened"}
Known == DOMAIN saved.mrs
OldMr(m) == IF m \in Known THEN saved.mrs[m] ELSE Blank
Greatest(set) == CHOOSE x \in set : \A y \in set : y <= x

NewMr(author) == [NoMr EXCEPT !.state = "opened", !.author = author, !.updated = 1]
NewNote(by) == [by |-> by, liked |-> FALSE, done |-> FALSE]

\* Before the first check, the user may have commented on open MRs.
Init ==
    /\ mr \in [Mrs -> {NoMr} \union {[NewMr(author) EXCEPT !.notes = <<NewNote("me")>>] :
                                        author \in Authors}]
    /\ \A m \in Mrs : mr[m] # NoMr => \A older \in 1 .. m - 1 : mr[older] # NoMr
    /\ tree = [m \in Mrs |-> "none"]
    /\ report \in SUBSET Mrs
    /\ saved = NoState /\ check = NoCheck
    /\ pend = {} /\ told = {} /\ lost = {} /\ steps = 0

\* The notes of the user in the last 14 days.
MyNotes(m) == {i \in DOMAIN mr[m].notes : i > mr[m].aged /\ mr[m].notes[i].by = "me"}

-----------------------------------------------------------------------------
(* People on GitLab *)

Person(m, new) ==
    /\ steps < MaxSteps
    /\ mr' = [mr EXCEPT ![m] = new]
    /\ steps' = steps + 1
    /\ UNCHANGED <<tree, report, saved, check, pend, told, lost>>

Touched(m) == [mr[m] EXCEPT !.updated = @ + 1]

Opens(m, author) ==
    /\ mr[m].state = "none" /\ \A older \in 1 .. m - 1 : mr[older].state # "none"
    /\ Person(m, NewMr(author))

Closes(m) == IsOpen(m) /\ Person(m, [Touched(m) EXCEPT !.state = "closed"])

Reopens(m) == mr[m].state = "closed" /\ Person(m, [Touched(m) EXCEPT !.state = "reopened"])

\* A to-do is no change of its MR.
AddsTodo(m, action) ==
    /\ mr[m].state # "none" /\ mr[m].todo = "none"
    /\ Person(m, [mr[m] EXCEPT !.todo = action])

DoesTodo(m) ==
    /\ mr[m].todo \in {"review_requested", "mentioned"}
    /\ Person(m, [mr[m] EXCEPT !.todo = "done"])

Comments(m, by) ==
    /\ mr[m].state # "none" /\ Len(mr[m].notes) < MaxNotes
    /\ Person(m, [Touched(m) EXCEPT !.notes = Append(@, NewNote(by))])

Reacts(m, i) ==
    /\ ~mr[m].notes[i].liked
    /\ Person(m, [mr[m] EXCEPT !.notes[i].liked = TRUE])

\* A thread of the user is no item of the hub.
Resolves(m, i) ==
    /\ ~mr[m].notes[i].done /\ mr[m].notes[i].by = "other"
    /\ Person(m, [Touched(m) EXCEPT !.notes[i].done = TRUE])

\* 14 days pass since a note of the user.
Ages(m, i) == i \in MyNotes(m) /\ Person(m, [mr[m] EXCEPT !.aged = i])

People(m) ==
    \/ \E author \in Authors : Opens(m, author)
    \/ Closes(m) \/ Reopens(m) \/ DoesTodo(m)
    \/ \E action \in {"review_requested", "mentioned"} : AddsTodo(m, action)
    \/ \E by \in {"me", "other"} : Comments(m, by)
    \/ \E i \in DOMAIN mr[m].notes : Reacts(m, i) \/ Resolves(m, i) \/ Ages(m, i)

\* The user opens or closes a worktree of the MR, or an agent writes its report.
\* "gone": there was one.
Trees(m) ==
    /\ steps < MaxSteps /\ steps' = steps + 1
    /\ \/ mr[m].state # "none" /\ tree' = [tree EXCEPT ![m] = "open"] /\ UNCHANGED report
       \/ tree[m] = "open" /\ tree' = [tree EXCEPT ![m] = "gone"] /\ UNCHANGED report
       \/ tree[m] = "open" /\ report' = report \union {m} /\ UNCHANGED tree
    /\ UNCHANGED <<mr, saved, check, pend, told, lost>>

-----------------------------------------------------------------------------
(* Reads of a check *)

\* A round skips the MRs whose worktree a lookup found.  Their items move to the
\* watch of an agent.
Begin(skip, moved) ==
    /\ check.at = "idle"
    /\ skip \subseteq {m \in Mrs : tree[m] = "open"} /\ moved \subseteq skip
    /\ check' = [NoCheck EXCEPT !.at = "lists", !.skip = skip]
    /\ pend' = {item \in pend : item[1] \notin moved}
    /\ UNCHANGED <<gitlab, saved, told, lost, steps>>

Reads(new) ==
    /\ check' = new
    /\ UNCHANGED <<gitlab, saved, pend, told, lost, steps>>

PendingTodos == {m \in Mrs : mr[m].todo \in {"review_requested", "mentioned"}}

\* The parallel lists.  No rule relates two of them, so they are one read.
ReadLists ==
    /\ check.at = "lists" /\ check.mine = Unread
    /\ Reads([check EXCEPT
                !.todos = {<<m, mr[m].todo>> : m \in PendingTodos},
                !.opened = {m \in Mrs : IsOpen(m)},
                !.mine = UNION {{<<m, i>> : i \in MyNotes(m)} : m \in Mrs}])

\* The MRs that the user commented on.
ReadWatched ==
    /\ check.at = "lists" /\ check.mine # Unread
    /\ Reads([check EXCEPT !.at = "details",
                           !.watched = [m \in {note[1] : note \in check.mine} |->
                                           [updated |-> mr[m].updated, open |-> IsOpen(m)]]])

OfOthers == {m \in DOMAIN check.watched : mr[m].author # "me"}

\* A new note changes `updated_at`.
Changed ==
    {m \in OfOthers : m \notin Known \/ saved.mrs[m].updated # check.watched[m].updated}

ReadNotes ==
    /\ check.at = "details" /\ ~check.read
    /\ Reads([check EXCEPT !.notes = [m \in Changed |-> mr[m].notes], !.read = TRUE])

\* One call for each note of the user, and for each open note of the last check.
ReadReactions ==
    LET asked == {note \in check.mine : note[1] \in OfOthers}
                 \union UNION {{<<m, i>> : i \in saved.mrs[m].open} : m \in OfOthers \intersect Known}
    IN  /\ check.at = "details" /\ check.likes = Unread
        /\ Reads([check EXCEPT !.likes = {n \in asked : mr[n[1]].notes[n[2]].liked}])

\* A call fails, or the daemon is killed.
CheckFails ==
    /\ check.at \in {"lists", "details"} /\ steps < MaxSteps
    /\ check' = NoCheck
    /\ steps' = steps + 1
    /\ UNCHANGED <<gitlab, saved, pend, told, lost>>

-----------------------------------------------------------------------------
(* hub_compare *)

Fetched(m) == IF m \in DOMAIN check.notes THEN check.notes[m] ELSE <<>>
Liked(m) == {n[2] : n \in {n \in check.likes : n[1] = m}}

\* Mutated: the last note is the last of the notes of this check.
LastOfFetch(m) == Len(Fetched(m))

LastNote(m) == Greatest({OldMr(m).last} \union DOMAIN Fetched(m))

OwnNote(m) ==
    Greatest({OldMr(m).own} \union {i \in DOMAIN Fetched(m) : Fetched(m)[i].by = "me"})

\* The first check of an MR gives no news.
NewNotes(m) ==
    {i \in DOMAIN Fetched(m) :
        m \in Known /\ i > saved.mrs[m].last /\ Fetched(m)[i].by # "me"}

\* Mutated: only the notes of this check are open.
OpenOfFetch(m) ==
    {i \in NewNotes(m) : i > OwnNote(m) /\ ~Fetched(m)[i].done}

\* Mutated: a reaction is no answer.
OpenWithReaction(m) ==
    {i \in OldMr(m).open \union NewNotes(m) :
        i > OwnNote(m) /\ ~(i \in DOMAIN Fetched(m) /\ Fetched(m)[i].done)}

OpenNotes(m) ==
    {i \in OldMr(m).open \union NewNotes(m) :
        /\ i > OwnNote(m)
        /\ ~(i \in OldMr(m).open /\ i \in Liked(m))
        /\ ~(i \in DOMAIN Fetched(m) /\ Fetched(m)[i].done)}

Reactions(m) == {i \in Liked(m) : <<m, i>> \in check.mine}

\* Mutated: the time of the last update is read at the end of the check.
LateState(m) ==
    [updated |-> mr[m].updated, last |-> LastNote(m), own |-> OwnNote(m),
     open |-> OpenNotes(m), likes |-> Reactions(m)]

MrState(m) ==
    [updated |-> check.watched[m].updated, last |-> LastNote(m), own |-> OwnNote(m),
     open |-> OpenNotes(m), likes |-> Reactions(m)]

\* A to-do with no author of its MR counts as one on the MR of another user.
OthersTodos(anonymous) ==
    {todo \in check.todos : mr[todo[1]].author # "me" \/ todo[1] \in anonymous}

OthersOpened == {m \in check.opened : mr[m].author # "me"}

NewState(anonymous) ==
    [first |-> FALSE,
     todos |-> {todo[1] : todo \in check.todos},
     opened |-> OthersOpened,
     mrs |-> [m \in OfOthers |-> MrState(m)],
     present |-> {<<todo[1], 0>> : todo \in OthersTodos(anonymous)}
                 \union UNION {{<<m, i>> : i \in OpenNotes(m)} :
                                  m \in {m \in OfOthers : check.watched[m].open}}]

Event(kind, m, id, author) == [kind |-> kind, mr |-> m, id |-> id, author |-> author]

\* hub_events: only to-dos and new MRs have the author of the MR.
News(anonymous) ==
    {Event(todo[2], todo[1], 0, IF todo[1] \in anonymous THEN "none" ELSE mr[todo[1]].author) :
        todo \in {todo \in OthersTodos(anonymous) : todo[1] \notin saved.todos}}
    \union {Event("opened", m, 0, mr[m].author) : m \in OthersOpened \ saved.opened}
    \union (UNION {{Event("note", m, i, "none") : i \in NewNotes(m)} : m \in OfOthers})
    \union UNION {{Event("reaction", m, i, "none") : i \in Reactions(m) \ saved.mrs[m].likes} :
                     m \in OfOthers \intersect Known}

\* Of a skipped MR, only the review request and the new MR are news of the hub.
Unskipped(news) ==
    {e \in news : e.mr \notin check.skip \/ e.kind \in {"opened", "review_requested"}}

\* The state is saved before the daemon takes the events.
Save(anonymous) ==
    LET events == IF saved.first THEN {} ELSE Unskipped(News(anonymous))
    IN  /\ check.at = "details" /\ check.read /\ check.likes # Unread
        /\ saved' = NewState(anonymous)
        /\ check' = [NoCheck EXCEPT !.at = "saved", !.events = events]
        /\ told' = told \union {[kind |-> e.kind, item |-> ItemOf(e)] : e \in events}
        /\ UNCHANGED <<gitlab, pend, lost, steps>>

-----------------------------------------------------------------------------
(* The router *)

Round == {e.mr : e \in check.events}
EventsOf(m) == {e \in check.events : e.mr = m}

\* The author is in each to-do and each new MR.
AuthorOf(m) == {e.author : e \in EventsOf(m)} \ {"none"}
IsBot(m) == AuthorOf(m) = {"bot"}
IsReviewRequest(e) == e.kind = "review_requested"

\* read_facts: the MRs of the round that have a review report.
Reviewed == Round \intersect report

\* mr_round: the event whose row starts an agent.  A bot gets a bump for its new
\* MR, else for its first event; a person gets a review.
StartOf(m) ==
    IF IsBot(m)
    THEN IF \E e \in EventsOf(m) : e.kind = "opened"
         THEN {e \in EventsOf(m) : e.kind = "opened"}
         ELSE {e \in EventsOf(m) : e.id = 0}
    ELSE {e \in EventsOf(m) : IsReviewRequest(e) /\ AuthorOf(m) # {} /\ m \notin Reviewed}

\* Mutated: the other to-do goes away also when no agent starts.
AllDismissed(m) ==
    {e \in EventsOf(m) \ StartOf(m) : e.kind \in {"opened", "review_requested", "mentioned"}}

\* todo_action and opened_action: with a start, the other to-do goes away; a new
\* MR with no start has no row.  Notes and reactions are only report rows.
Dismissed(m) ==
    {e \in EventsOf(m) \ StartOf(m) :
        \/ e.kind = "opened"
        \/ e.kind \in {"review_requested", "mentioned"} /\ AuthorOf(m) # {} /\ StartOf(m) # {}}

\* start_agent: the rows with a new agent, or with one that works on the branch.
\* A row with a failed start stays.
Agented(ok) == UNION {StartOf(m) : m \in ok}

\* routing: the rows that leave the items.
Handled(ok) == (UNION {Dismissed(m) : m \in Round}) \union Agented(ok)

\* The round: rows, decisions, starts, and the report that takes the handled rows
\* out of the items.
Route(ok) ==
    LET kept == (pend \union ItemsOf(check.events)) \ ItemsOf(Handled(ok))
    IN  /\ check.at = "saved" /\ ok \subseteq {m \in Round : StartOf(m) # {}}
        /\ tree' = [m \in Mrs |-> IF m \in ok THEN "open" ELSE tree[m]]
        /\ pend' = kept \intersect saved.present
        /\ check' = NoCheck
        /\ UNCHANGED <<mr, report, saved, told, lost, steps>>

\* A kill after the save: the next check does not give these news again.
Kill ==
    /\ check.at = "saved" /\ steps < MaxSteps
    /\ lost' = lost \union ItemsOf(check.events)
    /\ check' = NoCheck
    /\ steps' = steps + 1
    /\ UNCHANGED <<gitlab, saved, pend, told>>

-----------------------------------------------------------------------------

SaveStep == \E anonymous \in SUBSET Mrs : Save(anonymous)

CheckStep ==
    \/ Begin({}, {}) \/ ReadLists \/ ReadWatched \/ ReadNotes \/ ReadReactions \/ SaveStep
    \/ \E ok \in SUBSET Round : Route(ok)

Next ==
    \/ \E m \in Mrs : People(m) \/ Trees(m)
    \/ \E skip, moved \in SUBSET Mrs : Begin(skip, moved)
    \/ ReadLists \/ ReadWatched \/ ReadNotes \/ ReadReactions \/ SaveStep \/ CheckFails
    \/ \E ok \in SUBSET Round : Route(ok)
    \/ Kill

Spec == Init /\ [][Next]_vars

\* Rounds go on.  With the bound of failed checks, some check comes to its end.
FairSpec == Spec /\ WF_vars(CheckStep)

-----------------------------------------------------------------------------
(* Properties *)

Answered(m, i) ==
    \/ mr[m].notes[i].liked \/ mr[m].notes[i].done
    \/ \E j \in DOMAIN mr[m].notes : j > i /\ mr[m].notes[j].by = "me"

Watched(m, i) == \E j \in MyNotes(m) : j < i

\* The items in the files, or in the hands of the check that found them.
Kept == pend \union ItemsOf(check.events)

\* No check gives the same to-do, note or reaction again, over failed checks,
\* changes between its reads, and MRs that leave the list and come back.
NewsToldOnce ==
    [][check.at = "details" /\ check'.at = "saved" =>
          \A e \in check'.events :
              e.kind # "opened" => [kind |-> e.kind, item |-> ItemOf(e)] \notin told]_vars

\* W9.6: a note of the news is a pending item until the user answers it, reacts
\* to it, or its thread is resolved, while its MR is open and watched and has
\* no worktree.
NoteStays ==
    \A n \in told :
        LET m == n.item[1]
            i == n.item[2]
        IN  n.kind = "note" /\ n.item \notin lost =>
                \/ n.item \in Kept
                \/ Answered(m, i) \/ ~Watched(m, i)
                \/ mr[m].state # "opened" \/ tree[m] # "none"

\* W9.12: a review request of a person with no agent start is a pending item
\* until GitLab marks the to-do done, with each result of an agent start.
ReviewRequestStays ==
    \A n \in told :
        LET m == n.item[1]
        IN  n.kind = "review_requested" /\ mr[m].author = "person" /\ n.item \notin lost =>
                n.item \in Kept \/ mr[m].todo = "done" \/ tree[m] # "none"

\* A note of another user on an MR that the hub knows becomes news, whenever it
\* comes between the reads of a check.
NoteIsTold ==
    \A m \in Mrs : \A i \in 1 .. MaxNotes :
        /\ m \in Known /\ i \in DOMAIN mr[m].notes
        /\ i > OldMr(m).last /\ mr[m].notes[i].by = "other"
        ~> \/ [kind |-> "note", item |-> <<m, i>>] \in told
           \/ m \notin Known \/ tree[m] # "none"

\* W9.8: the item of a note that the user answered or reacted to goes away.
AnsweredGoesAway ==
    \A m \in Mrs : \A i \in 1 .. MaxNotes :
        (<<m, i>> \in pend /\ Answered(m, i) /\ ~mr[m].notes[i].done) ~> <<m, i>> \notin pend
=============================================================================
