----------------------------- MODULE HubRouting -----------------------------
(* Pending items and the hub (core/items.rs, daemon/store.rs, daemon/mod.rs, *)
(* engine/router): a check of a worktree or of the hub finds events, gives   *)
(* each a row of an items file, and delivers them to the agent of the        *)
(* worktree or to the hub.  For the hub a router decides first, and it runs  *)
(* with no state lock: between `assign` and `deliver`, watches start and     *)
(* end, and items move.                                                      *)
(*                                                                           *)
(* The project is one repo.  An event is the item it is about; events with   *)
(* no item, which open nothing, are left out, as are the items of the model  *)
(* and of a blocked pull.  The inbox of an agent is in module Delivery; here *)
(* only the inbox of the hub is kept, because only it has a router.          *)
EXTENDS Naturals, FiniteSets

CONSTANTS
    Hub,       \* the key of the hub: the project
    Keys,      \* the worktree keys that are targets of each round
    Items,     \* threads, conflicts, to-dos, failures of the default branch
    Source,    \* the target whose check finds the item
    ReviewOf,  \* the review target of the MR of an item, or None
    Again,     \* the items with later events while they are present: a
               \* thread, a failure of the default branch
    Watched,   \* the keys with an agent record at the start of the daemon
    None,
    MaxSteps   \* bound: new items, other events, and starts of a watch

Files == Keys \union {Hub}

ASSUME HubRoutingAssumption ==
    /\ Hub \notin Keys /\ None \notin Files
    /\ IsFiniteSet(Items)
    /\ Source \in [Items -> Files]
    /\ ReviewOf \in [Items -> Keys \union {None}]
    /\ Again \subseteq Items /\ Watched \subseteq Files
    /\ \A i \in Items : Source[i] = Hub \/ ReviewOf[i] \in {Source[i], None}
    /\ MaxSteps \in Nat

VARIABLES
    record,   \* the keys with an agent record
    present,  \* the `present` list in the engine state of each target
    files,    \* items/<key>.json
    check,    \* the check of each target
    inbox,    \* the inbox of the hub
    routing,  \* inbox/<hub>.routing
    last,     \* the rows of inbox/<hub>.last.jsonl
    answer,   \* the lines of an answer to the hub that is being sent
    owed,     \* history: the items with an event whose cause stayed since then
    steps     \* bound counter

hub == <<inbox, routing, last, answer>>
vars == <<record, hub, present, files, check, owed, steps>>

\* Row 0: the item is not pending.  The numbers of a file begin at 1.
NoRows == [i \in Items |-> 0]

NoFile == [next |-> 1, row |-> NoRows]
NoRouting == [handled |-> {}, drop |-> {}]
NoCheck == [at |-> "idle", events |-> {}, row |-> NoRows, routes |-> FALSE]

Lines == [item : Items, row : Nat, asked : BOOLEAN]
RowLines == [item : Items, row : Nat]

Found(f) == {i \in Items : Source[i] = f}
Pending(file) == {i \in Items : file.row[i] # 0}
RowsOf(lines) == {l.row : l \in lines}

TypeOK ==
    /\ record \subseteq Files
    /\ present \in [Files -> SUBSET Items]
    /\ files \in [Files -> [next : Nat \ {0}, row : [Items -> Nat]]]
    /\ check \in [Files -> [at : {"idle", "begin", "polled", "routed"},
                            events : SUBSET Items, row : [Items -> Nat], routes : BOOLEAN]]
    /\ inbox \subseteq Lines /\ answer \subseteq Lines /\ last \subseteq Nat
    /\ routing \in [handled : SUBSET RowLines, drop : SUBSET Nat]
    /\ owed \subseteq Items
    /\ steps \in Nat

Init ==
    /\ record = Watched
    /\ present = [f \in Files |-> {}]
    /\ files = [f \in Files |-> NoFile]
    /\ check = [f \in Files |-> NoCheck]
    /\ inbox = {} /\ routing = NoRouting /\ last = {} /\ answer = {}
    /\ owed = {} /\ steps = 0

-----------------------------------------------------------------------------
(* Items files *)

\* Mutated: the next number is the number of items that are left.
WithoutNumbers(file, items) ==
    [next |-> 1 + Cardinality(Pending(file) \ items),
     row |-> [i \in Items |-> IF i \in items THEN 0 ELSE file.row[i]]]

Without(file, items) ==
    [file EXCEPT !.row = [i \in Items |-> IF i \in items THEN 0 ELSE file.row[i]]]

\* New numbers in `to` for the items `new`, in their order in `from`.
Renumbered(to, from, new) ==
    LET before(i) == {j \in new : from.row[j] < from.row[i]}
    IN  [next |-> to.next + Cardinality(new),
         row |-> [i \in Items |-> IF i \in new THEN to.next + Cardinality(before(i))
                                               ELSE to.row[i]]]

Coming(from, items) == items \intersect Pending(from)

\* Mutated: a moved item keeps the number that it had in the other file.
WithSameRows(to, from, items) ==
    [to EXCEPT !.row = [i \in Items |-> IF i \in Coming(from, items) \ Pending(to)
                                           THEN from.row[i] ELSE to.row[i]]]

\* move_items: an item that both files have keeps its number in the target.
With(to, from, items) == Renumbered(to, from, Coming(from, items) \ Pending(to))

\* Mutated: the file of the key goes away with its items.
ToHubLost(fs, k) == [fs EXCEPT ![k] = NoFile]

\* move_items of all items: the file of the key goes away.
ToHub(fs, k) == [fs EXCEPT ![Hub] = With(fs[Hub], fs[k], Items), ![k] = NoFile]

\* Mutated: the check of the hub prunes also the items of the worktrees.
GoneOfAny(f, fs, file) ==
    {i \in Pending(fs[file]) :
        \/ file = f /\ i \notin present[IF Source[i] = Hub THEN Hub ELSE f]
        \/ file = Hub /\ f # Hub /\ Source[i] = f /\ i \notin present[f]}

\* Mutated: no check prunes the items that moved to the hub.
GoneOfOwn(f, fs, file) ==
    {i \in Pending(fs[file]) :
        /\ file = f /\ (f = Hub => Source[i] = Hub)
        /\ i \notin present[IF Source[i] = Hub THEN Hub ELSE f]}

\* What prune_items and prune_moved take from a file at the check of `f`, by
\* the lists of the last polls: the items of the hub stay in its own checks, and
\* those of a worktree in the checks of the worktree.
Gone(f, fs, file) ==
    {i \in Pending(fs[file]) :
        \/ /\ file = f /\ (f = Hub => Source[i] = Hub)
           /\ i \notin present[IF Source[i] = Hub THEN Hub ELSE f]
        \/ file = Hub /\ f # Hub /\ Source[i] = f /\ i \notin present[f]}

Pruned(f, fs) == [file \in Files |-> Without(fs[file], Gone(f, fs, file))]

\* Routing.add and Routing.take: without handled rows, no file stays.
Saved(saved, handled, drop) ==
    [handled |-> saved.handled \union handled, drop |-> saved.drop \union drop]

Left(saved, rows) ==
    LET handled == {h \in saved.handled : h.row \notin rows}
    IN  [handled |-> handled, drop |-> IF handled = {} THEN {} ELSE saved.drop \ rows]

-----------------------------------------------------------------------------
(* Rounds and checks *)

\* A round begins when all checks of the last one ended.  An agent of a review
\* gets the pending hub items of its MR.
RoundTargets ==
    LET moved(k) == {i \in Items : k \in record /\ ReviewOf[i] = k}
    IN  /\ \A f \in Files : check[f].at = "idle"
        /\ check' = [f \in Files |-> [NoCheck EXCEPT !.at = "begin"]]
        /\ files' = [f \in Files |->
                        IF f = Hub THEN Without(files[Hub], UNION {moved(k) : k \in Keys})
                        ELSE With(files[f], files[Hub], moved(f))]
        /\ UNCHANGED <<record, hub, present, owed, steps>>

\* The engine compares two polls with no lock, and saves what it saw.
Poll(f, now, events) ==
    /\ check[f].at = "begin"
    /\ events \subseteq now /\ events \intersect present[f] \subseteq Again
    /\ steps + Cardinality(events \union (now \ present[f])) <= MaxSteps
    /\ present' = [present EXCEPT ![f] = now]
    /\ check' = [check EXCEPT ![f] = [NoCheck EXCEPT !.at = "polled", !.events = events]]
    /\ owed' = owed \ (Found(f) \ now)
    /\ steps' = steps + Cardinality(events \union (now \ present[f]))
    /\ UNCHANGED <<record, hub, files>>

CheckFails(f) ==
    /\ check[f].at = "begin"
    /\ check' = [check EXCEPT ![f] = NoCheck]
    /\ UNCHANGED <<record, hub, present, files, owed, steps>>

\* A check with no event only prunes.
Quiet(f) ==
    /\ check[f].at = "polled" /\ check[f].events = {}
    /\ files' = Pruned(f, files)
    /\ check' = [check EXCEPT ![f] = NoCheck]
    /\ UNCHANGED <<record, hub, present, owed, steps>>

\* The file that the events of a check get their rows from.
Owner(f) == IF f \in record THEN f ELSE Hub

Recipient(f) ==
    IF f \in record THEN f
    ELSE IF Hub \in record THEN Hub ELSE None

\* Mutated: each event gets a new number.
AllAreNew(file, events) == events

\* assign_rows: an item that is pending keeps its row.
New(file, events) == events \ Pending(file)

Numbered(file, events, numbers) ==
    [next |-> file.next + Cardinality(DOMAIN numbers),
     row |-> [i \in Items |-> IF i \in DOMAIN numbers THEN numbers[i] ELSE file.row[i]]]

\* The first half of `route`: rows, and whether the router of the hub decides.
Assign(f) ==
    LET left == IF f \in Keys \ record THEN ToHub(files, f) ELSE files
        file == left[Owner(f)]
        new == New(file, check[f].events)
    IN  /\ check[f].at = "polled"
        /\ \E numbers \in [new -> file.next .. file.next + Cardinality(new) - 1] :
              /\ \A i, j \in new : i # j => numbers[i] # numbers[j]
              /\ LET numbered == Numbered(file, check[f].events, numbers)
                 IN  /\ files' = [left EXCEPT ![Owner(f)] = numbered]
                     /\ check' = [check EXCEPT ![f] =
                            [at |-> "routed", events |-> check[f].events,
                             row |-> [i \in Items |-> IF i \in check[f].events
                                                      THEN numbered.row[i] ELSE 0],
                             routes |-> Recipient(f) = Hub]]
        /\ owed' = owed \union check[f].events
        /\ UNCHANGED <<record, hub, present, steps>>

\* The second half of `route` and the end of the check.  For the hub, a row that
\* the router handled (a report row, a started agent, a dismissed event) is in
\* `handled`, and `drop` has those that also leave the pending items; `asked` has
\* the events that it leaves to the model.  An item of a worktree is only a
\* report row.  The recipient is looked up again.
Deliver(f, asked, drop, ends) ==
    LET c == check[f]
        handled == IF c.routes THEN c.events \ asked ELSE {}
        rowsOf(items) == {[item |-> i, row |-> c.row[i]] : i \in items}
        toHub == Recipient(f) = Hub /\ c.events # {}
        boarded == toHub /\ handled = c.events
        dropped == IF boarded THEN {i \in Pending(files[Hub]) :
                                        files[Hub].row[i] \in RowsOf(rowsOf(drop))}
                              ELSE {}
        pruned == Pruned(f, [files EXCEPT ![Hub] = Without(files[Hub], dropped)])
    IN  /\ c.at = "routed"
        /\ asked \subseteq c.events /\ drop \subseteq handled
        /\ (c.routes /\ f = Hub) \/ (asked = {} /\ drop = {})
        /\ ends => f \in record \ {Hub}
        /\ IF toHub /\ ~boarded
           THEN /\ inbox' = inbox \union {[item |-> i, row |-> c.row[i], asked |-> i \in asked] :
                                                i \in c.events}
                /\ routing' = Saved(routing, rowsOf(handled), RowsOf(rowsOf(drop)))
           ELSE UNCHANGED <<inbox, routing>>
        /\ files' = IF ends THEN ToHub(pruned, f) ELSE pruned
        /\ record' = IF ends THEN record \ {f} ELSE record
        /\ check' = [check EXCEPT ![f] = NoCheck]
        /\ owed' = owed \ dropped
        /\ UNCHANGED <<last, answer, present, steps>>

-----------------------------------------------------------------------------
(* Watches *)

WatchKey(k) ==
    /\ k \notin record /\ steps < MaxSteps
    /\ record' = record \union {k}
    /\ steps' = steps + 1
    /\ UNCHANGED <<hub, present, files, check, owed>>

\* A new hub gets the pending items first, unless its inbox has events.
WatchHub ==
    /\ Hub \notin record /\ steps < MaxSteps
    /\ record' = record \union {Hub}
    /\ inbox' = IF inbox = {}
                THEN {[item |-> i, row |-> files[Hub].row[i], asked |-> FALSE] :
                         i \in Pending(files[Hub])}
                ELSE inbox
    /\ steps' = steps + 1
    /\ UNCHANGED <<routing, last, answer, present, files, check, owed>>

\* remove_record, and `unsubscribe` of a worktree: the items go to the hub.
EndKey(k) ==
    /\ k \in record
    /\ record' = record \ {k}
    /\ files' = ToHub(files, k)
    /\ UNCHANGED <<hub, present, check, owed, steps>>

\* The items of the hub stay, and its inbox waits for the session.
EndHub ==
    /\ Hub \in record
    /\ record' = record \ {Hub}
    /\ UNCHANGED <<hub, present, files, check, owed, steps>>

UnsubscribeHub ==
    /\ Hub \in record
    /\ record' = record \ {Hub}
    /\ inbox' = {} /\ last' = {}
    /\ UNCHANGED <<routing, answer, present, files, check, owed, steps>>

\* The session of an ended hub expires, and the sweep takes its results when its
\* inbox has lines.  The `.routing` file stays.
SessionExpires ==
    /\ Hub \notin record /\ inbox # {}
    /\ inbox' = {} /\ last' = {}
    /\ UNCHANGED <<record, routing, answer, present, files, check, owed, steps>>

-----------------------------------------------------------------------------
(* The agent of the hub *)

\* The model gets the lines that the router did not handle.  With none, a hub
\* waits on.  The session of an ended hub takes its inbox too.
TakeHub ==
    /\ inbox # {} /\ answer = {}
    /\ inbox' = {} /\ last' = RowsOf(inbox)
    /\ answer' = {l \in inbox : l.row \notin RowsOf(routing.handled)}
    /\ UNCHANGED <<record, routing, present, files, check, owed, steps>>

SendOk ==
    /\ answer # {} /\ answer' = {}
    /\ UNCHANGED <<record, inbox, routing, last, present, files, check, owed, steps>>

\* Only the lines of the answer come back: the handled ones stay in `last`.
SendFails ==
    /\ answer # {} /\ answer' = {}
    /\ inbox' = inbox \union answer
    /\ UNCHANGED <<record, routing, last, present, files, check, owed, steps>>

\* `rows` is what the model names as dismissed or as the work of an agent; the
\* rows of the router for the last delivery join it.
Report(f, rows) ==
    LET taken == IF f = Hub THEN last ELSE {}
        out == rows \union (routing.drop \intersect taken)
        dropped == {i \in Pending(files[f]) : files[f].row[i] \in out}
    IN  /\ files' = [files EXCEPT ![f] = Without(files[f], dropped)]
        /\ routing' = Left(routing, taken)
        /\ owed' = owed \ dropped
        /\ UNCHANGED <<record, inbox, last, answer, present, check, steps>>

-----------------------------------------------------------------------------

Next ==
    \/ RoundTargets
    \/ \E f \in Files :
           \/ \E now \in SUBSET Found(f), events \in SUBSET Found(f) : Poll(f, now, events)
           \/ CheckFails(f) \/ Quiet(f) \/ Assign(f)
           \/ \E asked, drop \in SUBSET check[f].events, ends \in BOOLEAN :
                  Deliver(f, asked, drop, ends)
           \/ \E rows \in SUBSET {files[f].row[i] : i \in Pending(files[f])} : Report(f, rows)
    \/ \E k \in Keys : WatchKey(k) \/ EndKey(k)
    \/ WatchHub \/ EndHub \/ UnsubscribeHub \/ SessionExpires
    \/ TakeHub \/ SendOk \/ SendFails

Spec == Init /\ [][Next]_vars

\* A round comes to its end, the next one begins, and not each poll of a target
\* fails.  The watches and the agents promise nothing.
RoundStep == RoundTargets \/ \E f \in Files : Quiet(f) \/ Assign(f) \/ Deliver(f, {}, {}, FALSE)

FairSpec ==
    /\ Spec
    /\ WF_vars(RoundStep)
    /\ \A f \in Files : SF_vars(\E now \in SUBSET Found(f) : Poll(f, now, {}))

-----------------------------------------------------------------------------
(* Safety *)

\* Within a file, a row is the number of one pending item, and the next number
\* is free: the model names an item by its row only.
OneItemPerRow ==
    \A f \in Files : \A i, j \in Pending(files[f]) :
        /\ files[f].row[i] < files[f].next
        /\ files[f].row[i] = files[f].row[j] => i = j

\* An item whose cause stays is pending for the agent of its worktree or for the
\* hub until the router or a model is done with it, over ends of watches, moves
\* and prunes by checks of others.
OpenIsPending == \A i \in owed : \E f \in Files : i \in Pending(files[f])

\* The rows that the router saved for the next report are of the items that it
\* decided about, however long the report takes: no report drops another item.
SavedRowsNameTheirItem ==
    \A h \in routing.handled, i \in Pending(files[Hub]) :
        files[Hub].row[i] = h.row => i = h.item

\* W9.17: a pending item keeps its row, also with new events and moves of others.
KeepsRow ==
    [][\A f \in Files, i \in Items :
          LET old == files[f].row[i]
              new == files'[f].row[i]
          IN  old # 0 /\ new # 0 => new = old]_vars

\* W8.48: while the hub runs, an event that the router leaves to the model
\* reaches the model when the inbox is taken.
AskedReachesModel ==
    [][(Hub \in record /\ Hub \in record') =>
          \A l \in inbox \ inbox' : l.asked => l \in answer']_vars

-----------------------------------------------------------------------------
(* Liveness *)

\* W9.5: a pending item goes away when GitLab shows that its cause is gone,
\* wherever it moved.
ClosedGoesAway ==
    \A i \in Items :
        i \notin present[Source[i]]
            ~> \/ i \in present[Source[i]]
               \/ \A f \in Files : i \notin Pending(files[f])
=============================================================================
