------------------------------ MODULE Delivery ------------------------------
(* The delivery of events to agent sessions by the watch daemon `watchd`     *)
(* (dot_config/agents/daemon): the session records, the agent records, the   *)
(* inboxes and error files of daemon/store.rs, the `wait` connections of     *)
(* server.rs, and the tick, the restart and the format reset of              *)
(* daemon/mod.rs.                                                            *)
(*                                                                           *)
(* Each action is one critical section under the state lock                  *)
(* (daemon.lock()): `watch`, `unsubscribe`, the registration of a waiter,    *)
(* one pass of the answer loop of a waiter, the end of its send, the end of  *)
(* one check, and one tick.  A delivery takes the events of an inbox in one  *)
(* section and sends them, with no lock, before the next one: the events in  *)
(* between are in no file.  The read side of the `delivering` lock covers    *)
(* that gap.                                                                 *)
(*                                                                           *)
(* Keys are keys of author and review watches.  The hub watch shares this    *)
(* code, and HubRouting models what only it does (the routing of events with *)
(* no agent record, the replay of the pending items, the report).            *)
EXTENDS Naturals, Sequences, FiniteSets, Functions

CONSTANTS
    Sessions,   \* conversation ids
    Keys,       \* keys of the watched worktrees
    Pids,       \* owner processes
    Mrs,        \* the MRs that an event can be about
    NoMr,       \* an event of a branch: no narrowed watch takes it
    None,       \* no session, no process
    Conns,      \* connections of `wait` clients; a closed one is used again
    NoConn,     \* a session with no waiter
    MaxEvents,  \* bound: events that the checks find
    MaxErrors,  \* bound: checks and ticks that end records with an error
    MaxReuses,  \* bound: processes that get the PID of an owner that ended
    MaxResets,  \* bound: restarts of a binary with a different state format
    MaxCrashes  \* bound: ends of the daemon with no clean stop (kill -9)

ASSUME DeliveryAssumption ==
    /\ None \notin Sessions \union Pids \union Keys
    /\ NoConn \notin Conns
    /\ MaxEvents \in Nat /\ MaxErrors \in Nat
    /\ MaxReuses \in Nat /\ MaxResets \in Nat /\ MaxCrashes \in Nat

VARIABLES
    holder,     \* the session of the agent record of each key, or None
    narrow,     \* the MRs of that record that the inbox filter lets through
    session,    \* the record of each session
    inbox,      \* the events that wait for the next delivery of the key
    errorOf,    \* the conversation whose record wrote the error of the key
    waiter,     \* Memory.waiters: the connection that gets the answer
    conn,       \* the connections of `wait` clients
    alive,      \* the owner processes that run
    phase,      \* of the daemon process: up or draining
    nextId,     \* history: the id of the next event
    received,   \* history: the events and errors that reached a client
    released,   \* history: the events that an end of their watch deleted
    errors,     \* bound counter
    reuses,     \* bound counter
    resets,     \* bound counter
    crashes     \* bound counter

files == <<holder, narrow, session, inbox, errorOf>>
memory == <<waiter, conn>>
history == <<nextId, received, released>>
bounds == <<errors, reuses, resets, crashes>>
vars == <<files, memory, alive, phase, history, bounds>>

-----------------------------------------------------------------------------
(* Records *)

\* The MRs that a record names.  The empty set lets all events through, as
\* for a review watch.
Filters == SUBSET (Mrs \ {NoMr})

\* A session is live from its wait to the end of its owner, then away, and
\* expired when it was away for the grace period.
Presence == {"none", "live", "away", "expired"}

Session == [presence : Presence, owner : Pids \union {None},
            replaced : SUBSET Keys, ended : SUBSET Keys, upgraded : BOOLEAN]

NoSession == [presence |-> "none", owner |-> None,
              replaced |-> {}, ended |-> {}, upgraded |-> FALSE]

\* `unwrap_or_default()`: the default record has no owner and no time of its
\* end, which is a live session until the next tick.
OrDefault(s) == IF session[s].presence = "none"
                THEN [session[s] EXCEPT !.presence = "live"] ELSE session[s]

Known(s) == session[s].presence # "none"

\* The events of one inbox, by MR: the order of two events counts only within
\* one MR.
Batch == [Mrs -> Seq(Nat)]
EmptyBatch == [m \in Mrs |-> <<>>]
EmptyBatches == [k \in Keys |-> EmptyBatch]

Only(batch, mrs) == [m \in Mrs |-> IF m \in mrs THEN batch[m] ELSE <<>>]
Join(first, second) == [m \in Mrs |-> first[m] \o second[m]]

IdsOf(batch) == UNION {Range(batch[m]) : m \in Mrs}

\* What a delivery took out of the state files and has not sent yet.
AnswerKinds == {"none", "superseded", "events", "error", "upgrade"}

Conn == [st : {"closed", "waiting", "sending"},
         session : Sessions \union {None}, pid : Pids \union {None},
         kind : AnswerKinds,
         batches : [Keys -> Batch], replaced : SUBSET Keys,
         errorKey : Keys \union {None}, errorOf : Sessions \union {None}]

Closed == [st |-> "closed", session |-> None, pid |-> None, kind |-> "none",
           batches |-> EmptyBatches, replaced |-> {}, errorKey |-> None,
           errorOf |-> None]

Records(s) == {k \in Keys : holder[k] = s}

\* The MRs of the inbox of a key that a delivery takes: `take_inbox_of`.
Taken(k) == IF holder[k] = None \/ narrow[k] = {} THEN Mrs ELSE narrow[k]

-----------------------------------------------------------------------------
TypeOK ==
    /\ holder \in [Keys -> Sessions \union {None}]
    /\ narrow \in [Keys -> Filters]
    /\ session \in [Sessions -> Session]
    /\ \A s \in Sessions : ~Known(s) => session[s] = NoSession
    /\ inbox \in [Keys -> Batch]
    /\ errorOf \in [Keys -> Sessions \union {None}]
    /\ waiter \in [Sessions -> Conns \union {NoConn}]
    /\ conn \in [Conns -> Conn]
    /\ alive \in SUBSET Pids
    /\ phase \in {"up", "draining"}
    /\ nextId \in Nat
    /\ received \in SUBSET Nat
    /\ released \in SUBSET Nat
    /\ errors \in 0 .. MaxErrors
    /\ reuses \in 0 .. MaxReuses
    /\ resets \in 0 .. MaxResets
    /\ crashes \in 0 .. MaxCrashes

Init ==
    /\ holder = [k \in Keys |-> None]
    /\ narrow = [k \in Keys |-> {}]
    /\ session = [s \in Sessions |-> NoSession]
    /\ inbox = EmptyBatches
    /\ errorOf = [k \in Keys |-> None]
    /\ waiter = [s \in Sessions |-> NoConn]
    /\ conn = [n \in Conns |-> Closed]
    /\ alive = Pids
    /\ phase = "up"
    /\ nextId = 0
    /\ received = {}
    /\ released = {}
    /\ errors = 0
    /\ reuses = 0
    /\ resets = 0
    /\ crashes = 0

-----------------------------------------------------------------------------
(* Requests of the clients *)

\* Mutated: a watch writes no new session record.
WatchingUnknown(s, k) ==
    [session[s] EXCEPT !.replaced = @ \ {k}, !.upgraded = FALSE]

\* The session of a watch has the key again and needs no upgrade error.  A new
\* session is away until its first wait.
Watching(s, k) ==
    [session[s] EXCEPT !.presence = IF Known(s) THEN @ ELSE "away",
                       !.replaced = @ \ {k}, !.upgraded = FALSE]

\* `watchd watch`: the record of the key is of session s from now on, and the
\* session that had the key learns it at its next delivery.
Watch(s, k, mrs) ==
    /\ session' = [t \in Sessions |->
           IF t = s THEN Watching(s, k)
           ELSE IF t = holder[k] /\ Known(t)
           THEN [session[t] EXCEPT !.replaced = @ \union {k}]
           ELSE session[t]]
    /\ holder' = [holder EXCEPT ![k] = s]
    /\ narrow' = [narrow EXCEPT ![k] = mrs]
    /\ UNCHANGED <<inbox, errorOf, memory, alive, phase, history, bounds>>

\* `watchd unsubscribe`: refused while the key is of a different live session.
Unsubscribe(s, k) ==
    /\ \A t \in Sessions \ {s} : holder[k] = t => session[t].presence # "live"
    /\ holder' = [holder EXCEPT ![k] = None]
    /\ narrow' = [narrow EXCEPT ![k] = {}]
    /\ inbox' = [inbox EXCEPT ![k] = EmptyBatch]
    /\ errorOf' = [errorOf EXCEPT ![k] = None]
    /\ released' = released \union IdsOf(inbox[k])
    /\ UNCHANGED <<session, memory, alive, phase, nextId, received, bounds>>

\* The session whose watches a new conversation of owner p takes over.
Renamed(s, p) == {t \in Sessions :
    ~Known(s) /\ session[t].presence = "live" /\ session[t].owner = p}

\* Mutated: the other sessions of the owner stay live.
LeftNone(t, s, p, records) == FALSE

\* `leave_other_sessions`, in the session records after the rename.
Left(t, s, p, records) ==
    t # s /\ records[t].presence = "live" /\ records[t].owner = p

\* A `wait` client connects.  A new conversation of the same owner takes the
\* watches of the live session of that owner, the session is live, the other
\* live sessions of the owner are away, and the connection is the waiter.  An
\* owner that ends before its request is read ends after it here: the request
\* marks the same sessions live and away.
Wait(s, p, rename, n) ==
    /\ p \in alive
    /\ conn[n].st = "closed"
    /\ \E old \in IF rename /\ Renamed(s, p) # {} THEN Renamed(s, p) ELSE {s} :
        LET state == session[old]
            moved == [session EXCEPT ![old] = NoSession, ![s] = state]
            own == IF state.presence = "none" THEN state
                   ELSE [state EXCEPT !.presence = "live", !.owner = p]
        IN  /\ holder' = [k \in Keys |-> IF holder[k] = old THEN s ELSE holder[k]]
            /\ errorOf' = [k \in Keys |-> IF errorOf[k] = old THEN s ELSE errorOf[k]]
            /\ session' = [t \in Sessions |->
                   IF t = s THEN own
                   ELSE IF Left(t, s, p, moved) THEN [moved[t] EXCEPT !.presence = "away"]
                   ELSE moved[t]]
            /\ waiter' = [t \in Sessions |->
                   IF t = s THEN n
                   ELSE IF t = old \/ Left(t, s, p, moved) THEN NoConn
                   ELSE waiter[t]]
    /\ conn' = [conn EXCEPT ![n] = [Closed EXCEPT
                   !.st = "waiting", !.session = s, !.pid = p]]
    /\ UNCHANGED <<narrow, inbox, alive, phase, history, bounds>>

\* Mutated: the connection stays the waiter after its end.
CloseOnly(n) ==
    /\ conn' = [conn EXCEPT ![n] = Closed]
    /\ UNCHANGED waiter

\* The end of a `wait` connection: it is no waiter any more.
Close(n) ==
    /\ conn' = [conn EXCEPT ![n] = Closed]
    /\ waiter' = [s \in Sessions |-> IF waiter[s] = n THEN NoConn ELSE waiter[s]]

\* The client ends while it waits.
ClientGone(n) ==
    /\ conn[n].st = "waiting"
    /\ Close(n)
    /\ UNCHANGED <<files, alive, phase, history, bounds>>

-----------------------------------------------------------------------------
(* The answer to a waiter: one pass of its loop, at a change or each second.  *)
(* It holds `delivering` for read, so no pass starts in the phase draining.   *)

\* The session has something that only a live owner may take.
Pending(s) ==
    \/ session[s].upgraded
    \/ session[s].ended # {} \/ session[s].replaced # {}
    \/ \E k \in Records(s) : inbox[k] # EmptyBatch

\* Mutated: the pass does not hold `delivering`.
TurnUnlocked(n) ==
    /\ conn[n].st = "waiting"
    /\ waiter[conn[n].session] = n
    /\ Pending(conn[n].session) => conn[n].pid \in alive

\* The waiter of its session, with an owner that can take what is pending.
Turn(n) ==
    /\ phase = "up"
    /\ conn[n].st = "waiting"
    /\ waiter[conn[n].session] = n
    /\ Pending(conn[n].session) => conn[n].pid \in alive

\* The owner counts no more once the answer is on its way.
Sends(n, answer) == conn' = [conn EXCEPT ![n] = [answer EXCEPT !.st = "sending", !.pid = None]]

\* A newer waiter of the session, or the waiter of another conversation of the
\* owner, replaced this one.
AnswerSuperseded(n) ==
    /\ phase = "up"
    /\ conn[n].st = "waiting"
    /\ waiter[conn[n].session] # n
    /\ Sends(n, [Closed EXCEPT !.kind = "superseded"])
    /\ UNCHANGED <<files, waiter, alive, phase, history, bounds>>

\* The upgrade error comes first.
AnswerUpgrade(n) ==
    LET s == conn[n].session
    IN  /\ Turn(n)
        /\ session[s].upgraded
        /\ session' = [session EXCEPT ![s].upgraded = FALSE]
        /\ Sends(n, [conn[n] EXCEPT !.kind = "upgrade"])
        /\ UNCHANGED <<holder, narrow, inbox, errorOf, waiter, alive, phase,
                       history, bounds>>

\* The ended keys of the session with an error file.
EndedErrors(s) == {k \in session[s].ended : errorOf[k] # None}

\* An ended key stays in `ended`, so that the next delivery takes its inbox.
AnswerError(n) ==
    LET s == conn[n].session
    IN  /\ Turn(n)
        /\ ~session[s].upgraded
        /\ \E k \in EndedErrors(s) :
            /\ errorOf' = [errorOf EXCEPT ![k] = None]
            /\ Sends(n, [conn[n] EXCEPT !.kind = "error",
                                     !.errorKey = k, !.errorOf = errorOf[k]])
        /\ UNCHANGED <<holder, narrow, session, inbox, waiter, alive, phase,
                       history, bounds>>

\* The keys of the records of the session, and the keys that ended since its
\* last delivery and that no new record has.
TakenKeys(s) == Records(s) \union {k \in session[s].ended : holder[k] = None}

\* Mutated: all events are written back, also the ones of the delivery.
RestIsAll(k) == inbox[k]

\* Mutated: the events of the other MRs are not written back.
RestIsNothing(k) == EmptyBatch

\* What stays in the inbox of a key of the delivery.
Rest(k) == Only(inbox[k], Mrs \ Taken(k))

\* With a record and nothing to tell, the waiter waits on.
AnswerEvents(n) ==
    LET s == conn[n].session
        batches == [k \in Keys |-> IF k \in TakenKeys(s)
                                   THEN Only(inbox[k], Taken(k)) ELSE EmptyBatch]
    IN  /\ Turn(n)
        /\ ~session[s].upgraded
        /\ EndedErrors(s) = {}
        /\ inbox' = [k \in Keys |-> IF k \in TakenKeys(s)
                                    THEN Rest(k) ELSE inbox[k]]
        /\ session' = [session EXCEPT ![s].replaced = {}, ![s].ended = {}]
        /\ IF batches = EmptyBatches /\ session[s].replaced = {} /\ Records(s) # {}
           THEN UNCHANGED conn
           ELSE Sends(n, [conn[n] EXCEPT !.kind = "events",
                                             !.batches = batches,
                                             !.replaced = session[s].replaced])
        /\ UNCHANGED <<holder, narrow, errorOf, waiter, alive, phase, history,
                       bounds>>

Answer(n) == AnswerSuperseded(n) \/ AnswerUpgrade(n) \/ AnswerError(n) \/ AnswerEvents(n)

SendOk(n) ==
    /\ conn[n].st = "sending"
    /\ received' = received \union UNION {IdsOf(conn[n].batches[k]) : k \in Keys}
    /\ Close(n)
    /\ UNCHANGED <<files, alive, phase, nextId, released, bounds>>

\* Mutated: a key with no record does not come back to `ended`.
PutBackNoEnded(s, answer) ==
    LET state == OrDefault(s)
        back == [state EXCEPT !.replaced = @ \union answer.replaced]
    IN  /\ inbox' = [k \in Keys |-> Join(answer.batches[k], inbox[k])]
        /\ session' = IF back = state THEN session ELSE [session EXCEPT ![s] = back]
        /\ UNCHANGED errorOf

\* The events of a failed send go before the newer ones, and a key with no
\* record is an ended key of the session again.
PutBack(s, answer) ==
    LET keys == {k \in Keys : answer.batches[k] # EmptyBatch}
        state == OrDefault(s)
        back == [state EXCEPT !.replaced = @ \union answer.replaced,
                              !.ended = @ \union {k \in keys : holder[k] = None}]
    IN  /\ inbox' = [k \in Keys |-> Join(answer.batches[k], inbox[k])]
        /\ session' = IF back = state THEN session ELSE [session EXCEPT ![s] = back]
        /\ UNCHANGED errorOf

\* The error file of a failed send is written again, over a newer one, and its
\* key is an ended key of the session again.
PutBackError(s, answer) ==
    /\ errorOf' = [errorOf EXCEPT ![answer.errorKey] = answer.errorOf]
    /\ session' = [session EXCEPT ![s] =
           [OrDefault(s) EXCEPT !.ended = @ \union {answer.errorKey}]]
    /\ UNCHANGED inbox

PutBackUpgrade(s) ==
    /\ session' = [session EXCEPT ![s] = [OrDefault(s) EXCEPT !.upgraded = TRUE]]
    /\ UNCHANGED <<inbox, errorOf>>

SendFails(n) ==
    LET answer == conn[n]
    IN  /\ answer.st = "sending"
        /\ CASE answer.kind = "events"  -> PutBack(answer.session, answer)
             [] answer.kind = "error"   -> PutBackError(answer.session, answer)
             [] answer.kind = "upgrade" -> PutBackUpgrade(answer.session)
             [] answer.kind = "superseded" -> UNCHANGED <<session, inbox, errorOf>>
        /\ Close(n)
        /\ UNCHANGED <<holder, narrow, alive, phase, history, bounds>>

-----------------------------------------------------------------------------
(* Checks of the managed loops *)

\* `remove_record`: the end of the records of some keys.  The session learns it
\* at its next delivery, and its inboxes wait for that delivery.
EndRecords(keys, error) ==
    /\ holder' = [k \in Keys |-> IF k \in keys THEN None ELSE holder[k]]
    /\ narrow' = [k \in Keys |-> IF k \in keys THEN {} ELSE narrow[k]]
    /\ session' = [s \in Sessions |->
           IF Known(s) THEN [session[s] EXCEPT !.ended = @ \union (keys \cap Records(s))]
           ELSE session[s]]
    /\ errorOf' = [k \in Keys |-> IF error /\ k \in keys THEN holder[k] ELSE errorOf[k]]

\* A check found an event.  With `last`, it is the end of the last MR of the
\* record, and the record ends with no error.
CheckEvents(k, m, last) ==
    /\ phase = "up"
    /\ holder[k] # None
    /\ nextId < MaxEvents
    /\ last => m # NoMr
    /\ inbox' = [inbox EXCEPT ![k][m] = Append(@, nextId)]
    /\ nextId' = nextId + 1
    /\ EndRecords(IF last THEN {k} ELSE {}, FALSE)
    /\ UNCHANGED <<memory, alive, phase, received, released, bounds>>

\* A permanent error, or the fifth other error in a row.
CheckFails(k) ==
    /\ phase = "up"
    /\ holder[k] # None
    /\ errors < MaxErrors
    /\ errors' = errors + 1
    /\ EndRecords({k}, TRUE)
    /\ UNCHANGED <<inbox, memory, alive, phase, history, reuses, resets, crashes>>

-----------------------------------------------------------------------------
(* Owners and time *)

OwnerEnds(p) ==
    /\ p \in alive
    /\ alive' = alive \ {p}
    /\ UNCHANGED <<files, memory, phase, history, bounds>>

\* A process can get the PID of an owner that ended.
OwnerStarts(p) ==
    /\ p \notin alive
    /\ reuses < MaxReuses
    /\ reuses' = reuses + 1
    /\ alive' = alive \union {p}
    /\ UNCHANGED <<files, memory, phase, history, errors, resets, crashes>>

\* The grace period of an away session passes.
GracePasses(s) ==
    /\ session[s].presence = "away"
    /\ session' = [session EXCEPT ![s].presence = "expired"]
    /\ UNCHANGED <<holder, narrow, inbox, errorOf, memory, alive, phase,
                   history, bounds>>

Expired == {s \in Sessions : session[s].presence = "expired"}
OwnerGone(s) == session[s].presence = "live" /\ session[s].owner \notin alive

\* The record of a key after `end_sessions` and `end_gone_worktrees`.
HolderAfter(k, gone) == IF holder[k] \in Expired \/ k \in gone THEN None ELSE holder[k]

\* The record of a session after both.
SessionAfter(s, gone) ==
    IF s \in Expired THEN NoSession
    ELSE [session[s] EXCEPT !.presence = IF OwnerGone(s) THEN "away" ELSE @,
                            !.ended = @ \union (gone \cap Records(s))]

\* `sweep`: the results of a key with no record that no session has in `ended`.
Swept(gone) == {k \in Keys :
    /\ HolderAfter(k, gone) = None
    /\ \A s \in Sessions : k \notin SessionAfter(s, gone).ended}

\* The keys that an expired session gives up.
GivenUp == {k \in Keys : \E s \in Expired : holder[k] = s \/ k \in session[s].ended}

\* One tick, in one hold of the lock.  The worktrees of the keys in gone are
\* gone.
Tick(gone) ==
    /\ phase = "up"
    /\ \A k \in gone : holder[k] \notin Expired \union {None}
    /\ gone # {} => errors < MaxErrors
    /\ errors' = IF gone = {} THEN errors ELSE errors + 1
    /\ holder' = [k \in Keys |-> HolderAfter(k, gone)]
    /\ narrow' = [k \in Keys |-> IF HolderAfter(k, gone) = None THEN {} ELSE narrow[k]]
    /\ session' = [s \in Sessions |-> SessionAfter(s, gone)]
    /\ errorOf' = [k \in Keys |-> IF k \in Swept(gone) THEN None
                                  ELSE IF k \in gone THEN holder[k] ELSE errorOf[k]]
    /\ inbox' = [k \in Keys |-> IF k \in Swept(gone) THEN EmptyBatch ELSE inbox[k]]
    /\ released' = released \union UNION {IdsOf(inbox[k]) : k \in Swept(gone) \cap GivenUp}
    /\ UNCHANGED <<memory, alive, phase, nextId, received, reuses, resets, crashes>>

-----------------------------------------------------------------------------
(* The end and the next start of the daemon *)

\* A new binary, a signal or the idle time.  The ticks end first, then the
\* managed loops and the retry tasks, while clients still get answers: these
\* are steps of the phase up.  Then `delivering.write()` is in the queue, and no
\* waiter starts a new delivery.
Drain ==
    /\ phase = "up"
    /\ phase' = "draining"
    /\ UNCHANGED <<files, memory, alive, history, bounds>>

\* The next daemon has no waiters; the clients connect again.
NoConnections ==
    /\ conn' = [n \in Conns |-> Closed]
    /\ waiter' = [s \in Sessions |-> NoConn]
    /\ phase' = "up"

Drained == phase = "draining" /\ \A n \in Conns : conn[n].st # "sending"

\* The exec of the binary, or the stop and the start by the next client.
Restart ==
    /\ Drained
    /\ NoConnections
    /\ UNCHANGED <<files, alive, history, bounds>>

\* Mutated: only the sessions with the upgrade error get a record.
SessionsAfterBareReset(readable) ==
    LET unread == {k \in Keys : holder[k] # None} \ readable
        upgraded == {holder[k] : k \in unread} \union {s \in Sessions : session[s].upgraded}
    IN  [s \in Sessions |->
            IF s \in upgraded
            THEN [NoSession EXCEPT !.presence = "live", !.owner = session[s].owner,
                                   !.upgraded = TRUE]
            ELSE NoSession]

\* The session records after a reset that can read the records of the keys in
\* readable.  The sessions of the other records get the upgrade error, and so
\* does a session that waits for the one of an earlier reset.
SessionsAfterReset(readable) ==
    LET unread == {k \in Keys : holder[k] # None} \ readable
        upgraded == {holder[k] : k \in unread} \union {s \in Sessions : session[s].upgraded}
    IN  [s \in Sessions |->
            IF s \in upgraded \union {holder[k] : k \in readable}
            THEN [NoSession EXCEPT !.presence = "live", !.owner = session[s].owner,
                                   !.upgraded = s \in upgraded]
            ELSE NoSession]

\* The next binary has a different state format: all state goes away, except
\* the records that it can read and the sessions above.
FormatReset(readable) ==
    /\ Drained
    /\ resets < MaxResets
    /\ \A k \in readable : holder[k] # None
    /\ session' = SessionsAfterReset(readable)
    /\ holder' = [k \in Keys |-> IF k \in readable THEN holder[k] ELSE None]
    /\ narrow' = [k \in Keys |-> IF k \in readable THEN narrow[k] ELSE {}]
    /\ inbox' = EmptyBatches
    /\ errorOf' = [k \in Keys |-> None]
    /\ released' = released \union UNION {IdsOf(inbox[k]) : k \in Keys}
    /\ resets' = resets + 1
    /\ NoConnections
    /\ UNCHANGED <<alive, nextId, received, errors, reuses, crashes>>

\* The process ends at any point, and a client starts the next one.
Crash ==
    /\ crashes < MaxCrashes
    /\ crashes' = crashes + 1
    /\ NoConnections
    /\ UNCHANGED <<files, alive, history, errors, reuses, resets>>

-----------------------------------------------------------------------------
Next ==
    \/ \E s \in Sessions, k \in Keys, mrs \in Filters : Watch(s, k, mrs)
    \/ \E s \in Sessions, k \in Keys : Unsubscribe(s, k)
    \/ \E s \in Sessions, p \in Pids, rename \in BOOLEAN, n \in Conns : Wait(s, p, rename, n)
    \/ \E n \in Conns : ClientGone(n) \/ Answer(n) \/ SendOk(n) \/ SendFails(n)
    \/ \E k \in Keys, m \in Mrs, last \in BOOLEAN : CheckEvents(k, m, last)
    \/ \E k \in Keys : CheckFails(k)
    \/ \E p \in Pids : OwnerEnds(p) \/ OwnerStarts(p)
    \/ \E s \in Sessions : GracePasses(s)
    \/ \E gone \in SUBSET Keys : Tick(gone)
    \/ Drain \/ Restart \/ Crash
    \/ \E readable \in SUBSET Keys : FormatReset(readable)

Spec == Init /\ [][Next]_vars

\* The loop of a waiter looks each second and ends when the owner of its client
\* ended, each send comes to its end, and the daemon exits when it is drained.
\* Ticks and grace periods come again and again while the daemon runs.
DaemonFairness ==
    /\ \A n \in Conns : WF_vars(Answer(n)) /\ WF_vars(SendOk(n) \/ SendFails(n))
    /\ \A n \in Conns : WF_vars(conn[n].pid \notin alive /\ ClientGone(n))
    /\ WF_vars(Restart)
    /\ SF_vars(Tick({}))
    /\ \A s \in Sessions : WF_vars(GracePasses(s))

\* The agent of a session with a running owner connects again after each answer
\* and each restart (the client loop, the wait command of the skills), does not
\* always leave just before its answer, and not each of its sends fails.
ClientFairness ==
    /\ \A s \in Sessions :
           SF_vars(phase = "up" /\ \E p \in Pids, n \in Conns : Wait(s, p, FALSE, n))
    /\ SF_vars(\E n \in Conns : AnswerUpgrade(n))
    /\ SF_vars(\E n \in Conns : AnswerError(n))
    /\ SF_vars(\E n \in Conns : AnswerEvents(n))
    /\ \A kind \in {"upgrade", "error", "events"} :
           SF_vars(\E n \in Conns : conn[n].kind = kind /\ SendOk(n))

FairSpec == Spec /\ DaemonFairness /\ ClientFairness

-----------------------------------------------------------------------------
(* Safety *)

\* Each agent record is of a session with a session record: remove_record can
\* then tell the session which keys ended, and end_sessions ends the record.
RecordHasSession == \A k \in Keys : holder[k] # None => Known(holder[k])

\* The events and the error of a key wait for somebody: a record has the key,
\* or a session has it in `ended`.  No failed send, rename, tick or delivery
\* leaves results that nobody takes and the next sweep deletes.
ResultsHaveTaker ==
    \A k \in Keys : inbox[k] # EmptyBatch \/ errorOf[k] # None =>
        holder[k] # None \/ \E s \in Sessions : k \in session[s].ended

\* Each registered waiter is an open connection of its session: no end of a
\* client, rename or supersession leaves a number that answers nobody.
WaiterIsConnected ==
    \A s \in Sessions : waiter[s] # NoConn =>
        conn[waiter[s]].st # "closed" /\ conn[waiter[s]].session = s

\* A session has no replaced event to send for a key that it has ("A session
\* that takes its key back has the watch again", store.rs watch).
ReplacedIsOver ==
    \A s \in Sessions, k \in Keys : k \in session[s].replaced => holder[k] # s

\* One owner process shows one conversation at a time: two live sessions have
\* different owners (leave_other_sessions, rename_session).
OneLivePerOwner ==
    \A s, t \in Sessions :
        /\ session[s].presence = "live" /\ session[t].presence = "live"
        /\ session[s].owner = session[t].owner /\ session[s].owner # None
        => s = t

InFlight == UNION {IdsOf(conn[n].batches[k]) : n \in Conns, k \in Keys}
Waiting == UNION {IdsOf(inbox[k]) : k \in Keys}

\* Each event waits in an inbox, is on its way to a client, reached one, or went
\* away with its watch.
EventsKept == 0 .. nextId - 1 \subseteq Waiting \union InFlight \union received \union released

\* No restart, failed send, takeover, rename, sweep or format reset loses an
\* event of a watch that still waits for it.
NoEventLost == crashes = 0 => EventsKept

\* W10.2: a crash loses no event either (store.rs take_inbox, before the send).
CrashLosesNothing == EventsKept

\* No event is in two places: a failed send never brings back an event that
\* reached a client, and two deliveries never take the same event.
NoEventTwice ==
    LET Places == [key : Keys, mr : Mrs, at : Conns \union {NoConn}]
        At(p) == Range(IF p.at = NoConn THEN inbox[p.key][p.mr]
                       ELSE conn[p.at].batches[p.key][p.mr])
    IN  /\ \A p, q \in Places : At(p) \intersect At(q) # {} => p = q
        /\ \A p \in Places : At(p) \intersect (received \union released) = {}

-----------------------------------------------------------------------------
(* Liveness *)

\* A restart comes to its end while clients connect, wait and leave: it waits
\* only for the sends that began before it.
RestartEnds == phase = "draining" ~> phase = "up"

\* Each event reaches a client or goes away with its watch, also when sends
\* fail, the daemon restarts, the record ends with an error or the owner ends.
EventArrives ==
    \A id \in 0 .. MaxEvents - 1 :
        id < nextId ~> id \in received \union released \/ crashes > 0
=============================================================================
