---------------------------- MODULE ManagedLoop ----------------------------
(* The managed loops of the watch daemon (daemon/mod.rs): one loop for each  *)
(* repo, which fetches, checks all targets of the repo, and naps until its   *)
(* interval is over, a poke wakes it, or the daemon stops.                   *)
(*                                                                           *)
(* A `watch` request holds the state lock while it pokes its key and makes   *)
(* sure that a loop runs; main() sets the flag of a stop with no lock.  The  *)
(* other users of the lock are one step here.  A Notify of tokio keeps one   *)
(* wake-up (`permit`) for a loop that does not wait for it yet.              *)
EXTENDS Naturals

CONSTANTS
    Repos,   \* main checkouts
    Keys,    \* keys of watches
    Slugs,   \* projects: two checkouts can be of one project
    SlugOf,  \* the project of each repo
    RepoOf,  \* the repo of the worktree of each key
    Free,    \* nobody holds the state lock over more than one step
    MaxFails, \* the errors in a row that end a record (5)
    MaxStops  \* bound: stops and restarts

ASSUME ManagedLoopAssumption ==
    /\ SlugOf \in [Repos -> Slugs]
    /\ RepoOf \in [Keys -> Repos]
    /\ Free \notin Keys
    /\ MaxFails \in Nat \ {0} /\ MaxStops \in Nat

VARIABLES
    repos,    \* the managed repos (repos.json)
    record,   \* the keys with an agent record
    pokes,    \* Memory.pokes: the keys that asked for a round
    fails,    \* Memory.fails: the errors in a row of each key
    pc,       \* where the loop of each repo is; "none": no task, or a finished one
    permit,   \* the wake-up that the Notify of each loop keeps
    targets,  \* the keys that the round of each loop checks
    waiting,  \* those whose check did not start
    begun,    \* those whose check runs
    netError, \* a check of the round had a network error
    online,   \* the machine is awake and the host answers
    lock,     \* the key of the `watch` request that holds the state lock
    sees,     \* what that request read from the stop flag
    stopping, \* Daemon.stopping
    main,     \* of main(): runs, set the flag, waits for the loops, or exited
    awaited,  \* the loops that main() waits for
    owed,     \* history: the keys with a poke that no round answered yet
    stops     \* bound counter

agents == <<record, pokes, fails>>
round == <<targets, waiting, begun, netError>>
process == <<lock, sees, stopping, main, awaited, stops>>
vars == <<repos, agents, pc, permit, round, online, process, owed>>

Slug(k) == SlugOf[RepoOf[k]]
Loops == {r \in Repos : pc[r] # "none"}

Places == {"none", "top", "fetch", "round", "checks", "rest", "nap", "offline", "end"}

TypeOK ==
    /\ repos \subseteq Repos
    /\ record \subseteq Keys
    /\ pokes \subseteq Keys
    /\ fails \in [Keys -> 0 .. MaxFails - 1]
    /\ pc \in [Repos -> Places]
    /\ permit \in [Repos -> BOOLEAN]
    /\ targets \in [Repos -> SUBSET Keys]
    /\ waiting \in [Repos -> SUBSET Keys]
    /\ begun \in [Repos -> SUBSET Keys]
    /\ netError \in [Repos -> BOOLEAN]
    /\ online \in BOOLEAN
    /\ lock \in Keys \union {Free}
    /\ sees \in BOOLEAN
    /\ stopping \in BOOLEAN
    /\ main \in {"runs", "flagged", "waits", "exited"}
    /\ awaited \subseteq Repos
    /\ owed \subseteq Keys
    /\ stops \in 0 .. MaxStops

Init ==
    /\ repos = {}
    /\ record = {}
    /\ pokes = {}
    /\ fails = [k \in Keys |-> 0]
    /\ pc = [r \in Repos |-> "none"]
    /\ permit = [r \in Repos |-> FALSE]
    /\ targets = [r \in Repos |-> {}]
    /\ waiting = [r \in Repos |-> {}]
    /\ begun = [r \in Repos |-> {}]
    /\ netError = [r \in Repos |-> FALSE]
    /\ online \in BOOLEAN
    /\ lock = Free
    /\ sees = FALSE
    /\ stopping = FALSE
    /\ main = "runs"
    /\ awaited = {}
    /\ owed = {}
    /\ stops = 0

-----------------------------------------------------------------------------
(* Requests *)

\* Mutated: notify_waiters, which keeps no wake-up.
PermitsOfWaiters(slug) ==
    [r \in Repos |-> permit[r] \/ (SlugOf[r] = slug /\ pc[r] = "nap")]

\* Memory::poke wakes each loop of the project.
Permits(slug) == [r \in Repos |-> permit[r] \/ (SlugOf[r] = slug /\ pc[r] # "none")]

\* ensure_managed starts a loop unless one runs.
Idle(managed) == {r \in managed : pc[r] = "none"}

StartLoops(started) ==
    /\ pc' = [r \in Repos |-> IF r \in started THEN "top" ELSE pc[r]]
    /\ permit' = [r \in Repos |-> permit[r] /\ r \notin started]

\* remove_record and Memory::forget.
Forget(ended) ==
    /\ record' = record \ ended
    /\ pokes' = pokes \ ended
    /\ fails' = [k \in Keys |-> IF k \in ended THEN 0 ELSE fails[k]]
    /\ owed' = owed \ ended

\* A `watch` request takes the lock, writes its record, pokes, and reads the
\* stop flag: the managed repos stay in a stop.
Watch(k) ==
    /\ lock = Free /\ main # "exited"
    /\ lock' = k
    /\ record' = record \union {k}
    /\ pokes' = pokes \union {k}
    /\ owed' = owed \union {k}
    /\ permit' = Permits(Slug(k))
    /\ sees' = stopping
    /\ repos' = IF stopping THEN repos ELSE repos \union {RepoOf[k]}
    /\ UNCHANGED <<fails, pc, round, online, stopping, main, awaited, stops>>

\* Then ensure_managed reads the flag again, at any time since the first read,
\* and asks git for the project before it starts a loop.
WatchEnds(k) ==
    /\ lock = k
    /\ lock' = Free
    /\ \E late \in {sees, stopping} : StartLoops(IF late THEN {} ELSE Idle({RepoOf[k]}))
    /\ UNCHANGED <<repos, agents, round, online, sees, stopping, main, awaited, stops, owed>>

Unsubscribe(k) ==
    /\ lock = Free /\ main # "exited"
    /\ k \in record
    /\ Forget({k})
    /\ UNCHANGED <<repos, pc, permit, round, online, process>>

-----------------------------------------------------------------------------
(* The loop of a repo *)

Step(r, from, to) ==
    /\ pc[r] = from
    /\ pc' = [pc EXCEPT ![r] = to]

\* A loop goes on while the daemon runs and the repo is managed.
LoopTop(r) ==
    /\ stopping \/ lock = Free
    /\ Step(r, "top", IF stopping \/ r \notin repos THEN "end" ELSE "fetch")
    /\ UNCHANGED <<repos, agents, permit, round, online, process, owed>>

\* A network error of the fetch with the network down waits for it; each other
\* result goes on to the round.
Fetch(r, networkError) ==
    /\ Step(r, "fetch", IF networkError /\ ~online THEN "offline" ELSE "round")
    /\ UNCHANGED <<repos, agents, permit, round, online, process, owed>>

\* wait_network ends with the outage.
NetworkBack(r) ==
    /\ online
    /\ Step(r, "offline", "top")
    /\ UNCHANGED <<repos, agents, permit, round, online, process, owed>>

\* Mutated: the flag is not read, as in a wait for the network alone.
GiveUpUnmanaged(r) ==
    /\ lock = Free /\ r \notin repos
    /\ Step(r, "offline", "end")
    /\ UNCHANGED <<repos, agents, permit, round, online, process, owed>>

\* After each sleep, it looks for a stop and for the end of the repo.
GiveUpNetwork(r) ==
    /\ stopping \/ (lock = Free /\ r \notin repos)
    /\ Step(r, "offline", "end")
    /\ UNCHANGED <<repos, agents, permit, round, online, process, owed>>

\* Which keys are targets depends on worktrees, MRs and records.  A poke of a
\* key that is none has its answer.
RoundTargets(r, keys) ==
    /\ lock = Free
    /\ Step(r, "round", "checks")
    /\ \A k \in keys : Slug(k) = SlugOf[r]
    /\ targets' = [targets EXCEPT ![r] = keys]
    /\ waiting' = [waiting EXCEPT ![r] = keys]
    /\ netError' = [netError EXCEPT ![r] = FALSE]
    /\ owed' = {k \in owed : RepoOf[k] = r => k \in keys}
    /\ UNCHANGED <<repos, agents, permit, begun, online, process>>

BeginCheck(r, k) ==
    /\ lock = Free
    /\ k \in waiting[r]
    /\ waiting' = [waiting EXCEPT ![r] = @ \ {k}]
    /\ begun' = [begun EXCEPT ![r] = @ \union {k}]
    /\ pokes' = pokes \ {k}
    /\ owed' = owed \ {k}
    /\ UNCHANGED <<repos, record, fails, pc, permit, targets, netError, online, process>>

EndCheck(r, k) ==
    /\ lock = Free
    /\ k \in begun[r]
    /\ begun' = [begun EXCEPT ![r] = @ \ {k}]
    /\ UNCHANGED <<repos, pc, permit, targets, waiting, online, process>>

\* `last`: the last MR of the record ended.
CheckGood(r, k, last) ==
    /\ EndCheck(r, k)
    /\ IF last THEN k \in record /\ Forget({k})
       ELSE /\ fails' = [fails EXCEPT ![k] = 0]
            /\ UNCHANGED <<record, pokes, owed>>
    /\ UNCHANGED netError

CheckNetworkError(r, k) ==
    /\ EndCheck(r, k)
    /\ netError' = [netError EXCEPT ![r] = TRUE]
    /\ UNCHANGED <<agents, owed>>

CheckPermanentError(r, k) ==
    /\ EndCheck(r, k)
    /\ Forget({k})
    /\ UNCHANGED netError

LastFail(k) == fails[k] + 1 >= MaxFails

CheckOtherError(r, k) ==
    /\ EndCheck(r, k)
    /\ IF LastFail(k) THEN Forget({k})
       ELSE /\ fails' = [fails EXCEPT ![k] = @ + 1]
            /\ UNCHANGED <<record, pokes, owed>>
    /\ UNCHANGED netError

Check(r, k) ==
    \/ \E last \in BOOLEAN : CheckGood(r, k, last)
    \/ CheckNetworkError(r, k) \/ CheckPermanentError(r, k) \/ CheckOtherError(r, k)

\* Mutated: the pokes of keys that are no targets stay.
PokesKept(r) == pokes

\* The end of a round drops the pokes of the project that no check can take.
PokesAfter(r) == {k \in pokes : Slug(k) = SlugOf[r] => k \in targets[r]}

RoundEnds(r) ==
    /\ lock = Free
    /\ begun[r] = {} /\ waiting[r] = {}
    /\ Step(r, "checks", "rest")
    /\ pokes' = PokesAfter(r)
    /\ UNCHANGED <<repos, record, fails, permit, round, online, process, owed>>

AfterRound(r) ==
    IF stopping THEN "end"
    ELSE IF netError[r] /\ ~online THEN "offline" ELSE "nap"

Rest(r) ==
    /\ AfterRound(r) = "nap" => lock = Free
    /\ Step(r, "rest", AfterRound(r))
    /\ UNCHANGED <<repos, agents, permit, round, online, process, owed>>

\* A nap that ends in a sleep of the machine or in a maintenance wake goes to
\* the network first.
NapEnd == {"top", "offline"}

\* The Notify takes its wake-up.
NapWoken(r, to) ==
    /\ permit[r] /\ to \in NapEnd
    /\ Step(r, "nap", to)
    /\ permit' = [permit EXCEPT ![r] = FALSE]
    /\ UNCHANGED <<repos, agents, round, online, process, owed>>

Interrupted(r) == stopping \/ (lock = Free /\ \E k \in pokes : Slug(k) = SlugOf[r])

\* Each step of a nap looks for a poke and a stop first.
NapInterrupted(r, to) ==
    /\ Interrupted(r) /\ to \in NapEnd
    /\ Step(r, "nap", to)
    /\ UNCHANGED <<repos, agents, permit, round, online, process, owed>>

\* The interval is over, or the machine slept.
NapOver(r, to) ==
    /\ to \in NapEnd
    /\ Step(r, "nap", to)
    /\ UNCHANGED <<repos, agents, permit, round, online, process, owed>>

LoopEnds(r) ==
    /\ lock = Free
    /\ Step(r, "end", "none")
    /\ UNCHANGED <<repos, agents, permit, round, online, process, owed>>

-----------------------------------------------------------------------------
(* The daemon *)

\* One tick ends records and drops repos whose folder is gone, then makes sure
\* that each other one has a loop.
Tick(ended, gone) ==
    /\ main = "runs" /\ lock = Free
    /\ ended \subseteq record
    /\ \A k \in record : RepoOf[k] \in gone => k \in ended
    /\ gone \subseteq repos
    /\ Forget(ended)
    /\ repos' = repos \ gone
    /\ StartLoops(Idle(repos'))
    /\ UNCHANGED <<round, online, process>>

\* begin_stop sets the flag with no lock.
BeginStop ==
    /\ main = "runs" /\ stops < MaxStops
    /\ main' = "flagged"
    /\ stopping' = TRUE
    /\ stops' = stops + 1
    /\ UNCHANGED <<repos, agents, pc, permit, round, online, lock, sees, awaited, owed>>

\* Mutated: the loops are read with no lock.
NoLockToDrain == TRUE

LockToDrain == lock = Free

DrainLoops ==
    /\ main = "flagged" /\ LockToDrain
    /\ main' = "waits"
    /\ awaited' = Loops
    /\ UNCHANGED <<repos, agents, pc, permit, round, online, lock, sees, stopping, stops, owed>>

Exit ==
    /\ main = "waits" /\ lock = Free
    /\ awaited \intersect Loops = {}
    /\ main' = "exited"
    /\ UNCHANGED <<repos, agents, pc, permit, round, online, lock, sees, stopping, awaited, stops, owed>>

\* The next process has the files and a new memory.
Restart ==
    /\ main = "exited"
    /\ repos' = repos \union {RepoOf[k] : k \in record}
    /\ pokes' = {}
    /\ fails' = [k \in Keys |-> 0]
    /\ pc' = [r \in Repos |-> "none"]
    /\ permit' = [r \in Repos |-> FALSE]
    /\ targets' = [r \in Repos |-> {}]
    /\ waiting' = [r \in Repos |-> {}]
    /\ begun' = [r \in Repos |-> {}]
    /\ netError' = [r \in Repos |-> FALSE]
    /\ sees' = FALSE
    /\ stopping' = FALSE
    /\ main' = "runs"
    /\ awaited' = {}
    /\ UNCHANGED <<record, online, lock, stops, owed>>

NetworkChanges ==
    /\ online' = ~online
    /\ UNCHANGED <<repos, agents, pc, permit, round, process, owed>>

-----------------------------------------------------------------------------
Next ==
    \/ \E k \in Keys : Watch(k) \/ WatchEnds(k) \/ Unsubscribe(k)
    \/ \E r \in Repos : LoopTop(r) \/ NetworkBack(r) \/ GiveUpNetwork(r) \/ RoundEnds(r) \/ Rest(r) \/ LoopEnds(r)
    \/ \E r \in Repos, networkError \in BOOLEAN : Fetch(r, networkError)
    \/ \E r \in Repos, keys \in SUBSET Keys : RoundTargets(r, keys)
    \/ \E r \in Repos, k \in Keys : BeginCheck(r, k) \/ Check(r, k)
    \/ \E r \in Repos, to \in NapEnd : NapWoken(r, to) \/ NapInterrupted(r, to) \/ NapOver(r, to)
    \/ \E ended \in SUBSET Keys, gone \in SUBSET Repos : Tick(ended, gone)
    \/ BeginStop \/ DrainLoops \/ Exit \/ Restart
    \/ NetworkChanges

Spec == Init /\ [][Next]_vars

\* A step of the loop that no interval has to bring.
LoopStep(r) ==
    \/ LoopTop(r) \/ NetworkBack(r) \/ GiveUpNetwork(r) \/ RoundEnds(r) \/ Rest(r) \/ LoopEnds(r)
    \/ \E networkError \in BOOLEAN : Fetch(r, networkError)
    \/ \E keys \in SUBSET Keys : RoundTargets(r, keys)
    \/ \E k \in Keys : BeginCheck(r, k) \/ Check(r, k)
    \/ \E to \in NapEnd : NapWoken(r, to) \/ NapInterrupted(r, to)

\* The lock of tokio is fair, so each step that waits for it comes.  Fetches,
\* checks and looks at the network have timeouts.  No interval has to end.
DaemonFairness ==
    /\ \A r \in Repos : SF_vars(LoopStep(r))
    /\ WF_vars(\E k \in Keys : WatchEnds(k))
    /\ SF_vars(DrainLoops) /\ SF_vars(Exit) /\ WF_vars(Restart)

\* The ticks come again and again while the daemon runs.  The network and the
\* machine promise nothing.
FairSpec == Spec /\ DaemonFairness /\ SF_vars(Tick({}, {}))

-----------------------------------------------------------------------------
(* Safety *)

\* A poke that no round answered yet has something that brings a round: its
\* loop is before the targets of its next round, has a wake-up, or has its
\* check still to begin; or a tick or the next process starts a loop.
NoPokeForgotten ==
    \A k \in owed :
        \/ pc[RepoOf[k]] \in {"none", "top", "fetch", "round", "offline", "end"}
        \/ permit[RepoOf[k]]
        \/ pc[RepoOf[k]] = "checks" /\ k \in waiting[RepoOf[k]]

\* No loop runs when the process exits: a restart loses no round, no delivery
\* and no retry of a loop that main() does not know (W10.7).
NoLoopAtExit == main = "exited" => Loops = {}

-----------------------------------------------------------------------------
(* Liveness *)

\* Each poke gets a round that begins after it, or its record or repo ends, or
\* the network is down again: a wake-up alone is enough, with no end of an
\* interval.
PokeServed ==
    \A k \in Keys : k \in owed ~> k \notin owed \/ RepoOf[k] \notin repos \/ ~online

\* A poke does not make its loop run round after round with no nap.
PokeTaken ==
    \A k \in Keys : k \in pokes ~> k \notin pokes \/ RepoOf[k] \notin repos \/ ~online

\* A stop ends, also in a network outage and with new requests.
StopEnds == main = "flagged" ~> main = "exited"
=============================================================================
