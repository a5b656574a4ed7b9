------------------------- MODULE ManagedLoopProofs -------------------------
(* Proofs about the managed loops: types, no poke is forgotten, and no loop  *)
(* runs at the exit, for any number of repos, keys and projects.             *)
EXTENDS ManagedLoop, TLAPS

-----------------------------------------------------------------------------
(* Types *)

\* A step of a loop to a place leaves a place for each repo.
LEMMA StepPlaces ==
    ASSUME TypeOK, NEW r \in Repos, NEW from, NEW to \in Places, Step(r, from, to)
    PROVE  pc' \in [Repos -> Places]
BY DEF TypeOK, Step

\* Memory::forget and remove_record keep the types.
LEMMA ForgetTypes ==
    ASSUME TypeOK, NEW ended, Forget(ended)
    PROVE  /\ record' \subseteq Keys
           /\ pokes' \subseteq Keys
           /\ owed' \subseteq Keys
           /\ fails' \in [Keys -> 0 .. MaxFails - 1]
<1>1. 0 \in 0 .. MaxFails - 1
    BY ManagedLoopAssumption
<1>. QED
    BY <1>1 DEF TypeOK, Forget

\* ensure_managed keeps the types.
LEMMA StartTypes ==
    ASSUME TypeOK, NEW started, StartLoops(started)
    PROVE  /\ pc' \in [Repos -> Places]
           /\ permit' \in [Repos -> BOOLEAN]
<1>1. pc' \in [Repos -> Places]
    BY DEF TypeOK, StartLoops, Places
<1>2. permit' \in [Repos -> BOOLEAN]
    BY DEF TypeOK, StartLoops
<1>. QED
    BY <1>1, <1>2

\* Each request keeps the types.
LEMMA RequestTypes ==
    ASSUME TypeOK, NEW k \in Keys, Watch(k) \/ WatchEnds(k) \/ Unsubscribe(k)
    PROVE  TypeOK'
<1>1. RepoOf[k] \in Repos
    BY ManagedLoopAssumption
<1>2. CASE Watch(k)
    <2>1. permit' \in [Repos -> BOOLEAN]
        BY <1>2 DEF TypeOK, Watch, Permits
    <2>. QED
        BY <1>1, <1>2, <2>1 DEF TypeOK, Watch, round
<1>3. CASE WatchEnds(k)
    <2>1. PICK late \in {sees, stopping} : StartLoops(IF late THEN {} ELSE Idle({RepoOf[k]}))
        BY <1>3 DEF WatchEnds
    <2>2. pc' \in [Repos -> Places] /\ permit' \in [Repos -> BOOLEAN]
        BY <2>1, StartTypes
    <2>. QED
        BY <1>3, <2>2 DEF TypeOK, WatchEnds, round, agents
<1>4. CASE Unsubscribe(k)
    <2>1. Forget({k})
        BY <1>4 DEF Unsubscribe
    <2>. QED
        BY <1>4, <2>1, ForgetTypes DEF TypeOK, Unsubscribe, round, process
<1>. QED
    BY <1>2, <1>3, <1>4

\* Each step of a loop outside its checks keeps the types.
LEMMA PlaceTypes ==
    ASSUME TypeOK, NEW r \in Repos,
           \/ LoopTop(r) \/ NetworkBack(r) \/ GiveUpNetwork(r) \/ RoundEnds(r) \/ Rest(r) \/ LoopEnds(r)
           \/ \E networkError \in BOOLEAN : Fetch(r, networkError)
           \/ \E to \in NapEnd : NapWoken(r, to) \/ NapInterrupted(r, to) \/ NapOver(r, to)
    PROVE  TypeOK'
<1>1. PICK from, to \in Places : Step(r, from, to)
    BY DEF LoopTop, NetworkBack, GiveUpNetwork, RoundEnds, Rest, LoopEnds, Fetch, NapWoken, NapInterrupted,
           NapOver, NapEnd, AfterRound, Places
<1>2. pc' \in [Repos -> Places]
    BY <1>1, StepPlaces
<1>3. permit' \in [Repos -> BOOLEAN]
    BY DEF TypeOK, LoopTop, NetworkBack, GiveUpNetwork, RoundEnds, Rest, LoopEnds, Fetch, NapWoken,
           NapInterrupted, NapOver
<1>4. pokes' \subseteq Keys
    BY DEF TypeOK, LoopTop, NetworkBack, GiveUpNetwork, RoundEnds, Rest, LoopEnds, Fetch, NapWoken,
           NapInterrupted, NapOver, PokesAfter, agents
<1>5. UNCHANGED <<repos, record, fails, round, online, process, owed>>
    BY DEF LoopTop, NetworkBack, GiveUpNetwork, RoundEnds, Rest, LoopEnds, Fetch, NapWoken,
           NapInterrupted, NapOver, agents
<1>. QED
    BY <1>2, <1>3, <1>4, <1>5 DEF TypeOK, round, process

\* The round and its checks keep the types.
LEMMA RoundTypes ==
    ASSUME TypeOK, NEW r \in Repos, NEW keys \in SUBSET Keys, RoundTargets(r, keys)
    PROVE  TypeOK'
<1>1. pc' \in [Repos -> Places]
    BY StepPlaces DEF RoundTargets, Places
<1>. QED
    BY <1>1 DEF TypeOK, RoundTargets, agents, process

LEMMA CheckTypes ==
    ASSUME TypeOK, NEW r \in Repos, NEW k \in Keys, BeginCheck(r, k) \/ Check(r, k)
    PROVE  TypeOK'
<1>1. CASE BeginCheck(r, k)
    BY <1>1 DEF TypeOK, BeginCheck, process
<1>2. CASE Check(r, k)
    <2>1. begun' \in [Repos -> SUBSET Keys] /\ netError' \in [Repos -> BOOLEAN]
        BY ZenonT(60), <1>2 DEF TypeOK, Check, CheckGood, CheckNetworkError, CheckPermanentError, CheckOtherError, EndCheck
    <2>2. UNCHANGED <<repos, pc, permit, targets, waiting, online, process>>
        BY <1>2 DEF Check, CheckGood, CheckNetworkError, CheckPermanentError, CheckOtherError, EndCheck
    <2>3. CASE Forget({k})
        BY <2>1, <2>2, <2>3, ForgetTypes DEF TypeOK, process
    <2>4. CASE ~Forget({k})
        <3>1. UNCHANGED <<record, pokes, owed>>
            BY <1>2, <2>4 DEF Check, CheckGood, CheckNetworkError, CheckPermanentError, CheckOtherError, agents
        <3>2. fails' \in [Keys -> 0 .. MaxFails - 1]
            <4>1. \/ UNCHANGED fails
                  \/ fails' = [fails EXCEPT ![k] = 0]
                  \/ ~LastFail(k) /\ fails' = [fails EXCEPT ![k] = @ + 1]
                BY <1>2, <2>4
                   DEF Check, CheckGood, CheckNetworkError, CheckPermanentError, CheckOtherError, agents
            <4>2. ~LastFail(k) => fails[k] + 1 \in 0 .. MaxFails - 1
                BY ManagedLoopAssumption DEF TypeOK, LastFail
            <4>3. 0 \in 0 .. MaxFails - 1
                BY ManagedLoopAssumption
            <4>. QED
                BY <4>1, <4>2, <4>3 DEF TypeOK
        <3>. QED
            BY <2>1, <2>2, <3>1, <3>2 DEF TypeOK, process
    <2>. QED
        BY <2>3, <2>4
<1>. QED
    BY <1>1, <1>2

\* The steps of the daemon and of the network keep the types.
LEMMA DaemonTypes ==
    ASSUME TypeOK,
           \/ \E ended \in SUBSET Keys, gone \in SUBSET Repos : Tick(ended, gone)
           \/ BeginStop \/ DrainLoops \/ Exit \/ Restart \/ NetworkChanges
    PROVE  TypeOK'
<1>1. ASSUME NEW ended \in SUBSET Keys, NEW gone \in SUBSET Repos, Tick(ended, gone)
      PROVE  TypeOK'
    <2>1. Forget(ended) /\ StartLoops(Idle(repos'))
        BY <1>1 DEF Tick
    <2>. QED
        BY <1>1, <2>1, ForgetTypes, StartTypes DEF TypeOK, Tick, round, process
<1>2. CASE BeginStop
    BY <1>2, ManagedLoopAssumption DEF TypeOK, BeginStop, agents, round
<1>3. CASE DrainLoops
    BY <1>3 DEF TypeOK, DrainLoops, Loops, agents, round
<1>4. CASE Exit
    BY <1>4 DEF TypeOK, Exit, agents, round
<1>5. CASE Restart
    <2>1. {RepoOf[k] : k \in record} \subseteq Repos
        BY ManagedLoopAssumption DEF TypeOK
    <2>2. fails' \in [Keys -> 0 .. MaxFails - 1]
        BY <1>5, ManagedLoopAssumption DEF Restart
    <2>3. pc' \in [Repos -> Places]
        BY <1>5 DEF Restart, Places
    <2>. QED
        BY <1>5, <2>1, <2>2, <2>3 DEF TypeOK, Restart
<1>6. CASE NetworkChanges
    BY <1>6 DEF TypeOK, NetworkChanges, agents, round, process
<1>. QED
    BY <1>1, <1>2, <1>3, <1>4, <1>5, <1>6

\* Each state of each instance has its type: the errors of a key never reach
\* the number that ends its record, over takeovers and restarts.
THEOREM TypeCorrect == Spec => []TypeOK
<1>1. Init => TypeOK
    <2>1. 0 \in 0 .. MaxFails - 1 /\ 0 \in 0 .. MaxStops
        BY ManagedLoopAssumption
    <2>. QED
        BY ZenonT(60), <2>1 DEF Init, TypeOK, Places
<1>2. TypeOK /\ [Next]_vars => TypeOK'
    <2>. SUFFICES ASSUME TypeOK, [Next]_vars PROVE TypeOK'
        OBVIOUS
    <2>1. CASE UNCHANGED vars
        BY <2>1 DEF TypeOK, vars, agents, round, process
    <2>2. CASE Next
        BY <2>2, RequestTypes, PlaceTypes, RoundTypes, CheckTypes, DaemonTypes, Zenon DEF Next
    <2>. QED
        BY <2>1, <2>2
<1>. QED
    BY <1>1, <1>2, PTL DEF Spec

-----------------------------------------------------------------------------
(* No poke is forgotten *)

\* The invariant for one key.
Remembered(k) ==
    \/ pc[RepoOf[k]] \in {"none", "top", "fetch", "round", "offline", "end"}
    \/ permit[RepoOf[k]]
    \/ pc[RepoOf[k]] = "checks" /\ k \in waiting[RepoOf[k]]

\* A step that owes no new poke, keeps the wake-ups and the checks of the other
\* repos, and moves one loop, forgets only pokes of that loop.
LEMMA OtherLoop ==
    ASSUME TypeOK, NoPokeForgotten, NEW r \in Repos, NEW from, NEW to, Step(r, from, to),
           NEW k \in owed, k \in Keys, RepoOf[k] # r,
           permit'[RepoOf[k]] = permit[RepoOf[k]], waiting'[RepoOf[k]] = waiting[RepoOf[k]]
    PROVE  Remembered(k)'
<1>1. RepoOf[k] \in Repos
    BY ManagedLoopAssumption
<1>2. pc'[RepoOf[k]] = pc[RepoOf[k]]
    BY <1>1 DEF Step, TypeOK
<1>3. Remembered(k)
    BY DEF NoPokeForgotten, Remembered
<1>. QED
    BY <1>2, <1>3 DEF Remembered

\* ensure_managed starts loops before the targets of their first round.
LEMMA StartRemembers ==
    ASSUME TypeOK, NoPokeForgotten, NEW managed \in SUBSET Repos, StartLoops(Idle(managed)),
           NEW k \in owed, k \in Keys, UNCHANGED waiting
    PROVE  Remembered(k)'
<1>1. RepoOf[k] \in Repos
    BY ManagedLoopAssumption
<1>2. Remembered(k)
    BY DEF NoPokeForgotten, Remembered
<1>3. CASE RepoOf[k] \in Idle(managed)
    <2>1. pc'[RepoOf[k]] = "top"
        BY <1>1, <1>3 DEF StartLoops
    <2>. QED
        BY <2>1 DEF Remembered
<1>4. CASE RepoOf[k] \notin Idle(managed)
    <2>1. pc'[RepoOf[k]] = pc[RepoOf[k]] /\ (permit'[RepoOf[k]] <=> permit[RepoOf[k]])
        BY <1>1, <1>4 DEF StartLoops
    <2>. QED
        BY <1>2, <2>1 DEF Remembered
<1>. QED
    BY <1>3, <1>4

\* A request leaves no poke forgotten: a poke wakes each loop of its project.
LEMMA RequestRemembers ==
    ASSUME TypeOK, NoPokeForgotten, NEW k \in Keys, Watch(k) \/ WatchEnds(k) \/ Unsubscribe(k)
    PROVE  NoPokeForgotten'
<1>. SUFFICES ASSUME NEW j \in owed' PROVE Remembered(j)'
    BY DEF NoPokeForgotten, Remembered
<1>1. j \in Keys /\ RepoOf[j] \in Repos
    BY RequestTypes, ManagedLoopAssumption DEF TypeOK
<1>2. CASE Watch(k)
    <2>1. UNCHANGED <<pc, waiting>>
        BY <1>2 DEF Watch, round
    <2>2. CASE j = k
        <3>1. pc[RepoOf[j]] = "none" \/ permit'[RepoOf[j]]
            BY <1>1, <1>2, <2>2 DEF Watch, Permits, Slug
        <3>. QED
            BY <2>1, <3>1 DEF Remembered
    <2>3. CASE j # k
        <3>1. Remembered(j)
            BY <1>2, <2>3 DEF Watch, NoPokeForgotten, Remembered
        <3>2. permit[RepoOf[j]] => permit'[RepoOf[j]]
            BY <1>1, <1>2 DEF Watch, Permits
        <3>. QED
            BY <2>1, <3>1, <3>2 DEF Remembered
    <2>. QED
        BY <2>2, <2>3
<1>3. CASE WatchEnds(k)
    <2>1. PICK late \in {sees, stopping} : StartLoops(IF late THEN {} ELSE Idle({RepoOf[k]}))
        BY <1>3 DEF WatchEnds
    <2>2. PICK managed \in SUBSET Repos : StartLoops(Idle(managed))
        <3>1. {RepoOf[k]} \in SUBSET Repos /\ {} \in SUBSET Repos
            BY ManagedLoopAssumption
        <3>2. Idle({}) = {}
            BY DEF Idle
        <3>. QED
            BY <2>1, <3>1, <3>2
    <2>3. j \in owed /\ UNCHANGED waiting
        BY <1>3 DEF WatchEnds, round
    <2>. QED
        BY <1>1, <2>2, <2>3, StartRemembers
<1>4. CASE Unsubscribe(k)
    BY <1>1, <1>4 DEF Unsubscribe, Forget, NoPokeForgotten, Remembered, round
<1>. QED
    BY <1>2, <1>3, <1>4

\* The loop of a repo forgets no poke of its own repo: it sleeps only when each
\* of them has its check or keeps a wake-up.
LEMMA LoopRemembers ==
    ASSUME TypeOK, NoPokeForgotten, NEW r \in Repos,
           \/ LoopTop(r) \/ NetworkBack(r) \/ GiveUpNetwork(r) \/ RoundEnds(r) \/ Rest(r) \/ LoopEnds(r)
           \/ \E networkError \in BOOLEAN : Fetch(r, networkError)
           \/ \E to \in NapEnd : NapWoken(r, to) \/ NapInterrupted(r, to) \/ NapOver(r, to)
    PROVE  NoPokeForgotten'
<1>. SUFFICES ASSUME NEW k \in owed' PROVE Remembered(k)'
    BY DEF NoPokeForgotten, Remembered
<1>1. k \in owed /\ UNCHANGED waiting
    BY DEF LoopTop, NetworkBack, GiveUpNetwork, RoundEnds, Rest, LoopEnds, Fetch, NapWoken, NapInterrupted,
           NapOver, round
<1>2. k \in Keys /\ RepoOf[k] \in Repos
    BY <1>1, ManagedLoopAssumption DEF TypeOK
<1>3. PICK from, to : Step(r, from, to)
    BY DEF LoopTop, NetworkBack, GiveUpNetwork, RoundEnds, Rest, LoopEnds, Fetch, NapWoken, NapInterrupted, NapOver
<1>4. CASE RepoOf[k] # r
    <2>1. permit'[RepoOf[k]] = permit[RepoOf[k]]
        BY <1>2, <1>4 DEF TypeOK, LoopTop, NetworkBack, GiveUpNetwork, RoundEnds, Rest, LoopEnds, Fetch,
           NapWoken, NapInterrupted, NapOver
    <2>. QED
        BY <1>1, <1>2, <1>3, <1>4, <2>1, OtherLoop
<1>5. CASE RepoOf[k] = r
    <2>1. Remembered(k)
        BY <1>1 DEF NoPokeForgotten, Remembered
    <2>2. CASE RoundEnds(r) \/ Rest(r)
        <3>1. permit[r]
            BY <1>1, <1>5, <2>1, <2>2 DEF RoundEnds, Rest, Step, Remembered
        <3>2. permit'[r]
            BY <2>2, <3>1 DEF RoundEnds, Rest
        <3>. QED
            BY <1>5, <3>2 DEF Remembered
    <2>3. CASE ~(RoundEnds(r) \/ Rest(r))
        <3>1. pc'[r] \in {"none", "top", "fetch", "round", "offline", "end"}
            BY <2>3 DEF TypeOK, LoopTop, NetworkBack, GiveUpNetwork, LoopEnds, Fetch, NapWoken, NapInterrupted,
               NapOver, NapEnd, Step
        <3>. QED
            BY <1>5, <3>1 DEF Remembered
    <2>. QED
        BY <2>2, <2>3
<1>. QED
    BY <1>4, <1>5

\* A round owes a check to each poke of its repo that it keeps.
LEMMA RoundRemembers ==
    ASSUME TypeOK, NoPokeForgotten, NEW r \in Repos, NEW keys \in SUBSET Keys, RoundTargets(r, keys)
    PROVE  NoPokeForgotten'
<1>. SUFFICES ASSUME NEW k \in owed' PROVE Remembered(k)'
    BY DEF NoPokeForgotten, Remembered
<1>1. k \in owed /\ (RepoOf[k] = r => k \in keys)
    BY DEF RoundTargets
<1>2. k \in Keys /\ RepoOf[k] \in Repos
    BY <1>1, ManagedLoopAssumption DEF TypeOK
<1>3. CASE RepoOf[k] # r
    <2>1. waiting'[RepoOf[k]] = waiting[RepoOf[k]] /\ permit' = permit /\ Step(r, "round", "checks")
        BY <1>2, <1>3 DEF TypeOK, RoundTargets
    <2>. QED
        BY <1>1, <1>2, <1>3, <2>1, OtherLoop
<1>4. CASE RepoOf[k] = r
    <2>1. pc'[r] = "checks" /\ k \in waiting'[r]
        BY <1>1, <1>4 DEF TypeOK, RoundTargets, Step
    <2>. QED
        BY <1>4, <2>1 DEF Remembered
<1>. QED
    BY <1>3, <1>4

\* A check that begins answers the poke of its key only.
LEMMA CheckRemembers ==
    ASSUME TypeOK, NoPokeForgotten, NEW r \in Repos, NEW k \in Keys, BeginCheck(r, k) \/ Check(r, k)
    PROVE  NoPokeForgotten'
<1>. SUFFICES ASSUME NEW j \in owed' PROVE Remembered(j)'
    BY DEF NoPokeForgotten, Remembered
<1>1. CASE BeginCheck(r, k)
    <2>1. j \in owed /\ j # k /\ UNCHANGED <<pc, permit>>
        BY <1>1 DEF BeginCheck
    <2>2. RepoOf[j] \in Repos
        BY <2>1, ManagedLoopAssumption DEF TypeOK
    <2>3. j \in waiting[RepoOf[j]] => j \in waiting'[RepoOf[j]]
        BY <1>1, <2>1, <2>2 DEF TypeOK, BeginCheck
    <2>. QED
        BY <2>1, <2>3 DEF NoPokeForgotten, Remembered
<1>2. CASE Check(r, k)
    <2>1. j \in owed
        BY <1>2 DEF Check, CheckGood, CheckNetworkError, CheckPermanentError, CheckOtherError, Forget
    <2>2. UNCHANGED <<pc, permit, waiting>>
        BY <1>2 DEF Check, CheckGood, CheckNetworkError, CheckPermanentError, CheckOtherError, EndCheck
    <2>. QED
        BY <2>1, <2>2 DEF NoPokeForgotten, Remembered
<1>. QED
    BY <1>1, <1>2

\* Ticks, stops and restarts forget no poke.
LEMMA DaemonRemembers ==
    ASSUME TypeOK, NoPokeForgotten,
           \/ \E ended \in SUBSET Keys, gone \in SUBSET Repos : Tick(ended, gone)
           \/ BeginStop \/ DrainLoops \/ Exit \/ Restart \/ NetworkChanges
    PROVE  NoPokeForgotten'
<1>. SUFFICES ASSUME NEW k \in owed' PROVE Remembered(k)'
    BY DEF NoPokeForgotten, Remembered
<1>1. k \in owed
    BY DEF Tick, Forget, BeginStop, DrainLoops, Exit, Restart, NetworkChanges
<1>2. k \in Keys /\ RepoOf[k] \in Repos
    BY <1>1, ManagedLoopAssumption DEF TypeOK
<1>3. ASSUME NEW ended \in SUBSET Keys, NEW gone \in SUBSET Repos, Tick(ended, gone)
      PROVE  Remembered(k)'
    <2>1. StartLoops(Idle(repos')) /\ UNCHANGED waiting /\ repos' \in SUBSET Repos
        BY <1>3 DEF Tick, TypeOK, round
    <2>. QED
        BY <1>1, <1>2, <2>1, StartRemembers
<1>4. CASE BeginStop \/ DrainLoops \/ Exit \/ NetworkChanges
    <2>1. UNCHANGED <<pc, permit, waiting>>
        BY <1>4 DEF BeginStop, DrainLoops, Exit, NetworkChanges, round
    <2>. QED
        BY <1>1, <2>1 DEF NoPokeForgotten, Remembered
<1>5. CASE Restart
    <2>1. pc'[RepoOf[k]] = "none"
        BY <1>2, <1>5 DEF Restart
    <2>. QED
        BY <2>1 DEF Remembered
<1>. QED
    BY <1>3, <1>4, <1>5

\* Each poke that no round answered yet has something that brings a round, for
\* any number of checkouts of one project: a loop never naps over a poke.
THEOREM PokesAreRemembered == Spec => []NoPokeForgotten
<1>1. Init => NoPokeForgotten
    BY DEF Init, NoPokeForgotten
<1>2. TypeOK /\ NoPokeForgotten /\ [Next]_vars => NoPokeForgotten'
    <2>. SUFFICES ASSUME TypeOK, NoPokeForgotten, [Next]_vars PROVE NoPokeForgotten'
        OBVIOUS
    <2>1. CASE UNCHANGED vars
        BY <2>1 DEF NoPokeForgotten, vars, round
    <2>2. CASE Next
        BY <2>2, RequestRemembers, LoopRemembers, RoundRemembers, CheckRemembers, DaemonRemembers, Zenon DEF Next
    <2>. QED
        BY <2>1, <2>2
<1>. QED
    BY <1>1, <1>2, TypeCorrect, PTL DEF Spec

-----------------------------------------------------------------------------
(* No loop runs at the exit *)

\* After main() took the tasks, no request starts a loop: the ones that came
\* before the flag are over, and the later ones read it.
StopIsSafe ==
    /\ main # "runs" => stopping
    /\ main = "waits" => Loops \subseteq awaited /\ (lock # Free => sees)
    /\ main = "exited" => lock = Free /\ Loops = {}

\* A step of a loop brings no loop.
LEMMA StepAddsNoLoop ==
    ASSUME TypeOK, NEW r \in Repos, NEW from \in Places \ {"none"}, NEW to, Step(r, from, to)
    PROVE  Loops' \subseteq Loops /\ Loops # {}
BY DEF TypeOK, Step, Loops

\* The steps of a loop keep the stop safe.
LEMMA LoopStopsSafely ==
    ASSUME TypeOK, StopIsSafe, NEW r \in Repos,
           \/ LoopTop(r) \/ NetworkBack(r) \/ GiveUpNetwork(r) \/ RoundEnds(r) \/ Rest(r) \/ LoopEnds(r)
           \/ \E networkError \in BOOLEAN : Fetch(r, networkError)
           \/ \E keys \in SUBSET Keys : RoundTargets(r, keys)
           \/ \E to \in NapEnd : NapWoken(r, to) \/ NapInterrupted(r, to) \/ NapOver(r, to)
    PROVE  StopIsSafe'
<1>1. PICK from \in Places \ {"none"}, to \in Places : Step(r, from, to)
    BY DEF LoopTop, NetworkBack, GiveUpNetwork, RoundEnds, Rest, LoopEnds, Fetch, RoundTargets, NapWoken,
           NapInterrupted, NapOver, Places, NapEnd, AfterRound
<1>2. UNCHANGED <<main, stopping, lock, sees, awaited>>
    BY DEF LoopTop, NetworkBack, GiveUpNetwork, RoundEnds, Rest, LoopEnds, Fetch, RoundTargets, NapWoken,
           NapInterrupted, NapOver, process
<1>. QED
    BY <1>1, <1>2, StepAddsNoLoop DEF StopIsSafe

\* Requests keep the stop safe.
LEMMA RequestStopsSafely ==
    ASSUME TypeOK, StopIsSafe, NEW k \in Keys, Watch(k) \/ WatchEnds(k) \/ Unsubscribe(k)
    PROVE  StopIsSafe'
<1>1. CASE Watch(k) \/ Unsubscribe(k)
    BY <1>1 DEF StopIsSafe, Watch, Unsubscribe, Loops, process
<1>2. CASE WatchEnds(k)
    <2>1. UNCHANGED <<main, stopping, awaited, sees>> /\ lock' = Free /\ lock # Free
        BY <1>2, ManagedLoopAssumption DEF WatchEnds
    <2>2. CASE main = "runs" \/ main = "flagged"
        BY <2>1, <2>2 DEF StopIsSafe
    <2>3. CASE main = "waits"
        <3>1. sees /\ stopping
            BY <2>1, <2>3 DEF StopIsSafe
        <3>2. StartLoops({})
            BY <1>2, <3>1 DEF WatchEnds, TypeOK
        <3>3. Loops' = Loops
            BY <3>2 DEF StartLoops, Loops, TypeOK
        <3>. QED
            BY <2>1, <2>3, <3>3 DEF StopIsSafe
    <2>. QED
        BY <2>1, <2>2, <2>3 DEF StopIsSafe, TypeOK
<1>. QED
    BY <1>1, <1>2

\* The steps of main() keep the stop safe.
LEMMA DaemonStopsSafely ==
    ASSUME TypeOK, StopIsSafe,
           \/ \E ended \in SUBSET Keys, gone \in SUBSET Repos : Tick(ended, gone)
           \/ BeginStop \/ DrainLoops \/ Exit \/ Restart \/ NetworkChanges
    PROVE  StopIsSafe'
<1>1. ASSUME NEW ended \in SUBSET Keys, NEW gone \in SUBSET Repos, Tick(ended, gone)
      PROVE  StopIsSafe'
    BY <1>1 DEF StopIsSafe, Tick, process
<1>2. CASE BeginStop
    BY <1>2 DEF StopIsSafe, BeginStop
<1>3. CASE DrainLoops
    BY <1>3 DEF StopIsSafe, DrainLoops, LockToDrain, Loops
<1>4. CASE Exit
    BY <1>4 DEF StopIsSafe, Exit, Loops
<1>5. CASE Restart
    BY <1>5 DEF StopIsSafe, Restart
<1>6. CASE NetworkChanges
    BY <1>6 DEF StopIsSafe, NetworkChanges, Loops, process
<1>. QED
    BY <1>1, <1>2, <1>3, <1>4, <1>5, <1>6

\* A check moves no loop.
LEMMA CheckStopsSafely ==
    ASSUME StopIsSafe, NEW r \in Repos, NEW k \in Keys, BeginCheck(r, k) \/ Check(r, k)
    PROVE  StopIsSafe'
<1>1. UNCHANGED <<pc, process>>
    BY DEF BeginCheck, Check, CheckGood, CheckNetworkError, CheckPermanentError, CheckOtherError, EndCheck
<1>. QED
    BY <1>1 DEF StopIsSafe, Loops, process

\* No loop runs when the process exits, although the flag of the stop is set
\* with no lock: no round is cut by a restart (W10.7).
THEOREM LoopsAreOverAtExit == Spec => []NoLoopAtExit
<1>1. Init => StopIsSafe
    BY DEF Init, StopIsSafe
<1>2. TypeOK /\ StopIsSafe /\ [Next]_vars => StopIsSafe'
    <2>. SUFFICES ASSUME TypeOK, StopIsSafe, [Next]_vars PROVE StopIsSafe'
        OBVIOUS
    <2>1. CASE UNCHANGED vars
        BY <2>1 DEF StopIsSafe, Loops, vars, process
    <2>2. CASE Next
        BY <2>2, RequestStopsSafely, LoopStopsSafely, CheckStopsSafely, DaemonStopsSafely, Zenon DEF Next
    <2>. QED
        BY <2>1, <2>2
<1>3. StopIsSafe => NoLoopAtExit
    BY DEF StopIsSafe, NoLoopAtExit
<1>. QED
    BY <1>1, <1>2, <1>3, TypeCorrect, PTL DEF Spec
=============================================================================
