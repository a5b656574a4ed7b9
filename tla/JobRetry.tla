------------------------------ MODULE JobRetry ------------------------------
(* Failures of the default branch: the hub check reads the newest finished   *)
(* pipeline (engine/hub.rs), the router gives each job that failed for a     *)
(* reason of the runner to a retry task and the others to the model          *)
(* (engine/router), and a retry task retries its job at most two times       *)
(* (engine/router/retry.rs).  A retry makes its pipeline run again, so that  *)
(* an older one may be the newest finished one.  Calls fail, and the daemon  *)
(* stops, restarts and is killed: the counts are in a file, the tasks in     *)
(* memory.                                                                   *)
EXTENDS Naturals, Sequences, FiniteSets

CONSTANTS
    Jobs,         \* the jobs of each pipeline
    MaxPipelines, \* bound: pipelines of the default branch
    MaxEnds       \* bound: stops and kills of the daemon

ASSUME JobRetryAssumption ==
    /\ IsFiniteSet(Jobs) /\ Jobs # {}
    /\ MaxPipelines \in Nat \ {0}
    /\ MaxEnds \in Nat

Pipelines == 1 .. MaxPipelines
Pairs == Pipelines \X Jobs

\* "runner" and "code" are failures, for a reason of the runner or another one.
\* A canceled or skipped job counts as a success does: no failure, the last row.
Results == {"success", "runner", "code"}
FailedFor == {"runner", "code"}

VARIABLES
    runs,    \* GitLab: the runs of each job of each pipeline
    phase,   \* "up", "stopping" (wait for the loops) or "joining" (wait for the retries)
    check,   \* the hub check, with what it read
    saved,   \* the default pipeline of the engine state, or Unsaved
    tasks,   \* the retry tasks
    online,  \* the network of the daemon
    counts,  \* the file with the retries of each job
    retried, \* history: the retries of each job that GitLab took
    noticed, \* history: failed jobs in a `default-failed` event
    told,    \* history: failed jobs with a last row, or in an event for the model
    lost,    \* history: failed jobs that a kill -9 took
    ends     \* bound counter

vars == <<runs, phase, check, saved, tasks, online, counts, retried, noticed, told, lost, ends>>

-----------------------------------------------------------------------------
(* GitLab (external) *)

LastRun(p, j) == runs[p][j][Len(runs[p][j])]
Started == {p \in Pipelines : \A j \in Jobs : runs[p][j] # <<>>}
Finished == {p \in Started : \A j \in Jobs : LastRun(p, j) # "running"}
FailedJobs(p) == {j \in Jobs : LastRun(p, j) \in FailedFor}

\* 0 is no pipeline.
NewestFinished(p) == p \in {0} \union Finished /\ \A q \in Finished : q <= p

NewRun(p, j) == runs' = [runs EXCEPT ![p][j] = Append(@, "running")]

NoOfDaemon == UNCHANGED <<phase, check, saved, tasks, online, counts, retried, noticed, told, lost, ends>>

StartPipeline == \E p \in Pipelines :
    /\ p \notin Started /\ \A q \in Pipelines : q < p => q \in Started
    /\ runs' = [runs EXCEPT ![p] = [j \in Jobs |-> <<"running">>]]
    /\ NoOfDaemon

JobEnds == \E p \in Started, j \in Jobs, result \in Results :
    /\ LastRun(p, j) = "running"
    /\ runs' = [runs EXCEPT ![p][j][Len(runs[p][j])] = result]
    /\ NoOfDaemon

-----------------------------------------------------------------------------
(* The hub check *)

Unsaved == [id |-> 0, status |-> "unsaved"]
NoCheck == [at |-> "idle", pipeline |-> 0, status |-> "none", failed |-> {}]

Init ==
    /\ runs = [p \in Pipelines |-> [j \in Jobs |-> <<>>]]
    /\ phase = "up" /\ check = NoCheck /\ saved = Unsaved
    /\ tasks = {} /\ online = TRUE /\ counts = [x \in Pairs |-> 0]
    /\ retried = [x \in Pairs |-> 0]
    /\ noticed = {} /\ told = {} /\ lost = {}
    /\ ends = 0

CheckStep(next) ==
    /\ check' = next
    /\ UNCHANGED <<runs, phase, online, counts, retried, lost, ends>>

\* scope=finished, the newest one.  A stop starts no new check.
ReadPipeline == \E p \in {0} \union Pipelines :
    /\ phase = "up" /\ check.at = "idle" /\ NewestFinished(p)
    /\ CheckStep([NoCheck EXCEPT
            !.at = "read", !.pipeline = p,
            !.status = IF p = 0 THEN "none" ELSE IF FailedJobs(p) # {} THEN "failed" ELSE "passed"])
    /\ UNCHANGED <<saved, tasks, noticed, told>>

\* Mutated: the newest finished pipeline is saved, also an older one.
AlwaysNewest(p, status) == [id |-> p, status |-> status]

\* A retry makes the newest pipeline run again: the one before it is no news.
DefaultPipeline(p, status) ==
    IF saved.id > p THEN saved ELSE [id |-> p, status |-> status]

\* Mutated: a failure after a failure is no news.
OnlyAfterPass == saved \notin {Unsaved, [saved EXCEPT !.status = "failed"]}
                    /\ check.pipeline > saved.id /\ check.status = "failed"

IsNews == saved # Unsaved /\ check.pipeline > saved.id /\ check.status = "failed"

\* add_jobs: a later call, before the save.
ReadJobs ==
    LET p == check.pipeline
    IN  /\ check.at = "read" /\ IsNews
        /\ CheckStep([check EXCEPT !.at = "jobs",
                                   !.failed = {[job |-> j, run |-> Len(runs[p][j]),
                                                runner |-> LastRun(p, j) = "runner"] :
                                               j \in FailedJobs(p)}])
        /\ UNCHANGED <<saved, tasks, noticed, told>>

CheckFails ==
    /\ check.at \in {"read", "jobs"}
    /\ CheckStep(NoCheck)
    /\ UNCHANGED <<saved, tasks, noticed, told>>

Save ==
    /\ check.at = IF IsNews THEN "jobs" ELSE "read"
    /\ saved' = DefaultPipeline(check.pipeline, check.status)
    /\ noticed' = noticed \union {<<check.pipeline, f.job>> : f \in check.failed}
    /\ CheckStep(IF IsNews THEN [check EXCEPT !.at = "saved"] ELSE NoCheck)
    /\ UNCHANGED <<tasks, told>>

NewTask(p, f) == [pipeline |-> p, job |-> f.job, run |-> f.run, at |-> "count", count |-> 0,
                  id |-> Len(runs[p][f.job])]

\* The router decides only with a hub agent: each job that failed for a reason
\* of the runner gets a task, which runs from now on.
Route(routes) ==
    /\ check.at = "saved"
    /\ tasks' = IF routes THEN tasks \union {NewTask(check.pipeline, f) :
                                              f \in {g \in check.failed : g.runner}}
                ELSE tasks
    /\ CheckStep([check EXCEPT !.at = IF routes THEN "routed" ELSE "asked"])
    /\ UNCHANGED <<saved, noticed, told>>

\* `narrow`: the model does not get the jobs with a retry.
Narrowed(failed) == {f \in failed : ~f.runner}

\* The other jobs go to the hub.  With no agent, all of them wait for the next
\* one: `assign` put them in the pending item of the branch before `narrow`.
Deliver ==
    LET left == IF check.at = "routed" THEN Narrowed(check.failed) ELSE check.failed
    IN  /\ check.at \in {"routed", "asked"}
        /\ told' = told \union {<<check.pipeline, f.job>> : f \in left}
        /\ CheckStep(NoCheck)
        /\ UNCHANGED <<saved, tasks, noticed>>

-----------------------------------------------------------------------------
(* A retry task *)

Pair(t) == <<t.pipeline, t.job>>

Becomes(t, new) == tasks' = (tasks \ {t}) \union {new}

\* The last row of the task, or the question to the model: `add_row`, `ask_model`.
Ends(t) ==
    /\ tasks' = tasks \ {t}
    /\ told' = told \union {Pair(t)}

TaskStep == UNCHANGED <<phase, check, saved, online, noticed, lost, ends>>

\* Mutated: one retry more.
LimitIsThree(count) == count > 2

Limit(count) == count >= 2

ReadCount(t) ==
    /\ t.at = "count"
    /\ IF Limit(counts[Pair(t)]) THEN Ends(t)
       ELSE Becomes(t, [t EXCEPT !.at = "post", !.count = counts[Pair(t)]]) /\ UNCHANGED told
    /\ UNCHANGED <<runs, counts, retried>> /\ TaskStep

Retry(t) ==
    /\ t.at = "post"
    /\ NewRun(t.pipeline, t.job)
    /\ retried' = [retried EXCEPT ![Pair(t)] = @ + 1]
    /\ Becomes(t, [t EXCEPT !.at = "posted", !.run = Len(runs[t.pipeline][t.job]) + 1])
    /\ UNCHANGED <<counts, told>> /\ TaskStep

\* The answer of the call is an error, also after GitLab took it.
RetryFails(t) ==
    /\ t.at = "post"
    /\ \/ UNCHANGED <<runs, retried>>
       \/ /\ NewRun(t.pipeline, t.job)
          /\ retried' = [retried EXCEPT ![Pair(t)] = @ + 1]
    /\ Ends(t)
    /\ UNCHANGED counts /\ TaskStep

SaveCount(t) ==
    /\ t.at = "posted"
    /\ counts' = [counts EXCEPT ![Pair(t)] = t.count + 1]
    /\ Becomes(t, [t EXCEPT !.at = "wait"])
    /\ UNCHANGED <<runs, retried, told>> /\ TaskStep

Waits(t) == UNCHANGED <<runs, counts, retried>> /\ TaskStep

\* The end of the job that the task waits for.
SeesEnd(t) ==
    LET status == runs[t.pipeline][t.job][t.run]
    IN  /\ t.at = "wait" /\ online /\ status # "running"
        /\ IF status = "runner" THEN Becomes(t, [t EXCEPT !.at = "count"]) /\ UNCHANGED told
           ELSE Ends(t)
        /\ Waits(t)

\* One hour of reads with the network up, or an error of a read.
GivesUp(t) == t.at = "wait" /\ online /\ Ends(t) /\ Waits(t)

\* A sleep or a read with the network down.
LosesNetwork(t) ==
    /\ t.at = "wait" /\ ~online
    /\ Becomes(t, [t EXCEPT !.at = "offline"])
    /\ UNCHANGED told /\ Waits(t)

NetworkBack(t) ==
    /\ t.at = "offline" /\ online
    /\ Becomes(t, [t EXCEPT !.at = "wait"])
    /\ UNCHANGED told /\ Waits(t)

\* wait_network: no checkout of the project is left.
RepoGone(t) == t.at = "offline" /\ Ends(t) /\ Waits(t)

\* Mutated: the wait for the network does not look for a stop.
StopEndsNap(t) == t.at = "wait" /\ phase # "up" /\ Ends(t) /\ Waits(t)

\* The stop ends the nap and the wait for the network.
Stopped(t) == t.at \in {"wait", "offline"} /\ phase # "up" /\ Ends(t) /\ Waits(t)

NetworkChanges ==
    /\ online' = ~online
    /\ UNCHANGED <<runs, phase, check, saved, tasks, counts, retried, noticed, told, lost, ends>>

-----------------------------------------------------------------------------
(* The end of the daemon *)

BeginStop ==
    /\ phase = "up" /\ ends < MaxEnds
    /\ phase' = "stopping" /\ ends' = ends + 1
    /\ UNCHANGED <<runs, check, saved, tasks, online, counts, retried, noticed, told, lost>>

\* Mutated: the retries are joined before the loops.
LoopsNotJoined == TRUE

LoopsJoined == check.at = "idle"

Join ==
    /\ phase = "stopping" /\ LoopsJoined
    /\ phase' = "joining"
    /\ UNCHANGED <<runs, check, saved, tasks, online, counts, retried, noticed, told, lost, ends>>

\* The exit ends what still runs; the next daemon starts.
Exit ==
    /\ phase = "joining" /\ tasks = {}
    /\ phase' = "up" /\ check' = NoCheck
    /\ UNCHANGED <<runs, saved, tasks, online, counts, retried, noticed, told, lost, ends>>

Unserved == {<<check.pipeline, f.job>> : f \in check.failed}

Kill ==
    /\ ends < MaxEnds
    /\ ends' = ends + 1
    /\ phase' = "up" /\ check' = NoCheck /\ tasks' = {}
    /\ lost' = lost \union {Pair(t) : t \in tasks}
                    \union (IF check.at \in {"saved", "routed", "asked"} THEN Unserved ELSE {})
    /\ UNCHANGED <<runs, saved, online, counts, retried, noticed, told>>

-----------------------------------------------------------------------------

CheckRuns == ReadPipeline \/ ReadJobs \/ Save \/ Deliver \/ \E routes \in BOOLEAN : Route(routes)

RetryCalls == \E t \in tasks : ReadCount(t) \/ Retry(t) \/ RetryFails(t) \/ SaveCount(t)
Reads == \E t \in tasks : SeesEnd(t) \/ GivesUp(t)
Resumes == \E t \in tasks : NetworkBack(t)
Stops == \E t \in tasks : Stopped(t)

Next ==
    \/ StartPipeline \/ JobEnds
    \/ CheckRuns \/ CheckFails \/ RetryCalls \/ Reads \/ Resumes \/ Stops
    \/ \E t \in tasks : LosesNetwork(t) \/ RepoGone(t)
    \/ NetworkChanges
    \/ BeginStop \/ Join \/ Exit \/ Kill

Spec == Init /\ [][Next]_vars

\* Rounds go on, not each check fails, and each task runs: with the network up, its
\* reads of the job end after an hour.
FairSpec ==
    /\ Spec
    /\ WF_vars(CheckRuns) /\ SF_vars(ReadJobs) /\ SF_vars(Save)
    /\ WF_vars(RetryCalls) /\ WF_vars(Reads) /\ WF_vars(Resumes) /\ WF_vars(Stops)
    /\ WF_vars(Join) /\ WF_vars(Exit)

-----------------------------------------------------------------------------
(* Properties *)

\* W8.32, W8.35: the daemon retries a job of a pipeline at most two times, over
\* restarts and kills at any point, although a retry makes the pipeline run
\* again and a killed task loses its count (`retry`, `set_retry_count`).
AtMostTwoRetries == \A x \in Pairs : retried[x] <= 2

\* W8.36, W8.38: each job of a failure that the check told has a task, its last
\* row, or went to the model; only a kill -9 takes one.
NoFailureForgotten ==
    noticed \subseteq UNION {told, lost, {Pair(t) : t \in tasks},
                             IF check.at \in {"saved", "routed", "asked"} THEN Unserved ELSE {}}

\* W8.34, W8.36: each retry ends if the network comes back for good, and a stop
\* of the daemon ends although a retry waits for its job or for the network.
RetriesEnd ==
    /\ <>[]online =>
           \A x \in Pairs : (\E t \in tasks : Pair(t) = x) ~> (\A t \in tasks : Pair(t) # x)
    /\ phase # "up" ~> phase = "up"

IsNewestFailed(p) == NewestFinished(p) /\ FailedJobs(p) # {}

\* W8.38: a pipeline that fails after the one that the hub knows becomes an
\* event, unless a kill -9 takes it or a newer one finishes.
NewFailureNoticed ==
    \A p \in Pipelines :
        (saved # Unsaved /\ saved.id < p /\ IsNewestFailed(p))
            ~> (~IsNewestFailed(p) \/ \E j \in Jobs : <<p, j>> \in noticed)

=============================================================================
