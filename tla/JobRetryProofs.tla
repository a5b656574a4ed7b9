--------------------------- MODULE JobRetryProofs ---------------------------
(* The safety properties of JobRetry, for any number of jobs, pipelines and  *)
(* ends of the daemon: a job is retried at most two times, and no failure    *)
(* that was told is forgotten.                                               *)
EXTENDS JobRetry, SequenceTheorems, TLAPS

Task == [pipeline : Pipelines, job : Jobs, run : Nat, count : Nat, id : Nat,
         at : {"count", "post", "posted", "wait", "offline"}]

Failed == [job : Jobs, run : Nat, runner : BOOLEAN]

Check == [at : {"idle", "read", "jobs", "saved", "routed", "asked"},
          pipeline : {0} \union Pipelines, status : {"none", "failed", "passed"},
          failed : SUBSET Failed]

TypeOK ==
    /\ runs \in [Pipelines -> [Jobs -> Seq(Results \union {"running"})]]
    /\ phase \in {"up", "stopping", "joining"}
    /\ check \in Check /\ (check.at = "saved" => check.pipeline \in Pipelines)
    /\ saved \in [id : {0} \union Pipelines, status : {"unsaved", "none", "failed", "passed"}]
    /\ tasks \subseteq Task
    /\ counts \in [Pairs -> Nat] /\ retried \in [Pairs -> Nat]

-----------------------------------------------------------------------------
(* At most two retries *)

\* No task of the pipeline was ever there.
Fresh(p) ==
    /\ \A j \in Jobs : counts[<<p, j>>] = 0 /\ retried[<<p, j>>] = 0
    /\ \A t \in tasks : t.pipeline # p

\* A pipeline after the saved one is fresh, and the one of a failure that was
\* saved is fresh until its tasks start, one for each job.
OnePipelineOnce ==
    /\ \A p \in Pipelines : p > saved.id => Fresh(p)
    /\ check.at = "saved" => check.pipeline = saved.id /\ Fresh(check.pipeline)
    /\ \A f, g \in check.failed : f.job = g.job => f = g

OneTask == \A t, u \in tasks : Pair(t) = Pair(u) => t = u

\* A task knows the retries of its job, with the one on its way.
Known(t) ==
    /\ t.at = "post" => retried[Pair(t)] = t.count /\ t.count < 2
    /\ t.at = "posted" => retried[Pair(t)] = t.count + 1
    /\ t.at \notin {"post", "posted"} => retried[Pair(t)] = counts[Pair(t)]

RetryInv ==
    /\ TypeOK /\ OnePipelineOnce /\ OneTask
    /\ \A t \in tasks : Known(t)
    /\ AtMostTwoRetries

-----------------------------------------------------------------------------
(* No failure is forgotten *)

\* What the model does not get has a task, or had one.
NarrowedHaveTasks ==
    check.at = "routed" => \A f \in check.failed : f.runner =>
        <<check.pipeline, f.job>> \in told \union lost \union {Pair(t) : t \in tasks}

Quiet ==
    /\ check.at \in {"idle", "read"} => check.failed = {}
    /\ phase = "joining" => check.at = "idle"

ForgetInv == TypeOK /\ Quiet /\ NarrowedHaveTasks /\ NoFailureForgotten

-----------------------------------------------------------------------------
(* Types *)

LEMMA PairType == \A t \in Task : Pair(t) \in Pairs
BY DEF Task, Pair, Pairs

\* A task in a new state is a task of the same job.
LEMMA NextTask ==
    ASSUME NEW t \in Task, NEW at \in {"count", "post", "posted", "wait", "offline"},
           NEW n \in Nat
    PROVE  /\ [t EXCEPT !.at = at] \in Task
           /\ [t EXCEPT !.at = at, !.count = n] \in Task
           /\ [t EXCEPT !.at = at, !.run = n] \in Task
BY DEF Task

LEMMA NewTaskType ==
    ASSUME TypeOK, NEW p \in Pipelines, NEW f \in Failed
    PROVE  /\ NewTask(p, f) \in Task
           /\ Pair(NewTask(p, f)) = <<p, f.job>>
           /\ NewTask(p, f).pipeline = p /\ NewTask(p, f).at = "count"
<1>1. f.job \in Jobs /\ f.run \in Nat
  BY DEF Failed
<1>2. Len(runs[p][f.job]) \in Nat
  BY <1>1 DEF TypeOK
<1>. QED
  BY <1>1, <1>2 DEF NewTask, Task, Pair

LEMMA RunsAppend ==
    ASSUME TypeOK, NEW p \in Pipelines, NEW j \in Jobs, NewRun(p, j)
    PROVE  runs' \in [Pipelines -> [Jobs -> Seq(Results \union {"running"})]]
<1>. DEFINE s == runs[p][j]
<1>1. Append(s, "running") \in Seq(Results \union {"running"})
  BY DEF TypeOK
<1>. QED
  BY <1>1 DEF TypeOK, NewRun

LEMMA RunsEnd ==
    ASSUME TypeOK, JobEnds
    PROVE  runs' \in [Pipelines -> [Jobs -> Seq(Results \union {"running"})]]
<1>1. PICK p \in Started, j \in Jobs, result \in Results :
          runs' = [runs EXCEPT ![p][j][Len(runs[p][j])] = result]
  BY DEF JobEnds
<1>. DEFINE s == runs[p][j]
<1>2. p \in Pipelines /\ s \in Seq(Results \union {"running"}) /\ s # <<>>
  BY DEF TypeOK, Started
<1>3. [s EXCEPT ![Len(s)] = result] \in Seq(Results \union {"running"})
  BY <1>2, ExceptSeq
<1>4. runs' = [runs EXCEPT ![p] = [runs[p] EXCEPT ![j] = [s EXCEPT ![Len(s)] = result]]]
  BY <1>1
<1>. QED
  BY <1>2, <1>3, <1>4 DEF TypeOK

\* What a task does: it goes on, or it ends.
LEMMA TaskTypes ==
    ASSUME TypeOK, NEW t \in tasks,
           \/ ReadCount(t) \/ Retry(t) \/ RetryFails(t) \/ SaveCount(t)
           \/ SeesEnd(t) \/ GivesUp(t) \/ NetworkBack(t) \/ Stopped(t)
           \/ LosesNetwork(t) \/ RepoGone(t)
    PROVE  /\ TypeOK'
           /\ UNCHANGED <<phase, check, saved, lost, noticed>>
           /\ \/ tasks' = tasks \ {t} /\ told' = told \union {Pair(t)}
              \/ /\ told' = told
                 /\ \E new \in Task : Pair(new) = Pair(t) /\ new.pipeline = t.pipeline
                                         /\ tasks' = (tasks \ {t}) \union {new}
<1>0. t \in Task /\ Pair(t) \in Pairs /\ t.pipeline \in Pipelines /\ t.job \in Jobs /\ t.count \in Nat
  BY PairType DEF TypeOK, Task
<1>1. Len(runs[t.pipeline][t.job]) + 1 \in Nat /\ counts[Pair(t)] \in Nat
  BY <1>0 DEF TypeOK
<1>2. UNCHANGED <<phase, check, saved, lost, noticed>>
  BY DEF ReadCount, Retry, RetryFails, SaveCount, SeesEnd, GivesUp, NetworkBack, Stopped,
         LosesNetwork, RepoGone, Waits, TaskStep
<1>3. runs' \in [Pipelines -> [Jobs -> Seq(Results \union {"running"})]]
  <2>1. runs' = runs \/ NewRun(t.pipeline, t.job)
    BY DEF ReadCount, Retry, RetryFails, SaveCount, SeesEnd, GivesUp, NetworkBack, Stopped,
           LosesNetwork, RepoGone, Waits, TaskStep
  <2>. QED
    BY <1>0, <2>1, RunsAppend DEF TypeOK
<1>4. counts' \in [Pairs -> Nat] /\ retried' \in [Pairs -> Nat]
  <2>1. counts' = counts \/ counts' = [counts EXCEPT ![Pair(t)] = t.count + 1]
    BY DEF ReadCount, Retry, RetryFails, SaveCount, SeesEnd, GivesUp, NetworkBack, Stopped,
           LosesNetwork, RepoGone, Waits, TaskStep
  <2>2. retried' = retried \/ retried' = [retried EXCEPT ![Pair(t)] = @ + 1]
    BY DEF ReadCount, Retry, RetryFails, SaveCount, SeesEnd, GivesUp, NetworkBack, Stopped,
           LosesNetwork, RepoGone, Waits, TaskStep
  <2>3. t.count + 1 \in Nat /\ retried[Pair(t)] + 1 \in Nat
    BY <1>0 DEF TypeOK
  <2>4. counts' \in [Pairs -> Nat]
    BY <1>0, <2>1, <2>3 DEF TypeOK
  <2>5. retried' \in [Pairs -> Nat]
    BY <1>0, <2>2, <2>3 DEF TypeOK
  <2>. QED
    BY <2>4, <2>5
<1>5. \/ Ends(t)
      \/ told' = told /\ \E at \in {"count", "post", "posted", "wait", "offline"}, n \in Nat :
            \/ Becomes(t, [t EXCEPT !.at = at])
            \/ Becomes(t, [t EXCEPT !.at = at, !.count = n])
            \/ Becomes(t, [t EXCEPT !.at = at, !.run = n])
  BY <1>1 DEF ReadCount, Retry, RetryFails, SaveCount, SeesEnd, GivesUp, NetworkBack, Stopped,
         LosesNetwork, RepoGone, Waits, TaskStep
<1>6. ASSUME NEW at \in {"count", "post", "posted", "wait", "offline"}, NEW n \in Nat,
             NEW new \in {[t EXCEPT !.at = at], [t EXCEPT !.at = at, !.count = n],
                          [t EXCEPT !.at = at, !.run = n]}
      PROVE  new \in Task /\ Pair(new) = Pair(t) /\ new.pipeline = t.pipeline
  <2>0. /\ [t EXCEPT !.at = at] \in Task
        /\ [t EXCEPT !.at = at, !.count = n] \in Task
        /\ [t EXCEPT !.at = at, !.run = n] \in Task
    BY <1>0, NextTask, Zenon
  <2>1. new \in Task
    BY <2>0, <1>6
  <2>2. new.pipeline = t.pipeline /\ new.job = t.job
    BY <1>0, <1>6 DEF Task
  <2>. QED
    BY <2>1, <2>2 DEF Pair
<1>7. \/ tasks' = tasks \ {t} /\ told' = told \union {Pair(t)}
      \/ /\ told' = told
         /\ \E new \in Task : Pair(new) = Pair(t) /\ new.pipeline = t.pipeline
                                 /\ tasks' = (tasks \ {t}) \union {new}
  BY <1>5, <1>6 DEF Ends, Becomes
<1>. QED
  BY <1>2, <1>3, <1>4, <1>7 DEF TypeOK

TaskDoes(t) ==
    \/ ReadCount(t) \/ Retry(t) \/ RetryFails(t) \/ SaveCount(t)
    \/ SeesEnd(t) \/ GivesUp(t) \/ NetworkBack(t) \/ Stopped(t)
    \/ LosesNetwork(t) \/ RepoGone(t)

\* The environment and the end of the daemon, without the kill and the exit.
Others == StartPipeline \/ JobEnds \/ NetworkChanges \/ BeginStop \/ Join \/ UNCHANGED vars

LEMMA NextCases ==
    ASSUME [Next]_vars
    PROVE  \/ Others \/ Exit \/ Kill
           \/ ReadPipeline \/ ReadJobs \/ CheckFails \/ Save \/ Deliver
           \/ \E routes \in BOOLEAN : Route(routes)
           \/ \E t \in tasks : TaskDoes(t)
BY DEF Next, Others, CheckRuns, RetryCalls, Reads, Resumes, Stops, TaskDoes

LEMMA NoCheckType == NoCheck \in Check /\ NoCheck.at = "idle" /\ NoCheck.failed = {}
BY DEF NoCheck, Check

LEMMA OthersTypes == ASSUME TypeOK, Others PROVE TypeOK'
<1>1. CASE StartPipeline
  <2>1. <<"running">> \in Seq(Results \union {"running"})
    OBVIOUS
  <2>2. PICK p \in Pipelines : runs' = [runs EXCEPT ![p] = [j \in Jobs |-> <<"running">>]]
    BY <1>1 DEF StartPipeline
  <2>3. runs' \in [Pipelines -> [Jobs -> Seq(Results \union {"running"})]]
    BY <2>1, <2>2 DEF TypeOK
  <2>. QED
    BY <1>1, <2>3 DEF StartPipeline, NoOfDaemon, TypeOK
<1>2. CASE JobEnds
  BY <1>2, RunsEnd DEF JobEnds, NoOfDaemon, TypeOK
<1>3. CASE NetworkChanges \/ BeginStop \/ Join \/ UNCHANGED vars
  BY <1>3 DEF NetworkChanges, BeginStop, Join, vars, TypeOK
<1>. QED
  BY <1>1, <1>2, <1>3 DEF Others

\* A check of news is of a pipeline.
LEMMA NewsOfPipeline ==
    ASSUME TypeOK, IsNews
    PROVE  check.pipeline \in Pipelines /\ check.pipeline > saved.id
BY JobRetryAssumption DEF TypeOK, IsNews, Check, Pipelines

\* What the reads and the end of a check do to it.
LEMMA CheckTypes ==
    ASSUME TypeOK,
           \/ ReadPipeline \/ ReadJobs \/ CheckFails \/ Save \/ Deliver
           \/ \E routes \in BOOLEAN : Route(routes)
    PROVE  /\ TypeOK'
           /\ UNCHANGED <<runs, phase, online, counts, retried, lost, ends>>
<1>1. UNCHANGED <<runs, phase, online, counts, retried, lost, ends>>
  BY DEF ReadPipeline, ReadJobs, CheckFails, Save, Deliver, Route, CheckStep
<1>2. CASE ReadPipeline
  <2>1. PICK p \in {0} \union Pipelines :
            /\ CheckStep([NoCheck EXCEPT
                    !.at = "read", !.pipeline = p,
                    !.status = IF p = 0 THEN "none" ELSE IF FailedJobs(p) # {} THEN "failed" ELSE "passed"])
            /\ UNCHANGED <<saved, tasks, noticed, told>>
    BY <1>2 DEF ReadPipeline
  <2>2. check' \in Check /\ check'.at = "read"
    BY <2>1 DEF CheckStep, NoCheck, Check
  <2>. QED
    BY <1>1, <2>1, <2>2 DEF TypeOK
<1>3. CASE ReadJobs
  <2>. DEFINE p == check.pipeline
              failed == {[job |-> j, run |-> Len(runs[p][j]), runner |-> LastRun(p, j) = "runner"] :
                            j \in FailedJobs(p)}
  <2>1. p \in Pipelines
    BY <1>3, NewsOfPipeline DEF ReadJobs
  <2>2. \A j \in Jobs : Len(runs[p][j]) \in Nat
    BY <2>1 DEF TypeOK
  <2>3. failed \in SUBSET Failed
    <3>1. \A j \in Jobs, n \in Nat, b \in BOOLEAN : [job |-> j, run |-> n, runner |-> b] \in Failed
      BY Zenon DEF Failed
    <3>2. \A j \in Jobs : (LastRun(p, j) = "runner") \in BOOLEAN
      OBVIOUS
    <3>. QED
      BY <2>2, <3>1, <3>2, Zenon DEF FailedJobs
  <2>4. check' = [check EXCEPT !.at = "jobs", !.failed = failed]
    BY <1>3 DEF ReadJobs, CheckStep
  <2>. HIDE DEF failed
  <2>5. check' \in Check
    BY <2>3, <2>4 DEF Check, TypeOK
  <2>6. check'.at = "jobs"
    BY <2>4 DEF Check, TypeOK
  <2>. QED
    BY <1>1, <1>3, <2>5, <2>6 DEF ReadJobs, TypeOK
<1>4. CASE CheckFails \/ Deliver
  BY <1>1, <1>4, NoCheckType DEF CheckFails, Deliver, CheckStep, TypeOK
<1>5. CASE Save
  <2>1. check' \in Check /\ (check'.at = "saved" => check'.pipeline \in Pipelines)
    BY <1>5, NoCheckType, NewsOfPipeline DEF Save, CheckStep, TypeOK, Check
  <2>2. saved' \in [id : {0} \union Pipelines, status : {"unsaved", "none", "failed", "passed"}]
    BY <1>5 DEF Save, DefaultPipeline, TypeOK, Check
  <2>. QED
    BY <1>1, <1>5, <2>1, <2>2 DEF Save, TypeOK
<1>6. ASSUME NEW routes \in BOOLEAN, Route(routes) PROVE TypeOK'
  <2>0. check.pipeline \in Pipelines
    BY <1>6 DEF Route, TypeOK
  <2>1. check' \in Check /\ check'.at # "saved"
    BY <1>6 DEF Route, CheckStep, TypeOK, Check
  <2>2. \A f \in check.failed : NewTask(check.pipeline, f) \in Task
    BY <2>0, NewTaskType DEF TypeOK, Check
  <2>3. tasks' \subseteq Task
    BY <1>6, <2>2 DEF Route, TypeOK
  <2>. QED
    BY <1>1, <1>6, <2>1, <2>3 DEF Route, TypeOK
<1>. QED
  BY <1>1, <1>2, <1>3, <1>4, <1>5, <1>6

LEMMA TypeStep == ASSUME TypeOK, [Next]_vars PROVE TypeOK'
<1>1. CASE Exit \/ Kill
  BY <1>1, NoCheckType DEF Exit, Kill, TypeOK
<1>2. ASSUME NEW t \in tasks, TaskDoes(t) PROVE TypeOK'
  BY <1>2, TaskTypes DEF TaskDoes
<1>. QED
  BY <1>1, <1>2, NextCases, OthersTypes, CheckTypes

-----------------------------------------------------------------------------
(* At most two retries *)

LEMMA InitRetry == Init => RetryInv
<1>. SUFFICES ASSUME Init PROVE RetryInv
    OBVIOUS
<1>1. <<>> \in Seq(Results \union {"running"})
  OBVIOUS
<1>2. TypeOK
  BY <1>1, NoCheckType DEF Init, TypeOK, Unsaved
<1>3. OnePipelineOnce
  BY NoCheckType DEF Init, OnePipelineOnce, Fresh, Pairs, NoCheck
<1>. QED
  BY <1>2, <1>3 DEF Init, RetryInv, OneTask, AtMostTwoRetries

\* A step of a task changes nothing of another job.
LEMMA TaskKeepsOthers ==
    ASSUME RetryInv, NEW t \in tasks, TaskDoes(t)
    PROVE  /\ OnePipelineOnce' /\ OneTask'
           /\ \A u \in tasks \ {t} : Known(u)'
<1>1. /\ TypeOK /\ TypeOK'
      /\ UNCHANGED <<check, saved>>
      /\ \/ tasks' = tasks \ {t}
         \/ \E new \in Task : Pair(new) = Pair(t) /\ new.pipeline = t.pipeline
                                 /\ tasks' = (tasks \ {t}) \union {new}
  BY TaskTypes DEF TaskDoes, RetryInv
<1>2. \A x \in Pairs : x # Pair(t) => counts'[x] = counts[x] /\ retried'[x] = retried[x]
  <2>1. counts' = counts \/ counts' = [counts EXCEPT ![Pair(t)] = t.count + 1]
    BY DEF TaskDoes, ReadCount, Retry, RetryFails, SaveCount, SeesEnd, GivesUp, NetworkBack,
           Stopped, LosesNetwork, RepoGone, Waits
  <2>2. retried' = retried \/ retried' = [retried EXCEPT ![Pair(t)] = @ + 1]
    BY DEF TaskDoes, ReadCount, Retry, RetryFails, SaveCount, SeesEnd, GivesUp, NetworkBack,
           Stopped, LosesNetwork, RepoGone, Waits
  <2>. QED
    BY <1>1, <2>1, <2>2 DEF TypeOK
<1>3. t \in Task /\ Pair(t) = <<t.pipeline, t.job>>
  BY <1>1 DEF TypeOK, Pair
<1>4. OneTask'
  BY <1>1 DEF RetryInv, OneTask
<1>5. OnePipelineOnce'
  <2>1. ASSUME NEW p \in Pipelines, Fresh(p) PROVE Fresh(p)'
    <3>1. t.pipeline # p
      BY <2>1 DEF Fresh
    <3>2. \A j \in Jobs : <<p, j>> \in Pairs /\ <<p, j>> # Pair(t)
      BY <1>3, <3>1 DEF Pairs
    <3>3. \A u \in tasks' : u.pipeline # p
      BY <1>1, <2>1, <3>1 DEF Fresh
    <3>. QED
      BY <1>2, <2>1, <3>2, <3>3 DEF Fresh
  <2>. QED
    BY <1>1, <2>1 DEF RetryInv, OnePipelineOnce, TypeOK
<1>6. ASSUME NEW u \in tasks, u # t PROVE Known(u)'
  <2>1. Pair(u) \in Pairs /\ Pair(u) # Pair(t)
    BY <1>1, <1>6, PairType DEF RetryInv, OneTask, TypeOK
  <2>2. counts'[Pair(u)] = counts[Pair(u)] /\ retried'[Pair(u)] = retried[Pair(u)]
    BY <1>2, <2>1
  <2>. QED
    BY <1>6, <2>2 DEF RetryInv, Known, Pair
<1>. QED
  BY <1>4, <1>5, <1>6

\* The task itself knows its retries, and retries only below the limit.
LEMMA TaskKeepsLimit ==
    ASSUME RetryInv, NEW t \in tasks, TaskDoes(t)
    PROVE  /\ \A u \in tasks' : u \in tasks \ {t} \/ Known(u)'
           /\ AtMostTwoRetries'
<1>1. /\ t \in Task /\ Pair(t) \in Pairs /\ Known(t)
      /\ counts \in [Pairs -> Nat] /\ retried \in [Pairs -> Nat]
      /\ AtMostTwoRetries
  BY PairType DEF RetryInv, TypeOK
<1>2. /\ t.count \in Nat /\ t.at \in {"count", "post", "posted", "wait", "offline"}
      /\ counts[Pair(t)] \in Nat /\ retried[Pair(t)] \in Nat
      /\ retried[Pair(t)] <= 2
  BY <1>1 DEF Task, AtMostTwoRetries
<1>3. ASSUME NEW new, new.pipeline = t.pipeline, new.job = t.job
      PROVE  Pair(new) = Pair(t)
  BY <1>3 DEF Pair
<1>4. CASE \/ Ends(t) /\ UNCHANGED <<counts, retried>>
           \/ RetryFails(t)
  <2>1. tasks' = tasks \ {t}
    BY <1>4 DEF RetryFails, Ends
  <2>2. \/ retried' = retried
        \/ retried[Pair(t)] < 2 /\ retried' = [retried EXCEPT ![Pair(t)] = @ + 1]
    BY <1>1, <1>2, <1>4 DEF RetryFails, Known
  <2>. QED
    BY <1>1, <1>2, <2>1, <2>2 DEF AtMostTwoRetries
<1>5. CASE Retry(t)
  <2>0. PICK new : new = [t EXCEPT !.at = "posted", !.run = Len(runs[t.pipeline][t.job]) + 1]
    OBVIOUS
  <2>1. new.pipeline = t.pipeline /\ new.job = t.job /\ new.at = "posted" /\ new.count = t.count
    BY <1>1, <2>0 DEF Task
  <2>2. tasks' = (tasks \ {t}) \union {new} /\ retried' = [retried EXCEPT ![Pair(t)] = @ + 1]
        /\ counts' = counts
    BY <1>5, <2>0 DEF Retry, Becomes
  <2>3. retried[Pair(t)] = t.count /\ t.count < 2
    BY <1>1, <1>5 DEF Retry, Known
  <2>4. Known(new)'
    BY <1>1, <1>2, <1>3, <2>1, <2>2, <2>3 DEF Known
  <2>5. AtMostTwoRetries'
    BY <1>1, <1>2, <2>2, <2>3 DEF AtMostTwoRetries
  <2>. QED
    BY <2>2, <2>4, <2>5
<1>6. CASE SaveCount(t)
  <2>. DEFINE new == [t EXCEPT !.at = "wait"]
  <2>1. new.pipeline = t.pipeline /\ new.job = t.job /\ new.at = "wait"
    BY <1>1 DEF Task
  <2>2. tasks' = (tasks \ {t}) \union {new} /\ retried' = retried
        /\ counts' = [counts EXCEPT ![Pair(t)] = t.count + 1]
    BY <1>6 DEF SaveCount, Becomes
  <2>. HIDE DEF new
  <2>3. retried[Pair(t)] = t.count + 1
    BY <1>1, <1>6 DEF SaveCount, Known
  <2>4. Known(new)'
    BY <1>1, <1>2, <1>3, <2>1, <2>2, <2>3 DEF Known
  <2>. QED
    BY <1>1, <2>2, <2>4 DEF AtMostTwoRetries
<1>7. CASE /\ t.at = "count" /\ ~Limit(counts[Pair(t)]) /\ UNCHANGED <<counts, retried>>
           /\ Becomes(t, [t EXCEPT !.at = "post", !.count = counts[Pair(t)]])
  <2>0. PICK new : new = [t EXCEPT !.at = "post", !.count = counts[Pair(t)]]
    OBVIOUS
  <2>1. new.pipeline = t.pipeline /\ new.job = t.job /\ new.at = "post"
        /\ new.count = counts[Pair(t)]
    BY <1>1, <2>0 DEF Task
  <2>2. tasks' = (tasks \ {t}) \union {new} /\ retried' = retried /\ counts' = counts
    BY <1>7, <2>0 DEF Becomes
  <2>3. retried[Pair(t)] = counts[Pair(t)] /\ counts[Pair(t)] < 2
    BY <1>1, <1>2, <1>7 DEF Limit, Known
  <2>4. Known(new)'
    BY <1>1, <1>2, <1>3, <2>1, <2>2, <2>3 DEF Known
  <2>. QED
    BY <1>1, <2>2, <2>4 DEF AtMostTwoRetries
<1>8. CASE /\ t.at \in {"wait", "offline"} /\ UNCHANGED <<counts, retried>>
           /\ \E at \in {"count", "wait", "offline"} : Becomes(t, [t EXCEPT !.at = at])
  <2>1. PICK at \in {"count", "wait", "offline"} : Becomes(t, [t EXCEPT !.at = at])
    BY <1>8
  <2>. DEFINE new == [t EXCEPT !.at = at]
  <2>2. new.pipeline = t.pipeline /\ new.job = t.job /\ new.at = at
    BY <1>1 DEF Task
  <2>3. tasks' = (tasks \ {t}) \union {new} /\ retried' = retried /\ counts' = counts
    BY <1>8, <2>1 DEF Becomes
  <2>. HIDE DEF new
  <2>4. retried[Pair(t)] = counts[Pair(t)]
    BY <1>1, <1>8 DEF Known
  <2>5. Known(new)'
    BY <1>1, <1>2, <1>3, <2>2, <2>3, <2>4 DEF Known
  <2>. QED
    BY <1>1, <2>3, <2>5 DEF AtMostTwoRetries
<1>9. QED
  BY <1>4, <1>5, <1>6, <1>7, <1>8
     DEF TaskDoes, ReadCount, SeesEnd, GivesUp, NetworkBack, Stopped, LosesNetwork, RepoGone, Waits

LEMMA TaskRetry == ASSUME RetryInv, NEW t \in tasks, TaskDoes(t) PROVE RetryInv'
<1>1. TypeOK'
  BY TaskTypes DEF TaskDoes, RetryInv
<1>. QED
  BY <1>1, TaskKeepsOthers, TaskKeepsLimit DEF RetryInv

\* Tasks start once for each pipeline, and one for each job.
LEMMA CheckRetry ==
    ASSUME RetryInv,
           \/ ReadPipeline \/ ReadJobs \/ CheckFails \/ Save \/ Deliver
           \/ \E routes \in BOOLEAN : Route(routes)
    PROVE  RetryInv'
<1>1. TypeOK /\ TypeOK' /\ UNCHANGED <<counts, retried>>
  BY CheckTypes DEF RetryInv
<1>2. ASSUME tasks' = tasks PROVE OneTask' /\ (\A t \in tasks' : Known(t)')
                                  /\ \A p \in Pipelines : Fresh(p) => Fresh(p)'
  BY <1>1, <1>2 DEF RetryInv, OneTask, Known, Fresh, Pair
<1>3. AtMostTwoRetries'
  BY <1>1 DEF RetryInv, AtMostTwoRetries
<1>4. CASE ReadPipeline \/ CheckFails \/ Deliver
  <2>1. saved' = saved /\ tasks' = tasks /\ check'.at # "saved" /\ check'.failed = {}
    BY <1>4, NoCheckType DEF ReadPipeline, CheckFails, Deliver, CheckStep, NoCheck
  <2>. QED
    BY <1>1, <1>2, <1>3, <2>1 DEF RetryInv, OnePipelineOnce
<1>5. CASE ReadJobs
  <2>1. saved' = saved /\ tasks' = tasks /\ check'.at = "jobs"
    BY <1>1, <1>5 DEF ReadJobs, CheckStep, TypeOK, Check
  <2>2. check'.failed = {[job |-> j, run |-> Len(runs[check.pipeline][j]),
                          runner |-> LastRun(check.pipeline, j) = "runner"] :
                             j \in FailedJobs(check.pipeline)}
    BY <1>1, <1>5 DEF ReadJobs, CheckStep, TypeOK, Check
  <2>3. \A f, g \in check'.failed : f.job = g.job => f = g
    BY <2>2
  <2>. QED
    BY <1>1, <1>2, <1>3, <2>1, <2>3 DEF RetryInv, OnePipelineOnce
<1>6. CASE Save
  <2>1. tasks' = tasks
    BY <1>6 DEF Save
  <2>2. \A p \in Pipelines : p > saved'.id => p > saved.id
    BY <1>1, <1>6, JobRetryAssumption DEF Save, DefaultPipeline, TypeOK, Check, Pipelines
  <2>3. CASE IsNews
    <3>1. check'.pipeline = check.pipeline /\ check'.failed = check.failed
      BY <1>1, <1>6, <2>3 DEF Save, CheckStep, TypeOK, Check
    <3>2. check.pipeline \in Pipelines /\ check.pipeline > saved.id
      BY <1>1, <2>3, NewsOfPipeline
    <3>3. saved'.id = check.pipeline
      BY <1>1, <1>6, <3>2 DEF Save, DefaultPipeline, TypeOK, Check, Pipelines
    <3>. QED
      BY <1>1, <1>2, <1>3, <2>1, <2>2, <3>1, <3>2, <3>3 DEF RetryInv, OnePipelineOnce
  <2>4. CASE ~IsNews
    <3>1. check'.at # "saved" /\ check'.failed = {}
      BY <1>6, <2>4, NoCheckType DEF Save, CheckStep
    <3>. QED
      BY <1>1, <1>2, <1>3, <2>1, <2>2, <3>1 DEF RetryInv, OnePipelineOnce
  <2>. QED
    BY <2>3, <2>4
<1>7. ASSUME Route(TRUE) PROVE RetryInv'
  <2>. DEFINE p == check.pipeline
              new == {NewTask(p, f) : f \in {g \in check.failed : g.runner}}
  <2>1. /\ tasks' = tasks \union new /\ saved' = saved
        /\ check'.at = "routed" /\ check'.failed = check.failed
    BY <1>1, <1>7 DEF Route, CheckStep, TypeOK, Check
  <2>2. p \in Pipelines /\ Fresh(p) /\ p = saved.id
    <3>1. check.at = "saved"
      BY <1>7 DEF Route
    <3>. QED
      BY <1>1, <3>1 DEF RetryInv, OnePipelineOnce, TypeOK
  <2>3. ASSUME NEW f \in check.failed
        PROVE  /\ NewTask(p, f).pipeline = p /\ NewTask(p, f).at = "count"
               /\ Pair(NewTask(p, f)) = <<p, f.job>> /\ f.job \in Jobs
    BY <1>1, <2>2, <2>3, NewTaskType DEF TypeOK, Check, Failed
  <2>4. \A t \in tasks : Known(t)' /\ Pair(t) \notin {Pair(u) : u \in new}
    <3>1. ASSUME NEW t \in tasks PROVE Known(t)'
      BY <1>1, <3>1 DEF RetryInv, Known, Pair
    <3>2. ASSUME NEW t \in tasks, NEW f \in check.failed, Pair(t) = Pair(NewTask(p, f)) PROVE FALSE
      BY <2>2, <2>3, <3>2 DEF Fresh, Pair
    <3>. QED
      BY <3>1, <3>2
  <2>5. \A t, u \in new : Pair(t) = Pair(u) => t = u
    <3>. SUFFICES ASSUME NEW f \in check.failed, NEW g \in check.failed,
                         Pair(NewTask(p, f)) = Pair(NewTask(p, g))
                  PROVE  f = g
        OBVIOUS
    <3>. QED
      BY <2>3 DEF RetryInv, OnePipelineOnce
  <2>6. \A t \in new : Known(t)'
    <3>. SUFFICES ASSUME NEW t \in new PROVE Known(t)'
        OBVIOUS
    <3>1. PICK f \in check.failed : t = NewTask(p, f)
      OBVIOUS
    <3>2. t.at = "count" /\ Pair(t) = <<p, f.job>> /\ f.job \in Jobs
      BY <2>3, <3>1
    <3>3. retried[Pair(t)] = counts[Pair(t)]
      BY <2>2, <3>2 DEF Fresh
    <3>. QED
      BY <1>1, <3>2, <3>3 DEF Known, Pair
  <2>7. \A q \in Pipelines : q > saved'.id => Fresh(q)'
    <3>. SUFFICES ASSUME NEW q \in Pipelines, q > saved.id PROVE Fresh(q)'
        BY <2>1
    <3>1. Fresh(q) /\ q # p
      BY <1>1, <2>2 DEF RetryInv, OnePipelineOnce, TypeOK, Pipelines
    <3>2. \A t \in new : t.pipeline # q
      BY <2>3, <3>1
    <3>. QED
      BY <1>1, <2>1, <3>1, <3>2 DEF Fresh
  <2>8. OneTask'
    BY <2>1, <2>4, <2>5 DEF RetryInv, OneTask, Pair
  <2>. QED
    BY <1>1, <1>3, <2>1, <2>4, <2>6, <2>7, <2>8 DEF RetryInv, OnePipelineOnce
<1>8. CASE Route(FALSE)
  <2>1. tasks' = tasks /\ saved' = saved /\ check'.at = "asked" /\ check'.failed = check.failed
    BY <1>1, <1>8 DEF Route, CheckStep, TypeOK, Check
  <2>. QED
    BY <1>1, <1>2, <1>3, <2>1 DEF RetryInv, OnePipelineOnce
<1>. QED
  BY <1>4, <1>5, <1>6, <1>7, <1>8

LEMMA NextRetry == RetryInv /\ [Next]_vars => RetryInv'
<1>. SUFFICES ASSUME RetryInv, [Next]_vars PROVE RetryInv'
    OBVIOUS
<1>1. TypeOK'
  BY TypeStep DEF RetryInv
<1>2. CASE Others
  <2>1. UNCHANGED <<check, saved, tasks, counts, retried>>
    BY <1>2 DEF Others, StartPipeline, JobEnds, NoOfDaemon, NetworkChanges, BeginStop, Join, vars
  <2>. QED
    BY <1>1, <2>1 DEF RetryInv, OnePipelineOnce, OneTask, Fresh, Known, Pair, AtMostTwoRetries
<1>3. CASE Exit \/ Kill
  <2>1. /\ UNCHANGED <<saved, counts, retried>>
        /\ tasks' \subseteq tasks
        /\ check'.at = "idle" /\ check'.failed = {}
    BY <1>3, NoCheckType DEF Exit, Kill
  <2>. QED
    BY <1>1, <2>1 DEF RetryInv, OnePipelineOnce, OneTask, Fresh, Known, Pair, AtMostTwoRetries
<1>. QED
  BY <1>2, <1>3, NextCases, CheckRetry, TaskRetry

\* W8.32, W8.35: for any number of jobs, pipelines, stops and kills, no job is
\* retried more than two times (`retry`, `set_retry_count`).
THEOREM RetriesAreFew == Spec => []AtMostTwoRetries
<1>1. RetryInv => AtMostTwoRetries
  BY DEF RetryInv
<1>. QED
  BY <1>1, InitRetry, NextRetry, PTL DEF Spec

-----------------------------------------------------------------------------
(* No failure is forgotten *)

LEMMA InitForget == Init => ForgetInv
<1>. SUFFICES ASSUME Init PROVE ForgetInv
    OBVIOUS
<1>1. TypeOK
  BY InitRetry DEF RetryInv
<1>. QED
  BY <1>1, NoCheckType DEF Init, ForgetInv, Quiet, NarrowedHaveTasks, NoFailureForgotten, NoCheck

\* The jobs of the tasks, and those of a check with events.
InTasks == {Pair(t) : t \in tasks}
InCheck == IF check.at \in {"saved", "routed", "asked"} THEN Unserved ELSE {}

LEMMA TaskForgets == ASSUME ForgetInv, NEW t \in tasks, TaskDoes(t) PROVE ForgetInv'
<1>1. /\ TypeOK'
      /\ UNCHANGED <<phase, check, lost, noticed>>
      /\ \/ tasks' = tasks \ {t} /\ told' = told \union {Pair(t)}
         \/ /\ told' = told
            /\ \E new \in Task : Pair(new) = Pair(t) /\ tasks' = (tasks \ {t}) \union {new}
  BY TaskTypes DEF TaskDoes, ForgetInv
<1>2. told \union InTasks \subseteq told' \union InTasks'
  BY <1>1 DEF InTasks, Pair
<1>. QED
  BY <1>1, <1>2 DEF ForgetInv, Quiet, NarrowedHaveTasks, NoFailureForgotten, InTasks, Unserved

LEMMA CheckForgets ==
    ASSUME ForgetInv,
           \/ ReadPipeline \/ ReadJobs \/ CheckFails \/ Save \/ Deliver
           \/ \E routes \in BOOLEAN : Route(routes)
    PROVE  ForgetInv'
<1>1. TypeOK /\ TypeOK' /\ lost' = lost /\ phase' = phase
  BY CheckTypes DEF ForgetInv
<1>2. noticed \subseteq told \union lost \union InTasks \union InCheck
  BY DEF ForgetInv, NoFailureForgotten, InTasks, InCheck
<1>3. phase = "joining" => check.at = "idle"
  BY DEF ForgetInv, Quiet
<1>4. SUFFICES /\ Quiet' /\ NarrowedHaveTasks'
               /\ noticed' \subseteq told' \union lost' \union InTasks' \union InCheck'
  BY <1>1 DEF ForgetInv, NoFailureForgotten, InTasks, InCheck
<1>5. CASE ReadPipeline
  <2>1. /\ tasks' = tasks /\ told' = told /\ noticed' = noticed
        /\ check.at = "idle" /\ phase = "up" /\ check'.at = "read" /\ check'.failed = {}
    BY <1>5 DEF ReadPipeline, CheckStep, NoCheck
  <2>. QED
    BY <1>1, <1>2, <2>1 DEF Quiet, NarrowedHaveTasks, InTasks, InCheck, Pair
<1>6. CASE ReadJobs
  <2>1. /\ tasks' = tasks /\ told' = told /\ noticed' = noticed
        /\ check.at = "read" /\ check'.at = "jobs"
    BY <1>1, <1>6 DEF ReadJobs, CheckStep, TypeOK, Check
  <2>. QED
    BY <1>1, <1>2, <1>3, <2>1 DEF Quiet, NarrowedHaveTasks, InTasks, InCheck, Pair
<1>7. CASE CheckFails
  <2>1. /\ tasks' = tasks /\ told' = told /\ noticed' = noticed
        /\ check.at \in {"read", "jobs"} /\ check'.at = "idle" /\ check'.failed = {}
    BY <1>7, NoCheckType DEF CheckFails, CheckStep
  <2>. QED
    BY <1>1, <1>2, <2>1 DEF Quiet, NarrowedHaveTasks, InTasks, InCheck, Pair
<1>8. CASE Save
  <2>1. /\ tasks' = tasks /\ told' = told /\ check.at \in {"read", "jobs"}
        /\ noticed' = noticed \union Unserved
    BY <1>8 DEF Save, Unserved
  <2>2. CASE IsNews
    <3>1. check'.at = "saved" /\ check'.pipeline = check.pipeline /\ check'.failed = check.failed
      BY <1>1, <1>8, <2>2 DEF Save, CheckStep, TypeOK, Check
    <3>. QED
      BY <1>1, <1>2, <1>3, <2>1, <3>1 DEF Quiet, NarrowedHaveTasks, InTasks, InCheck, Unserved, Pair
  <2>3. CASE ~IsNews
    <3>1. check'.at = "idle" /\ check'.failed = {} /\ check.at = "read"
      BY <1>8, <2>3, NoCheckType DEF Save, CheckStep
    <3>2. Unserved = {}
      BY <3>1 DEF ForgetInv, Quiet, Unserved
    <3>. QED
      BY <1>1, <1>2, <2>1, <3>1, <3>2 DEF Quiet, NarrowedHaveTasks, InTasks, InCheck, Pair
  <2>. QED
    BY <2>2, <2>3
<1>9. ASSUME NEW routes \in BOOLEAN, Route(routes)
      PROVE  /\ Quiet' /\ NarrowedHaveTasks'
             /\ noticed' \subseteq told' \union lost' \union InTasks' \union InCheck'
  <2>1. /\ told' = told /\ noticed' = noticed /\ check.at = "saved"
        /\ check'.pipeline = check.pipeline /\ check'.failed = check.failed
        /\ check'.at = IF routes THEN "routed" ELSE "asked"
        /\ tasks \subseteq tasks'
    BY <1>1, <1>9 DEF Route, CheckStep, TypeOK, Check
  <2>2. Quiet' /\ noticed' \subseteq told' \union lost' \union InTasks' \union InCheck'
    BY <1>1, <1>2, <1>3, <2>1 DEF Quiet, InTasks, InCheck, Unserved, Pair
  <2>3. ASSUME check'.at = "routed", NEW f \in check.failed, f.runner
        PROVE  <<check.pipeline, f.job>> \in InTasks'
    <3>1. NewTask(check.pipeline, f) \in tasks'
      BY <1>9, <2>1, <2>3 DEF Route
    <3>2. Pair(NewTask(check.pipeline, f)) = <<check.pipeline, f.job>>
      BY DEF NewTask, Pair
    <3>. QED
      BY <3>1, <3>2 DEF InTasks, Pair
  <2>. QED
    BY <2>1, <2>2, <2>3 DEF NarrowedHaveTasks, InTasks
<1>10. CASE Deliver
  <2>. DEFINE left == IF check.at = "routed" THEN Narrowed(check.failed) ELSE check.failed
  <2>1. /\ tasks' = tasks /\ noticed' = noticed /\ check.at \in {"routed", "asked"}
        /\ told' = told \union {<<check.pipeline, f.job>> : f \in left}
        /\ check'.at = "idle" /\ check'.failed = {}
    BY <1>10, NoCheckType DEF Deliver, CheckStep
  <2>2. ASSUME NEW f \in check.failed
        PROVE  <<check.pipeline, f.job>> \in told' \union lost \union InTasks
    BY <2>1, <2>2 DEF ForgetInv, NarrowedHaveTasks, InTasks, Narrowed
  <2>3. InCheck \subseteq told' \union lost \union InTasks
    BY <2>2 DEF InCheck, Unserved
  <2>. QED
    BY <1>1, <1>2, <2>1, <2>3 DEF Quiet, NarrowedHaveTasks, InTasks, InCheck, Pair
<1>. QED
  BY <1>5, <1>6, <1>7, <1>8, <1>9, <1>10

LEMMA NextForget == ForgetInv /\ [Next]_vars => ForgetInv'
<1>. SUFFICES ASSUME ForgetInv, [Next]_vars PROVE ForgetInv'
    OBVIOUS
<1>1. TypeOK'
  BY TypeStep DEF ForgetInv
<1>2. CASE Others
  <2>1. /\ UNCHANGED <<check, tasks, told, noticed, lost>>
        /\ phase' = phase \/ phase' = "stopping" \/ check.at = "idle"
    BY <1>2 DEF Others, StartPipeline, JobEnds, NoOfDaemon, NetworkChanges, BeginStop, Join, vars,
            LoopsJoined
  <2>. QED
    BY <1>1, <2>1 DEF ForgetInv, Quiet, NarrowedHaveTasks, NoFailureForgotten, Unserved, Pair
<1>3. CASE Exit
  <2>1. /\ UNCHANGED <<tasks, told, noticed, lost>> /\ phase = "joining" /\ phase' = "up"
        /\ check'.at = "idle" /\ check'.failed = {}
    BY <1>3, NoCheckType DEF Exit
  <2>2. check.at = "idle"
    BY <2>1 DEF ForgetInv, Quiet
  <2>. QED
    BY <1>1, <2>1, <2>2 DEF ForgetInv, Quiet, NarrowedHaveTasks, NoFailureForgotten, Pair
<1>4. CASE Kill
  <2>1. /\ UNCHANGED <<told, noticed>> /\ tasks' = {} /\ phase' = "up"
        /\ check'.at = "idle" /\ check'.failed = {}
        /\ lost' = lost \union InTasks \union InCheck
    BY <1>4, NoCheckType DEF Kill, InTasks, InCheck
  <2>2. noticed \subseteq told \union lost \union InTasks \union InCheck
    BY DEF ForgetInv, NoFailureForgotten, InTasks, InCheck
  <2>. QED
    BY <1>1, <2>1, <2>2 DEF ForgetInv, Quiet, NarrowedHaveTasks, NoFailureForgotten
<1>. QED
  BY <1>2, <1>3, <1>4, NextCases, CheckForgets, TaskForgets

\* W8.36, W8.38: whatever the router decides and however the daemon stops, a job
\* of a failure that was told has a task, its last row, or went to the model,
\* unless a kill -9 took it.
THEOREM FailuresAreKept == Spec => []NoFailureForgotten
<1>1. ForgetInv => NoFailureForgotten
  BY DEF ForgetInv
<1>. QED
  BY <1>1, InitForget, NextForget, PTL DEF Spec
=============================================================================
