# The watch daemon in TLA+

The repository holds dotfiles. Its program with state, processes and failures is `watchd`, the
watch daemon of the agents (`dot_config/agents/daemon`, 13.6k lines of Rust): it polls GitLab for
the merge requests (MRs) of the worktrees, finds events, and delivers each event to the agent
session that watches the worktree. Paths below are relative to that folder.

## Inventory

| Part | State | Operations | Hard behaviour |
| --- | --- | --- | --- |
| Delivery (`src/server.rs`, `src/daemon/store.rs`) | agent records (`subs/`), session records (`sessions/`), inboxes, error files; in memory the waiter of each session and the `delivering` lock | `watch`, `unsubscribe`, `wait` (with rename), delivery, put back after a failed send, end of a record | a delivery is in no file while it is sent; two waiters; takeover of a key; rename of a conversation; reuse of a PID; restart during a send |
| Ticks (`src/daemon/mod.rs` `run`) | grace times, idle time, inode of the binary | end of sessions, of worktrees, sweep, stop, exec | results that the sweep must not delete |
| Managed loops (`mod.rs` `managed_loop`, `gitlab_round`, `check`; `nap.rs`) | pokes, errors in a row, next round | rounds, checks, naps, wait for the network | a poke during a round; sleep of the machine; a record that changed during a check |
| Items and hub routing (`core/items.rs`, `report.rs`, `board.rs`, `store.rs`) | items with rows, `.last` and `.routing` files, boards | `assign`, `deliver`, `move_items`, `prune_items`, hub replay, `report` | the lock is free between `assign` and `deliver` |
| Event log (`core/eventlog.rs`, `server.rs` `follow`) | `events.jsonl`, last id, cursor of each follower | append, prune, follow | unique ids over prunes and restarts; partial lines |
| Router and retries (`engine/router`) | retry counts, running retry tasks | decide, execute, retry a job | a restart, an outage or a new pipeline in the middle of a retry; a failed start of an agent |
| Engine (`engine/mrs.rs`, `engine/hub.rs`) | last poll of each MR and of the hub | calls of a check, comparison of two polls | GitLab changes between the calls of one check; a kill after the save |
| Filter and targets (`core/filter.rs`, `core/worktrees.rs`) | none | pure functions | an item that one event drops and another one opens |
| Client and lifecycle (`client/mod.rs`, `main.rs`, `mod.rs` `main`) | lock file, socket, PID file | start of the daemon, `wait` loop, board, exec | two clients that start a daemon at once; a start while the old daemon leaves |
| Local git state (`local/`, `mod.rs` `local_round`) | one file for each worktree | read of git, write of the state | the lock is free while git runs |
| State format (`store.rs` `reset_on_format_change`) | all files | reset at the start of a binary with a different format | a kill in the middle of it |
| Watch plugin (`dot_config/herdr/plugins/watch` of the repository) | its position in the event log | follow, notify, restart | a kill between a notification and the write of the position |
| Other plugins, scripts, skills, hooks, tool configuration | none to speak of | shell and TypeScript around single calls | - |

`PROJECT.json` lists each component with what is and is not modelled, and each hazard of this code
with its line and the properties about it.

How they interact: clients send one request over a socket; `server.rs` handles it under the state
lock (`daemon.lock()`), which guards all state files. The managed loops find events and append them
to inboxes under the same lock. A waiter looks at its session at each change (`daemon.changed`) and
each second, takes its answer under the lock, and sends it with no lock but `delivering` held for
read. The tick ends sessions, worktrees and old results. A stop or an exec takes `delivering` for
write.

Modules and what they stand for in each other:

```
Lifecycle    which process has the lock and the socket   -> its "up" is the whole of the others
ManagedLoop  when a check of a target runs               -> MrCheck, HubCheck, JobRetry: "rounds go on"
MrCheck      calls, comparison, filter, items of an MR   -> HubRouting: "any set of items of a poll"
HubCheck     calls, comparison, router rules of the hub  -> HubRouting: "any decision of the router"
JobRetry     default branch, retry tasks                 -> HubRouting: a later event of an item
HubRouting   rows, files, moves, assign and deliver      -> Delivery: an event for a key
Delivery     inboxes, waiters, sends, sessions
EventLog     events.jsonl and its followers, implements EventFeed
```

## Module `Delivery`

The core of the daemon: no event that a check found for a record is lost, sent two times, or sent
to nobody, whatever clients, owners, ticks and restarts do in between.

Each action is one critical section of the state lock, or the end of a send:

| Action | Code |
| --- | --- |
| `Watch`, `Unsubscribe` | `Store::watch`, `Store::unsubscribe` |
| `Wait` | the first section of `server::wait`: rename, owner, `leave_other_sessions`, registration |
| `AnswerSuperseded`, `AnswerUpgrade`, `AnswerError`, `AnswerEvents` | one pass of the answer loop: `pending`, the owner check and `delivery` |
| `SendOk`, `SendFails`, `ClientGone` | the end of `server::wait`: `put_back`, `put_back_error`, `put_back_upgrade`, removal of the waiter |
| `CheckEvents`, `CheckFails` | the last section of `Daemon::check`: append to the inbox, `end_mrs`, `remove_record` |
| `Tick` | one tick of `run`: `end_sessions`, `end_gone_worktrees`, `sweep` |
| `Drain`, `Restart`, `FormatReset`, `Crash` | the end of `main`, the exec, `reset_on_format_change`, a kill -9 |
| `OwnerEnds`, `OwnerStarts`, `GracePasses` | the environment: processes and time |

State: `holder[k]` and `narrow[k]` are the agent record of a key (its session, and the MRs that its
inbox filter names; `None` is no record); `session[s]` is the session record (`presence` joins
`owner_pid` and `owner_gone_at`); `inbox[k]` holds event ids by MR, because only the order within
one MR counts; `errorOf[k]` is the session whose record wrote the error file; `waiter` is
`Memory.waiters`; `conn` holds the `wait` connections, and for one that sends also what it took out
of the files. `received` and `released` are history: ids that a client got, and ids that went away
with an `unsubscribe`, an expired session or a format reset.

Abstractions, and why they are safe:

- The events of a check are one event per step: more events are more steps.
- Connections are slots that are used again after their end; a waiter number is its slot. The code
  never uses a number again, and a slot is free only when its task ended.
- The stop begins with `stopping`, and the managed loops end while clients still get answers: these
  are steps of the phase `up`. The phase `draining` begins when `delivering.write()` is in the queue.
  The lock of tokio is fair: a writer in the queue stops new readers.
- An owner is alive when its `wait` is read. If it ended before that, the same record is written, and
  the model takes the end as the next step.
- Missing records are `NoSession`; a write to a missing record makes a default record, as
  `unwrap_or_default` does.
- The hub watch uses this code too. What only it does (the replay of pending items at a new watch,
  the routing of events of worktrees with no agent, rows and reports) is in `HubRouting`.
- A failed write of a state file and a failed delete of a reset are not modelled.

### Properties

| Property | What it says |
| --- | --- |
| `RecordHasSession` | each agent record is of a session with a record |
| `ResultsHaveTaker` | events and errors of a key have a record of the key or a session that has the key in `ended`: the sweep deletes nothing that somebody waits for |
| `OneLivePerOwner` | one owner process has one live session |
| `WaiterIsConnected` | a registered waiter is an open connection of its session |
| `NoEventLost` | with no kill -9, each event is in an inbox, on its way, received, or went away with its watch |
| `NoEventTwice` | no event is in two of these places |
| `RestartEnds` | a restart comes to its end while clients come and wait |
| `EventArrives` | each event reaches a client or goes away with its watch |
| `CrashLosesNothing` | a promise of REQUIREMENTS.md that the code does not keep: see finding 1 |
| `ReplacedIsOver` | a promise of a comment that the code does not keep in all orders: see finding 2 |

### Runs

All runs use `MCDelivery`, with model values and symmetry of sessions, keys, owners and connections
where no liveness is checked.

| Run | Bounds | Shows |
| --- | --- | --- |
| sessions | 2 sessions, 1 owner, 1 key, an MR that a filter names and an event that no filter takes, 2 connections, 1 event | each safety property in each order of requests, sends, checks and ticks |
| arrives | 1 session, 1 key, 1 event, 1 error, 1 reset, 1 kill -9, a PID used again, fairness | `EventArrives` and `RestartEnds` |
| crash, replaced | the smallest instances | findings 1 and 2 |

Two sessions are enough for a takeover, a rename and a supersession, two connections for a newer
waiter and for two sends of one session at once. One event is enough for a loss or a second delivery.
Errors, PIDs that are used again, resets and restarts with more than one session are left to the
theorems, which have any number of them.

### Fairness

Of the daemon (`DaemonFairness`): a waiter looks each second (`tokio::time::sleep` in its
`select!`), its client ends when its owner ended (the client looks at its owner), each send ends
(the code has no timeout for a send, so this is an assumption on clients: they read or they close),
the exec follows when all sends ended, and the ticks come again and again.

Of the clients (`ClientFairness`): the agent of a live owner waits again after each answer and each
restart (the wait command of the skills and the client loop do), does not always leave just before
its answer, and not each of its sends fails, be it events, an error or the request to upgrade. With
sends that always fail nothing could arrive, so this is strong fairness of the good send.

### Findings

1. `crash`: W10.2 (REQUIREMENTS.md:399) says that a crash loses no event. The inbox file is deleted
   before the send, and a kill -9 between both loses its events.
2. `replaced`: a failed send puts a `replaced` key back although the session took the key back
   during the send; it then gets a replaced event for a watch that it has.
3. `hub_asked`: W8.48 (REQUIREMENTS.md:351) says that an event for the model wakes the hub. The
   delivery hides each line whose row the router handled, and an earlier event of the same item has
   the same row: see `HubRouting`.

What the model also does, as the code does, and no run is about: the error of a second record of a
key overwrites the error of the first that was not taken yet, and goes to the session of the first;
a format reset forgets that a session was away, so one owner can then have two live sessions
(`OneLivePerOwner` holds with no reset); a wait that the daemon handles before the first watch of its
session leaves the session away, and its records end after the grace period although the waiter is
connected. In `EventLog`: the first batch of a new plugin can end with a later sidebar line, which has
no `last_id`: the plugin then starts at the top of the log and not at its end.

## Module `EventLog`

`events.jsonl`: the daemon appends lines with ids (`Store::event_log`), prunes old ones, and sends new
ones to each `follow` connection; the watch plugin keeps the id of its last line and connects again
with `--after`.

- Appends and prunes are one step each: they hold the state lock. A follower reads with no lock, so
  `OpenLog` and `ReadLog` are two steps, and a prune, which puts a new file at the path, fits between.
  `files` keeps each file that was at the path, as an open descriptor does.
- `SendLine` and `EndPass` are the writes of one pass; `pipe` is what the plugin did not read yet, and
  `Handle` takes a batch of it: the reader saves its id first, and `Notify` follows line by line.
- At most `MaxFaults` kinds of `faults` happen, each once: a restart of the daemon, a short write, a reset of the log,
  a clock that goes back, a crash of the plugin. A short write is a full disk: `event_log` drops the
  error of its write, so the file can end after some lines, in the middle of a line (`torn`), or in the
  middle of a character (`split`, after which no read of it as text succeeds, and each reader stops
  until a prune or a reset).
- Ids are the time in the unit of `clock`; a line is its number, id and time. Not in it: the text of
  lines, followers with no `--after` that want no history, the sidebar beside its `last_id`.
- `EventFeed` is the abstract promise: lines are made and go away, and a reader takes lines in their
  order, at most once, and skips none that is still there. `EventLog` implements it (`KeepsPromise`)
  with the numbers of the lines of the current file as `kept` and the taken lines as `seen`.

| Run | Bounds | Shows |
| --- | --- | --- |
| log | 1 reader, 3 lines, 2 files, one fault of any kind, fairness of the follower and the plugin | ids increase over prunes and restarts; order within a file and no second notification also when the clock goes back, the log is reset or a character is cut; the refinement; each line that stays arrives |

`LineArrives` promises nothing after a clock that goes back, a reset or a cut character
(`Undisturbed`): then a follower with a larger id skips lines, or reads none. One fault is enough
for each way to fail that the code handles. Two of them are not in the run: after a short write that
loses a whole line, a restart in the same unit of the clock gives the id of that line to the next one.
`IdsIncrease` and `EventFeed` are about the lines that a file had, so they hold there too, and the
theorems have any number of faults; a plugin with no `reader` file can start above the next line then.

`IdsIncrease` rests on time: an id is ahead of the clock by at most the number of lines before it, and a
restart with an empty log starts at the clock again. The log is empty only when each line is older than
`Keep`, so an id comes twice only if more than `Keep + 2` lines were logged: 7 days in milliseconds,
six hundred million lines. The run has exactly `MaxLines = Keep + 2`.

A prune during a read needs one line before it and one after, and a torn write with a later line
needs two writes: three lines have both. With two files one prune happens. Fairness: a follower looks at the file each second
(`daemon.tick`), sends what it read, and the plugin reads and connects again.

## Module `ManagedLoop`

One loop for each repo: fetch, round, nap. `pc` is the place of each loop; a round is the choice of
its targets, one `BeginCheck` and one `Check` for each target in any order, and `RoundEnds`. `permit`
is the wake-up that a `Notify` of tokio keeps for a loop that does not wait yet. A `watch` request
holds the state lock over two steps (`lock`), because `ensure_managed` asks git between its look at
the stop flag and the start of the loop, and `begin_stop` sets the flag with no lock. Each other use
of the lock is one step, possible when nobody holds it.

Abstractions: which keys are targets is any choice of the keys of the project, because worktrees, MRs
and records decide it; a tick may end any records; the fetch and the network of the machine are free,
and an interval can end at any time. `owed` is history: the keys with a poke whose round did not come
yet. Left out: lookups, the fast-forward, `last_poll` and `next_round` (for display), and a repo of
which git gives no project, which gets no loop.

| Run | Bounds | Shows |
| --- | --- | --- |
| loop_one | one repo, two keys, one stop, fairness | `NoLoopAtExit`; `NoPokeForgotten`; `PokeServed` with no end of an interval, `PokeTaken`, and `StopEnds` also in an outage that never ends |

`NoPokeForgotten` is what a poke needs: its loop is before the targets of its next round, or has a
wake-up, or has the check still to begin. Two keys are a target and a poke of no target. Two repos of
one project, where a round of one loop drops the pokes of the other, are left to the theorem
`PokesAreRemembered`, which has any number of them.

Bounds: `MaxFails` is 1 for the 5 errors in a row of the code; each error below it is the same step.

Fairness: `LoopStep` is one condition for each loop, strong because its steps wait for the lock that
others take again and again (the lock of tokio is fair); it has each step but the end of an interval.
`FairSpec` adds the tick. The network promises nothing: `PokeServed` and `PokeTaken` claim a round
unless the machine goes offline again, and `StopEnds` claims its end in any outage.

## Module `HubRouting`

A check gives each event a row of an items file and delivers it to the agent of its worktree, or to
the hub, the agent of the project. For the hub a router decides first: it handles an event (a report
row, a started agent, a dismissed or retried one) or leaves it to the model. The router runs with no
lock, so `Assign` and `Deliver` are two steps, and watches, ends, reports and other checks come
between.

| Action | Code |
| --- | --- |
| `RoundTargets` | `Daemon::round_targets`: the hub items of a reviewed MR go to its agent |
| `Poll`, `CheckFails`, `Quiet` | `Daemon::check`: the engine, its errors, a check with no event |
| `Assign`, `Deliver` | the two sections of `Daemon::route`, with `Store::assign`, `deliver`, then `prune_items` and `end_mrs` |
| `WatchKey`, `WatchHub` | `Store::watch`, with the replay of the pending items |
| `EndKey`, `EndHub`, `UnsubscribeHub`, `SessionExpires` | `remove_record`, `unsubscribe`, `end_sessions` and `sweep` |
| `TakeHub`, `SendOk`, `SendFails` | `delivery` and `put_back` for the hub |
| `Report` | `Store::report` with `build_report` |

State: `files[f]` is `items/<key>.json`: the next number and the row of each item (0: not pending);
`present[f]` is the list of the last poll; `check[f]` is the check of a target; `inbox`, `routing`
and `last` are the files of the hub; `answer` is on its way. `owed` is history: the items with an
event whose cause stayed since then and which nobody dismissed or took over.

Abstractions: an event is its item, and a line in an inbox is its item, its row and whether the
router left it to the model. What the router decides is any choice. Which events a poll makes is any
set of items that the poll shows: the engine and the filter of a record are behind it. Left out: events
with no item (they take a number and open nothing), items of the model, the pull item, added rows and
cells, the event that an item shows, a file that does not read, the inbox of a worktree agent (in
`Delivery`), and the end of an MR whose watch stays. A retried job comes back as a later event of its
item. One project has one hub and one loop.

| Property | What it says |
| --- | --- |
| `OneItemPerRow` | a row is the number of one item of a file, and the next number is free: the model names items by rows only |
| `OpenIsPending` | an item whose cause stays is pending somewhere until the router or a model is done with it, over all moves and prunes |
| `SavedRowsNameTheirItem` (theorem, no run) | rows that the router saved for a report never name another item, however late the report comes |
| `KeepsRow` | W9.17: a pending item keeps its row |
| `ClosedGoesAway` | W9.5: an item whose cause is gone does not stay, wherever it moved |
| `AskedReachesModel` | W8.48: an event for the model reaches it; the code does not keep this: finding 3 |

| Run | Bounds | Shows |
| --- | --- | --- |
| hub | a thread and a to-do of a reviewed MR, a hub that runs and an agent that comes and goes, 3 steps, fairness | the invariants, `KeepsRow` and `ClosedGoesAway` |
| hub_asked | the to-do and the failure, a hub that runs, 3 steps | finding 3 |

`MaxSteps` bounds what is new: items, later events and starts of a watch. Rounds, ends, reports and
items that go away have no bound. Three steps are a check with a handled and an asked event, which
is what puts rows in `.routing`, and a third event, a watch or a new item that could take a freed
row. The three items are the three ways of an item: it moves both ways and is pruned by two checks
(the thread), it moves both ways and is pruned by the list of the hub (the to-do), it stays at the
hub (the failure).

Finding 3 in steps: a check of the hub finds a failure of the default branch that the router handles
and a to-do that it leaves to the model. The row of the failure is saved as handled. Before the
report of the model, the failure has a new event, which the router leaves to the model. Its line has
the same row, and `delivery` filters it out with the handled one.

Not stated, because it does not hold: that a line in the inbox of the hub has the row of its item. A
watch that starts or ends between `Assign` and `Deliver` sends rows of one file to the reader of the
other. And a new hub gets no replay when the inbox of an ended hub still has lines.

Fairness: a round comes to its end and the next one begins (`RoundStep`; `ManagedLoop` has the naps
and the network), and not each poll of a target fails. Watches and agents promise nothing.

## Module `MrCheck`

The check of one MR. GitLab (`mr`) is read in several calls, which other people do not wait for:
`ReadBase` (GraphQL), `ReadRest`, one `ReadPage` for each page of the discussions, and `ReadReactions`
with one call for each comment. `Save` is the comparison with the saved state (`normalize`,
`new_state`, `mr_events`, `mrs_compare`) and the write of the engine state; `Deliver` is the filter
of the watch, the new items, the prune, the needs of the sidebar and the end of the watch. Between
all of them people comment, react, resolve, push, approve and end the MR.

| Property | What it says |
| --- | --- |
| `CommentsToldOnce` | W3.15: a comment of another person comes neither twice nor never |
| `StaysUntilAnswered` | W9.6, W9.7: a comment that came is a pending item until the user answers it, or until a check finds its MR merged or closed |
| `OthersThreadsStayOut` | W6.19: a review watch gets no item of a thread that only others wrote in |
| `ItemsShowNeed` | W9.21: the sidebar needs of the last poll fit the items of all polls |
| `ConflictsToldOnce` | one conflict gives one event, although GitLab computes the merge status later |
| `AnsweredGoesAway` | W9.5, W9.6: the item of a thread with an answer goes away |

Run `mr_check`: one MR in an author or a review watch with all events, two threads on two pages, and
at most three changes of GitLab: three in threads, two in threads and a kill, one in a thread with
another change and a kill, or two other changes (`TalkMoveOrKill`). Two pages are what a comment needs to come behind the reader. Three changes are a
comment, its answer or another comment, and one that takes it back; a conflict needs two pushes. Calls
fail at any time. Fairness: rounds go on, GitLab computes the merge status at some time, and its
errors end.

What the model shows and no property claims: a comment on an earlier page that comes while later
pages are read can have a smaller id than the last one of the check, and then no check gives it as an
event (`seen` has these; the item of its thread is opened by the line of the next event). A kill
between the save and the delivery takes the events of that check (`lost`), also the one that ends a
watch. A watch that begins after its MR is merged does not end. The items of a reopened MR come back
with the next event only. So does the item of a comment that the check which found the MR merged or
closed gave as an event: that check has no item for it, and the first check of the reopened MR finds no
new comment. `StaysUntilAnswered` had no word of this and was false, as its proof showed; the history
`answered` now counts the notes of such a check, too. `draft` stands for draft, title, description and labels. Left out: jobs of a
pipeline, the choice of `--events` in the run (the module has it), and the needs of a watch that ended.

## Module `HubCheck`

The check of the hub and the fixed rules of its router. `ReadLists` (to-dos and MRs), `ReadWatched`
(the known MRs that left the list), `ReadNotes` (only of MRs with a new `updated_at`), `ReadReactions`
and `SaveStep` are its parts; `Route` decides for each news and starts at most one agent for each MR,
with any result of the start. `tree` is the worktree of a reviewed MR, which makes the check skip it.

| Property | What it says |
| --- | --- |
| `NewsToldOnce` | no check gives the same to-do, note or reaction again, over failed checks and MRs that leave and come back |
| `NoteIsTold` | a note of another user becomes news, whenever it comes between the reads |
| `NoteStays` | W9.6: a note of the news stays an item until it is answered |
| `ReviewRequestStays` | W9.12: a review request of a person stays an item until its to-do is done, with each result of a start |
| `AnsweredGoesAway` | W9.8: the item of a note with an answer goes away |

Run `hub_check`: one MR of a person or a bot, three notes, and three steps: of people, failed checks or a
kill, with fairness of the check. One MR is enough, because no rule relates two. Three notes are one of
the user, one of another user and a third that comes during the check of the second.

Assumptions: a page of 100 has all open MRs and to-dos (with more, the 101st MR is announced as opened
when one of the page closes). More than 50 new notes in one check, the texts, and the moves of items
with a free lock (in `HubRouting`) are not in it. Not claimed, because the code does not do it: that a
mention of a skipped MR is told later, that the news of a kill between save and route come again
(`lost`), and `ReviewRequestStays` for the MR of a bot: if both its to-do and its opening are news and the start
of the agent fails, the row of the to-do is dismissed and the opened row has no item.

## Module `JobRetry`

Failures of the default branch. The check of the hub reads the newest finished pipeline and its failed
jobs (`ReadPipeline`, `ReadJobs`, `Save`); the router gives each job that failed for a reason of the
runner to a task (`Route`), takes it out of the event (`Narrowed`) and leaves the rest to the model
(`Deliver`). A task reads the count, posts the retry, writes the count, and waits for the end of the
job in naps; it also waits for the network. `phase` is the stop: `main` joins the loops, then the tasks.

| Property | What it says |
| --- | --- |
| `AtMostTwoRetries` | W8.32, W8.35: a job is retried at most two times, over restarts and kills |
| `NoFailureForgotten` | W8.36, W8.38: each failure that was told has a task, a last row or went to the model, unless a kill -9 took it |
| `NewFailureNoticed` | W8.38: a pipeline that fails after the one that the hub knows becomes an event |
| `RetriesEnd` | W8.34, W8.36: each retry ends if the network comes back for good, and a stop ends |

Run `job_retry`: one job in each of two pipelines, and one stop or kill. Two pipelines are what a retry
of the older one needs to make it the newest finished one; two retries and their third failure are
within the rules of the code. Outages are not bounded.

Why two retries hold is not obvious: a kill between the POST and the write of the count loses the
count, and the pipeline of a retry finishes again. Only the saved pipeline, which never goes back to a
smaller id, keeps its jobs from new tasks. The price, which the code pays too: the same pipeline that
fails again gives no event, and a kill -9 drops a retry with no row.

Fairness: rounds go on and not each check fails; each task runs, and with the network up its reads end
(after the result of the job or an hour, `retry_timeout`).

## Module `Lifecycle`

Processes `watchd daemon`, the lock, the socket and PID files, and the clients that start daemons. A
process takes the lock or ends (`TakeLock`), removes the old socket and binds its own (`Listen`), stops
when idle or at a signal, leaves (`Leave`: the lock goes when `main` returns, the socket with the
process at `Exit`), or executes a new binary with its lock and socket open (`Restart`). Clients connect,
start a daemon and poll for its socket, send their command, and wait or end.

| Property | What it says |
| --- | --- |
| `FilesNameDaemon` | W1.12: a daemon that runs holds the lock, and both files are its own |
| `StartIsEnough` | W1.9: a client with no fault that started a daemon gets one, its own or that of another client |
| `WaitIsServed` | W1.9, W1.21: a wait of a session with a watch comes to a daemon, over stops and restarts |
| `IdleDaemonStops` | W1.21: with no watch and no client no daemon stays |

Run `lifecycle`: a session, a board, two processes and three faults (kills, failed starts, signals,
installs). Two clients start daemons at once, and a second process meets one that runs, starts or
leaves. Numbers of processes are used again. Fairness: the system runs each process and client.

Not claimed: that a command other than `wait` or `board` has an answer when the daemon ends under it
(a `watch` can be saved and still end with an error). Between `Leave` and `Exit` the old process still
serves the connections that it has while a new one holds the lock.

## Proofs

`DeliveryProofs` proves, for every set of sessions, keys, owners, MRs and
connections and every bound (from `DeliveryAssumption` only: the null values are no members of the
sets, and the bounds are numbers):

| Theorem | Statement |
| --- | --- |
| `TypeCorrect` | `Spec => []TypeOK` |
| `RecordsHaveSessions` | `Spec => []RecordHasSession` |
| `ResultsAlwaysHaveTaker` | `Spec => []ResultsHaveTaker` |
| `WaitersAreConnected` | `Spec => []WaiterIsConnected` |
| `OneConversation` | `MaxResets = 0 => (Spec => []OneLivePerOwner)` |

The inductive invariant is `Base == TypeOK /\ ConnOK /\ RecordHasSession`. `ConnOK` says what an
open connection holds: its session is a session, it sends exactly when it has an answer, and an
error answer has a key. Without it a failed send could write a record of no session. With it a put
back makes the record that it needs, and `RecordHasSession` tells that the end of a record finds a
session that learns it. `ResultsHaveTaker` is then inductive relative to `Base`: each action is
shown, key by key, to leave results only where a record or an ended key is (`TakerByKey`,
`EndedKept`, `EndRecordsTaker`). `WaiterIsConnected` is inductive relative to `Base` as well, because
a connection is free only when nobody has it as waiter, and `OneLivePerOwner` because each step that
makes a session live is a `Wait`, which sends the other sessions of the owner away.
`OneConversation` has the hypothesis that no format reset happens: a reset forgets which sessions are
away.

`ManagedLoopProofs` proves, for every set of repos, keys and projects:

| Theorem | Statement |
| --- | --- |
| `TypeCorrect` | `Spec => []TypeOK` |
| `PokesAreRemembered` | `Spec => []NoPokeForgotten` |
| `LoopsAreOverAtExit` | `Spec => []NoLoopAtExit` |

`NoPokeForgotten` is inductive with `TypeOK`: `OtherLoop` shows that the step of one loop keeps the
pokes of the other repos, and the end of a round is the step that needs the wake-up. `NoLoopAtExit`
needs `StopIsSafe`: after `main()` took the tasks, each loop is one of them, and a request that holds
the lock read the flag as set, because `main()` had the lock after it set the flag.

`HubRoutingProofs` proves, for every finite set of items, every set of worktrees
and each assignment of sources and reviews (`HubRoutingAssumption`: a review has no other item of a
worktree than its own):

| Theorem | Statement |
| --- | --- |
| `TypeCorrect` | `Spec => []TypeOK` |
| `OpenItemsArePending` | `Spec => []OpenIsPending` |
| `RowsNameOneItem` | `Spec => []OneItemPerRow` |
| `SavedRowsAreRight` | `Spec => []SavedRowsNameTheirItem` |
| `RowsAreKept` | `Spec => KeepsRow` |

`OpenIsPending` needs `OpenInv`: an owed item is in the list of the last poll of its target
(`Present`), the file of a worktree has only its items and items of the hub (`Homes`), and the
events of a check are items of its poll (`EventsArePresent`). Then no prune takes an owed item
(`KeptPruned`), and a move keeps it (`KeptToHub`).

Rows rest on `Grown(old, new)`: each row of the new file is the row that its item had, or a number
that was free. Each operator of the files grows its file (`GrownWithout`, `GrownNewRows`,
`GrownWith`), and so does each step (`NextRows`), except that the file of an ended key starts again.
`SavedRowsNameTheirItem` needs `SavedInv`: a saved row is below the next number (a free one would go
to the next item), and the same is true of the rows that the check of the hub carries while its
router runs. `NamesGrown` says that such a row keeps its meaning in a file that grows, and the file
of the hub never starts again.

`KeepsRow` is stronger than `Grown`: no item loses its row and has another one after the same step.
`Keeps` says this of two files, and `Extends` that a file has each row of the other. An item has two
steps in one action where a check ends its watch: the prune and then the move to the hub. The prune of
the end takes an item from the hub and from the worktree alike, so the move brings none of them back.

`LifecycleProofs` proves, for any number of processes, sessions, boards and faults:

| Theorem | Statement |
| --- | --- |
| `FilesAreOfDaemon` | `Spec => []FilesNameDaemon` |
| `StartsAreEnough` | `Spec => []StartIsEnough` |

The inductive invariant joins both with `LockIsHeld` (a process between its lock and its end holds the
lock, and it is the only one) and `OneComes` (while a client polls, the socket is that of a daemon that
goes on, or nobody has it and a process is on its way). A process that finds the lock taken ends: its client still gets a daemon only because a
holder of the lock either listens or is about to, and one that stops is counted as a fault of the
clients that poll.

`JobRetryProofs` proves, for any number of jobs, pipelines and ends:

| Theorem | Statement |
| --- | --- |
| `RetriesAreFew` | `Spec => []AtMostTwoRetries` |
| `FailuresAreKept` | `Spec => []NoFailureForgotten` |

`AtMostTwoRetries` needs `RetryInv`: a pipeline after the saved one never had a task (`OnePipelineOnce`,
because the saved id only grows), a job has one task at a time (`OneTask`), and a task knows the number
of its retries also between the POST and the write of the count (`Known`). `NoFailureForgotten` needs
`ForgetInv`: what `Narrowed` takes out of the event has a task (`NarrowedHaveTasks`), and no check runs
when the tasks are joined (`Quiet`).

`DeliveryProofs` also proves, for any number of sessions, keys, connections, events and faults:

| Theorem | Statement |
| --- | --- |
| `NoEventIsLost` | `Spec => []NoEventLost` |
| `NoEventIsTwice` | `Spec => []NoEventTwice` |

Both follow from `EventInv`. `Places` says that an id which an event has is in one place: an inbox, an
answer on its way, or the ids that ended (got by a client, or gone with their watch). `AllKept` says
that each id is in at least one of them, for as long as no kill -9 happened. `CarriesEvents` says that
only an answer with events holds events, so a connection that ends with another answer loses nothing.
A step then makes one of a few moves, and each move has one lemma: nothing moves (`SamePlaces`), a
watch takes its events away (`ReleasedPlaces`), and so on for the wait that takes an inbox, the client
that gets an answer, the failed send that puts it back, the check that finds events, and the crash.
The sweep of a tick deletes inboxes with no look at what they hold. `SweptIsEmpty` shows that it loses
nothing that an expired session did not give up, and needs `ResultsHaveTaker` for that: the inbox of
a key with no record still has a session that is to hear about it.

`MrCheckProofs` proves, for any number of threads, pages, comments, reactions, pushes and kills, and
each choice of `--events`:

| Theorem | Statement |
| --- | --- |
| `CheckInvariant` | `Spec => []CheckInv` |
| `CommentsAlwaysToldOnce` | `Spec => []CommentsToldOnce` |
| `AlwaysStaysUntilAnswered` | `Spec => []StaysUntilAnswered` |
| `OthersThreadsAlwaysStayOut` | `Spec => []OthersThreadsStayOut` |
| `ConflictsAlwaysToldOnce` | `Spec => []ConflictsToldOnce` |
| `ItemsAlwaysShowNeed` | `Spec => []ItemsShowNeed` |

`CheckInv` says what a check that is in the middle of its calls knows of a GitLab that goes on:

- `PagesOK`: what was read of a page is a first part of each of its threads. `PassedOK`: a comment of
  another person that came behind the reader is lost for good (`seen`), or has a larger number than all
  that the check read, so that the next check gives it. `ToldOK` is the other side, for a comment that
  was told: each read of its page has it. Both together give `CommentsToldOnce`, with `NoneLost`.
- `OpenOK` and `PresentOK`: a comment with no answer is of another user, and so is all that follows in
  its thread; the prune of the next check then has its thread as present. `EventsOK` says that an event
  of a thread brings the line that opens its item. `StaysUntilAnswered` needs all of them.
- `MineOK`: a review has a note of the user in the thread of each item, in each read of its page.
- `NeedsOK`: what is present has its need. `ItemsShowNeed` is about the items that stay after a prune.
- `ConflictsOK` is a budget: the conflicts that were told, that are in the events, that a check read and
  that GitLab has now, each began apart, and no more began than `mr.starts`.

`HubCheckProofs` proves, for any number of MRs, notes, steps of people, failed checks and kills:

| Theorem | Statement |
| --- | --- |
| `HubInvariant` | `Spec => []HubInv` |
| `NoteAlwaysStays` | `Spec => []NoteStays` |
| `ReviewRequestAlwaysStays` | `Spec => []ReviewRequestStays` |
| `NewsIsToldOnce` | `Spec => NewsToldOnce` |

`NewsInv` follows a piece of news through the places that remember it: GitLab (`ToldOK`), the saved
state (`SavedOK`), and the lists, notes and reactions of a check that runs (`ListsOK`, `WatchedOK`,
`NotesOK`, `LikesOK`). Each place has the news, or the reason why it counts no more, and the reason is
for good: a to-do that is done, a note with an answer (`Excused`), an MR that the hub forgot, which comes
back only with what GitLab has then. `NewsToldOnce` is an action property: the events of a check are not
in `told` before `SaveStep` (`EventsOK`). `NoteStays` and `ReviewRequestStays` need, besides, that the
saved state has the item as present, so that no prune of a later check takes it.

`EventLogProofs` proves, for any number of readers, lines, files and faults:

| Theorem | Statement |
| --- | --- |
| `FollowInvariant` | `Spec => [](TypeOK /\ LogInv /\ FlowInv)` |
| `NotifiedAlwaysOnce` | `Spec => []NotifiedOnce` |
| `IdsAlwaysIncrease` | `MaxLines <= Keep + 2 => (Spec => []IdsIncrease)` |
| `FeedInvariant` | `MaxLines <= Keep + 2 => (Spec => []FeedInv)` |
| `LogImplementsFeed` | `MaxLines <= Keep + 2 => (Spec => KeepsPromise)` |

- `LogInv` holds with each fault. Within a file that reads, ids increase (`FileOrder`), and a line with a
  larger id, in the same file or in a later one, is newer (`PairOrder`). After a reset or a clock that
  went back a later line can have a smaller id: then a reader skips it, and never mixes the order up.
- `FlowInv` is about one reader: what is on its way is in order (`ItemsOK`), up to the last id of the
  connection, as is all before its cursor (`LastOK`), after what the plugin has (`HandledOK`, `StartOK`),
  and before each line of a file that it can still read (`AheadOK`). `NotifyOK` adds the lines that the
  plugin took and did not notify of yet. A cursor into an old file, a prune between open and read, and a
  new connection while old lines are in the pipe are the steps that need them together.
- `FeedInv` holds while the log is undisturbed. `IdsOK` is the argument about time above. `KeptOK`: a
  prune takes the oldest lines, so a later file has no line that an earlier one misses. `TopOK`: the last
  id of a reader and of a connection is that of the newest line that it took. `NoGap`: a line that the
  file still has, between two that the reader took or gets, is on its way.
- The refinement, step by step: a write is `Publish` (or none, if it made no line), a prune is `Forget`,
  `Handle` is `Take` of the numbers of its batch
  (`HandleIsTake`), a reset, a step back and a cut character are `Break`, and each other step is none.

`IdsAlwaysIncrease`, `FeedInvariant` and `LogImplementsFeed` have the hypothesis on the number of lines
that the section of the module explains; without it an id can come twice, and TLC shows this with
one line more. `NotifiedAlwaysOnce` needs no hypothesis.

Two things were written so that one can prove about them. The filters of lines are `Only`, the elements
at a set of positions in their order, because the prover knows nothing of `SelectSeq`. And that a set of
numbers has a greatest one, which most of these modules use (`Max`), is proved from the well-founded
order of finite subsets (`FS_StrictSubsetOrderingWellFounded` and `WFMin`: a minimal element exists),
because the induction theorems of the library take an operator.

Only model-checked are the liveness properties (`EventArrives`, `RestartEnds`, `LineArrives`,
`PokeServed`, `PokeTaken`, `StopEnds`, `ClosedGoesAway`, `AnsweredGoesAway` of both checks, `NoteIsTold`,
`RetriesEnd`, `NewFailureNoticed`, `WaitIsServed`, `IdleDaemonStops`): fairness and `ENABLED` are out of
the prover's reach. Each invariant and each action property of the passing runs has a theorem. The
three findings are behaviours that TLC shows.

## Plan

Done: `Delivery`, `HubRouting`, `EventLog` with `EventFeed`, `ManagedLoop`, `MrCheck`, `HubCheck`,
`JobRetry`, `Lifecycle`, and the theorems above. Left, in this order:

1. `FormatReset` step by step, with a kill in the middle.
2. `Worktrees`: the local round, which writes what it read with the lock free, and the targets of a
   worktree against a reference definition.
3. `Mailbox`: the abstract specification of a delivery (each event waits, is on its way, or is done),
   implemented by `Delivery`.
4. Stacks of MRs and the fast-forward pull of a round.

## Not modelled

File names, texts, JSON, git and glab calls, the sidebar, boards and reports, the shell plugins
(except what the watch plugin does with the log) and scripts, the skills, and the tool configuration:
they hold no protocol state, or their state is that of one call. Local rounds and the targets of a
worktree are in the plan.
