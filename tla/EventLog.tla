----------------------------- MODULE EventLog -----------------------------
(* The event log of the watch daemon: events.jsonl with its ids              *)
(* (core/eventlog.rs, Store::event_log), its prune, the cursor of a `follow` *)
(* connection (server.rs), and the reader that must lose no line and notify  *)
(* none two times: the watch plugin (herdr/plugins/watch/watch.sh).          *)
(*                                                                           *)
(* Appends and prunes run under the state lock.  A follower reads the file   *)
(* with no lock: it opens it in one step and reads it in a later one, and a  *)
(* prune in between puts a new file at the path.                             *)
EXTENDS Naturals, Sequences, FiniteSetsExt

CONSTANTS
    Readers,    \* watch plugins, each with its own `reader` file
    Unknown,    \* no cached last id, no reader file
    Keep,       \* the age to which a prune keeps lines (7 days)
    Faults,     \* the kinds of fault that this instance has
    MaxLines,   \* bound: lines that the daemon logs
    MaxBatch,   \* bound: lines of one call of event_log
    MaxClock,   \* bound: the time
    MaxFiles,   \* bound: files that prunes and resets put at the path
    MaxFaults,  \* bound: kinds of fault that one behaviour meets, each once
    MaxSidebars \* bound: sidebar changes that a reader gets

FaultKinds == {"restart", "reset", "back", "short", "cut", "crash"}

ASSUME EventLogAssumption ==
    /\ Unknown \notin Nat
    /\ Faults \subseteq FaultKinds
    /\ Keep \in Nat /\ MaxLines \in Nat /\ MaxBatch \in Nat /\ MaxClock \in Nat \ {0}
    /\ MaxFiles \in Nat \ {0} /\ MaxFaults \in Nat /\ MaxSidebars \in Nat

VARIABLES
    files,    \* the files that were at the path; the last one is there now
    lastId,   \* Store.last_id: the cached id of the last line, or Unknown
    clock,    \* the system time
    conn,     \* the daemon side of the `follow` connection of each reader
    pipe,     \* what the daemon sent to the reader, which has not handled it
    reader,   \* the file `reader` of each plugin: the id of the last line read
    todo,     \* the lines that the plugin still notifies
    made,     \* history: the number of lines that the daemon logged
    started,  \* history: the lines from before the first connection
    handled,  \* history: the lines that each reader took
    notified, \* history: the notifications of each reader
    faults,   \* history: the kinds of fault that happened
    sidebars  \* bound counter

daemon == <<files, lastId, made>>
plugin == <<reader, todo, started, handled, notified>>
vars == <<daemon, clock, conn, pipe, plugin, faults, sidebars>>

-----------------------------------------------------------------------------
(* Lines and files *)

\* A line of the log: its number in the order of event_log, its id, its time.
\* A line that does not parse has the id 0 and no time.
Line == [no : Nat, id : Nat, time : Nat]
Unreadable == [no |-> 0, id |-> 0, time |-> 0]

\* `torn`: the file ends in the middle of a line.  `split`: a write ended in
\* the middle of a character, and no read of the file as text succeeds.
File == [lines : Seq(Line), torn : BOOLEAN, split : BOOLEAN]
NoFile == [lines |-> <<>>, torn |-> FALSE, split |-> FALSE]

\* The elements of a sequence at some positions, in their order.  It stands for
\* the filters of lines, and has no recursion, so one can prove about it.
UpTo(at, i) == Cardinality({j \in at : j <= i})
Only(seq, at) ==
    [k \in 1 .. Cardinality(at) |-> seq[CHOOSE i \in at : UpTo(at, i) = k]]

Current == Len(files)
File0 == files[Current]
InFile == {line.no : line \in Range(File0.lines)} \ {0}

Larger(a, b) == IF a > b THEN a ELSE b
IdsIn(lines) == {line.id : line \in Range(lines)}

\* Mutated: the ids are times.
NextIdIsTime(last, now) == now

NextId(last, now) == Larger(last + 1, now)

\* Mutated: a new daemon does not read the last id.
LastIdForgotten == IF lastId # Unknown THEN lastId ELSE 0

LastId ==
    IF lastId # Unknown THEN lastId
    ELSE IF File0.split THEN 0 ELSE Max({0} \union IdsIn(File0.lines))

\* The loop of event_log: only the first id can be the time.
NewLines(count) ==
    [i \in 1 .. count |-> [no |-> made + i,
                           id |-> NextId(LastId, clock) + i - 1,
                           time |-> clock]]

\* The first `whole` lines are written, then a piece of the next one.  A line
\* after a torn one continues it.
Appended(file, lines, whole, piece) ==
    LET written == SubSeq(lines, 1, whole)
    IN  [lines |-> file.lines \o (IF file.torn /\ whole > 0
                                  THEN <<Unreadable>> \o Tail(written) ELSE written),
         torn |-> piece # "none" \/ (file.torn /\ whole = 0),
         split |-> file.split \/ piece = "split"]

\* prune_lines: a line that does not parse stays, and a torn one gets its end.
Young(line) == line.id = 0 \/ line.time + Keep >= clock
Pruned(file) ==
    [NoFile EXCEPT !.lines = Only(file.lines, {i \in 1 .. Len(file.lines) : Young(file.lines[i])})
                            \o (IF file.torn THEN <<Unreadable>> ELSE <<>>)]

-----------------------------------------------------------------------------
(* Followers *)

\* `last`: the largest id sent.  `file`, `offset`: LogCursor.  `opened`: the
\* file of the read that runs.  `out`: the lines that it has to send.
Item == [type : {"line", "sidebar"}, no : Nat, id : Nat]
Conn == [st : {"closed", "idle", "opened", "sending"}, last : Nat,
         file : Nat, offset : Nat, opened : Nat, out : Seq(Item)]
Closed == [st |-> "closed", last |-> 0, file |-> 0, offset |-> 0, opened |-> 0, out |-> <<>>]

Sidebar(id) == [type |-> "sidebar", no |-> 0, id |-> id]
Items(lines) == [i \in 1 .. Len(lines) |->
                    [type |-> "line", no |-> lines[i].no, id |-> lines[i].id]]

\* The cursor is inside of the file that it is about.
CursorOK(c) ==
    /\ c.st = "opened" => c.opened \in 1 .. Current
    /\ c.file \in 0 .. Current
    /\ c.offset <= IF c.file = 0 THEN 0 ELSE Len(files[c.file].lines)

TypeOK ==
    /\ files \in Seq(File) /\ Len(files) \in 1 .. MaxFiles
    /\ lastId \in Nat \union {Unknown}
    /\ clock \in 1 .. MaxClock
    /\ conn \in [Readers -> Conn]
    /\ \A r \in Readers : CursorOK(conn[r])
    /\ pipe \in [Readers -> Seq(Item)]
    /\ reader \in [Readers -> Nat \union {Unknown}]
    /\ todo \in [Readers -> Seq(Nat)]
    /\ made \in 0 .. MaxLines
    /\ started \in [Readers -> Nat]
    /\ handled \in [Readers -> SUBSET Nat]
    /\ notified \in [Readers -> Seq(Nat)]
    /\ faults \subseteq Faults
    /\ sidebars \in 0 .. MaxSidebars

Init ==
    /\ files = <<NoFile>>
    /\ lastId = Unknown
    /\ clock = 1
    /\ conn = [r \in Readers |-> Closed]
    /\ pipe = [r \in Readers |-> <<>>]
    /\ reader = [r \in Readers |-> Unknown]
    /\ todo = [r \in Readers |-> <<>>]
    /\ made = 0
    /\ started = [r \in Readers |-> 0]
    /\ handled = [r \in Readers |-> {}]
    /\ notified = [r \in Readers |-> <<>>]
    /\ faults = {}
    /\ sidebars = 0

Fault(kind) ==
    /\ kind \in Faults
    /\ kind \notin faults /\ Cardinality(faults) < MaxFaults
    /\ faults' = faults \union {kind}

-----------------------------------------------------------------------------
(* The daemon: each action is under the state lock *)

Write(count, whole, piece) ==
    /\ made + count <= MaxLines
    /\ files' = [files EXCEPT ![Current] = Appended(@, NewLines(count), whole, piece)]
    /\ lastId' = NewLines(count)[count].id
    /\ made' = made + count
    /\ UNCHANGED <<clock, conn, pipe, plugin, sidebars>>

EventLog(count) ==
    /\ Write(count, count, "none")
    /\ UNCHANGED faults

\* The disk is full: event_log drops the error of the write.
ShortWrite(count, whole, piece) ==
    /\ whole < count
    /\ Fault(IF piece = "split" THEN "cut" ELSE "short")
    /\ Write(count, whole, piece)

\* A file that does not read as text stays.
Prune ==
    /\ Current < MaxFiles
    /\ ~File0.split
    /\ files' = Append(files, Pruned(File0))
    /\ UNCHANGED <<lastId, made, clock, conn, pipe, plugin, faults, sidebars>>

\* Each connection ends, and its reader still gets what was sent.
EndConnections ==
    /\ lastId' = Unknown
    /\ conn' = [r \in Readers |-> Closed]
    /\ UNCHANGED <<made, clock, pipe, plugin, sidebars>>

Restart ==
    /\ Fault("restart")
    /\ EndConnections
    /\ UNCHANGED files

\* The next binary has a different state format and deletes the log.
FormatReset ==
    /\ Current < MaxFiles
    /\ Fault("reset")
    /\ EndConnections
    /\ files' = Append(files, NoFile)

-----------------------------------------------------------------------------
(* A `follow` connection *)

\* The plugin connects again when its last connection ended and is handled.
Connect(r) ==
    /\ conn[r].st = "closed" /\ pipe[r] = <<>> /\ todo[r] = <<>>
    /\ lastId' = LastId
    /\ pipe' = [pipe EXCEPT ![r] = <<Sidebar(LastId)>>]
    /\ conn' = [conn EXCEPT ![r] = [Closed EXCEPT
            !.st = "idle",
            !.last = IF reader[r] = Unknown THEN LastId ELSE reader[r]]]
    /\ started' = [started EXCEPT ![r] = IF reader[r] = Unknown THEN made ELSE @]
    /\ UNCHANGED <<files, made, clock, reader, todo, handled, notified, faults, sidebars>>

OpenLog(r) ==
    /\ conn[r].st = "idle"
    /\ conn' = [conn EXCEPT ![r].st = "opened", ![r].opened = Current]
    /\ UNCHANGED <<daemon, clock, pipe, plugin, faults, sidebars>>

\* A new inode: the read starts at the top again.
StartOf(c) == IF c.opened = c.file THEN c.offset ELSE 0

\* The positions of the lines after the cursor.
LinesAfter(c) ==
    IF files[c.opened].split THEN {} ELSE StartOf(c) + 1 .. Len(files[c.opened].lines)

\* new_lines and the filter of follow.  A read that fails keeps the offset.
ReadLog(r) ==
    LET c == conn[r]
        lines == files[c.opened].lines
        new == {i \in LinesAfter(c) : lines[i].id > c.last}
    IN  /\ c.st = "opened"
        /\ conn' = [conn EXCEPT ![r] = [st |-> "sending",
                last |-> Max({c.last} \union {lines[i].id : i \in new}),
                file |-> c.opened,
                offset |-> StartOf(c) + Cardinality(LinesAfter(c)),
                opened |-> 0,
                out |-> Items(Only(lines, new))]]
        /\ UNCHANGED <<daemon, clock, pipe, plugin, faults, sidebars>>

SendLine(r) ==
    /\ conn[r].st = "sending" /\ conn[r].out # <<>>
    /\ pipe' = [pipe EXCEPT ![r] = Append(@, Head(conn[r].out))]
    /\ conn' = [conn EXCEPT ![r].out = Tail(@)]
    /\ UNCHANGED <<daemon, clock, plugin, faults, sidebars>>

\* After the lines, the sidebar if it changed.  Only the first sidebar line of
\* a connection has a `last_id`.
EndPass(r, changed) ==
    /\ conn[r].st = "sending" /\ conn[r].out = <<>>
    /\ conn' = [conn EXCEPT ![r].st = "idle"]
    /\ IF changed
       THEN /\ sidebars < MaxSidebars
            /\ sidebars' = sidebars + 1
            /\ pipe' = [pipe EXCEPT ![r] = Append(@, Sidebar(0))]
       ELSE UNCHANGED <<pipe, sidebars>>
    /\ UNCHANGED <<daemon, clock, plugin, faults>>

-----------------------------------------------------------------------------
(* The watch plugin *)

PositionsOf(type, batch) == {i \in 1 .. Len(batch) : batch[i].type = type}

\* The first run starts at the `last_id` of the sidebar line, 0 if it has none.
\* A batch keeps its last sidebar line.
StartId(r, batch) ==
    LET sidebarsAt == PositionsOf("sidebar", batch)
    IN  IF reader[r] = Unknown /\ sidebarsAt # {} THEN batch[Max(sidebarsAt)].id ELSE reader[r]

\* Mutated: the id of a batch is not saved.
ReaderNotSaved(r, batch) == StartId(r, batch)

ReaderAfter(r, batch) ==
    LET linesAt == PositionsOf("line", batch)
        start == StartId(r, batch)
    IN  IF linesAt = {} THEN start
        ELSE Larger(Max({batch[i].id : i \in linesAt}), IF start = Unknown THEN 0 ELSE start)

\* The lines up to a pause are one batch.  The id is saved first, then the
\* notifications follow.
Handle(r) ==
    \E count \in 1 .. Len(pipe[r]) :
        LET batch == SubSeq(pipe[r], 1, count)
            lines == Only(batch, PositionsOf("line", batch))
            numbers == [i \in 1 .. Len(lines) |-> lines[i].no]
        IN  /\ todo[r] = <<>>
            /\ pipe' = [pipe EXCEPT ![r] = SubSeq(@, count + 1, Len(@))]
            /\ reader' = [reader EXCEPT ![r] = ReaderAfter(r, batch)]
            /\ todo' = [todo EXCEPT ![r] = numbers]
            /\ handled' = [handled EXCEPT ![r] = @ \union Range(numbers)]
            /\ UNCHANGED <<daemon, clock, conn, started, notified, faults, sidebars>>

Notify(r) ==
    /\ todo[r] # <<>>
    /\ notified' = [notified EXCEPT ![r] = Append(@, Head(todo[r]))]
    /\ todo' = [todo EXCEPT ![r] = Tail(@)]
    /\ UNCHANGED <<daemon, clock, conn, pipe, reader, started, handled, faults, sidebars>>

\* The plugin ends at any point, and the next herdr event starts it again.
PluginCrash(r) ==
    /\ Fault("crash")
    /\ conn' = [conn EXCEPT ![r] = Closed]
    /\ pipe' = [pipe EXCEPT ![r] = <<>>]
    /\ todo' = [todo EXCEPT ![r] = <<>>]
    /\ UNCHANGED <<daemon, clock, reader, started, handled, notified, sidebars>>

-----------------------------------------------------------------------------
(* Time *)

TimePasses ==
    /\ clock < MaxClock
    /\ clock' = clock + 1
    /\ UNCHANGED <<daemon, conn, pipe, plugin, faults, sidebars>>

TimeSteppedBack ==
    /\ clock > 1
    /\ Fault("back")
    /\ clock' = clock - 1
    /\ UNCHANGED <<daemon, conn, pipe, plugin, sidebars>>

-----------------------------------------------------------------------------
Next ==
    \/ \E count \in 1 .. MaxBatch : EventLog(count)
    \/ \E count \in 1 .. MaxBatch, whole \in 0 .. MaxBatch, piece \in {"none", "part", "split"} :
           ShortWrite(count, whole, piece)
    \/ Prune \/ Restart \/ FormatReset
    \/ \E r \in Readers : Connect(r) \/ OpenLog(r) \/ ReadLog(r) \/ SendLine(r)
    \/ \E r \in Readers, changed \in BOOLEAN : EndPass(r, changed)
    \/ \E r \in Readers : Handle(r) \/ Notify(r) \/ PluginCrash(r)
    \/ TimePasses \/ TimeSteppedBack

Spec == Init /\ [][Next]_vars

\* A follower looks at the file each second (`daemon.tick`), and the plugin
\* reads what comes, notifies, and connects again (`watch`, `ensure`).  Each is
\* one thread: in a state it has one step that it can take.
ReaderFairness(r) ==
    /\ WF_vars(OpenLog(r) \/ ReadLog(r) \/ SendLine(r) \/ EndPass(r, FALSE))
    /\ WF_vars(Connect(r) \/ Handle(r) \/ Notify(r))

FairSpec == Spec /\ \A r \in Readers : ReaderFairness(r)

-----------------------------------------------------------------------------
(* Safety *)

\* With a clock that goes forward and no lost log, ids only grow and the file
\* keeps its lines.
Undisturbed == faults \intersect {"reset", "back", "cut"} = {}

\* "Increases from line to line, also across daemon restarts"
\* (core/eventlog.rs): a line has a larger id than each earlier line that any
\* file had, also after a prune of all lines and a restart.  Within one file the
\* ids increase whatever happens to the clock, and the next id is larger than all
\* of them: no follower drops a line of a later append.
Logged == (UNION {Range(files[f].lines) : f \in 1 .. Len(files)}) \ {Unreadable}
IdsIncrease ==
    /\ Undisturbed => \A a, b \in Logged : a.no < b.no => a.id < b.id
    /\ \A f \in 1 .. Len(files) : ~files[f].split =>
        LET lines == files[f].lines
        IN  /\ \A i, j \in 1 .. Len(lines) :
                   i < j /\ lines[i].id # 0 /\ lines[j].id # 0 => lines[i].id < lines[j].id
            /\ f = Current => \A i \in 1 .. Len(lines) : lines[i].id <= LastId

\* "a crash can lose a notification, but never sends one two times" (watch.sh
\* handle), and they come in the order of the log.
NotifiedOnce ==
    \A r \in Readers : \A i, j \in 1 .. Len(notified[r]) : i < j => notified[r][i] < notified[r][j]

\* The log and its followers keep the promise of EventFeed.
Feed == INSTANCE EventFeed WITH kept <- InFile, seen <- handled, broken <- ~Undisturbed
KeepsPromise == Feed!FeedSpec

-----------------------------------------------------------------------------
(* Liveness *)

\* A reader that started takes each line, or a prune takes it first, over
\* restarts, short writes and crashes of the reader.
LineArrives ==
    \A r \in Readers, no \in 1 .. MaxLines :
        reader[r] # Unknown /\ no > started[r] /\ no \in InFile
            ~> no \in handled[r] \/ no \notin InFile \/ ~Undisturbed
=============================================================================
