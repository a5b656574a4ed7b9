----------------------------- MODULE Lifecycle ------------------------------
(* The life of the daemon (daemon/mod.rs `main` and `run`) and of the        *)
(* clients that need it (client/mod.rs): clients start it, a lock keeps a    *)
(* second one out, it stops when it is idle or gets a signal, a new binary   *)
(* makes it restart with its lock and its socket, and a kill or a failed     *)
(* start ends it at any point.                                               *)
(*                                                                           *)
(* A socket or a pid file of a dead process is Nobody: nobody answers there. *)
(* What a watch delivers is in module Delivery, the rounds are in            *)
(* ManagedLoop.                                                              *)
EXTENDS Naturals, FiniteSets

CONSTANTS
    MaxProcesses, \* bound: processes `watchd daemon` at a time
    Sessions,     \* agent sessions, each with one command at a time
    Boards,       \* panes with `watchd board`
    MaxFaults     \* bound: kills, failed starts, signals and installs

\* The number of an ended process is that of a later one.
Processes == 1 .. MaxProcesses
Nobody == 0

Clients == Sessions \union Boards

ASSUME LifecycleAssumption ==
    /\ MaxProcesses \in Nat /\ IsFiniteSet(Clients)
    /\ Sessions \intersect Boards = {}
    /\ MaxFaults \in Nat

VARIABLES
    proc,      \* the state of each process
    lock,      \* the holder of the flock of daemon.lock
    sock,      \* the process that listens at daemon.sock
    pid,       \* the process that daemon.pid names
    followers, \* the followers that each daemon counts
    client,    \* the command of each client
    owners,    \* the sessions with a live owner
    recorded,  \* the sessions with a record of a watch
    known,     \* the sessions with a session file
    trouble,   \* history: the clients with a fault since they started a daemon
    faults     \* bound counter

daemon == <<proc, lock, sock, pid, followers>>
sessions == <<owners, recorded, known>>
vars == <<daemon, client, sessions, trouble, faults>>

NoCommand == [cmd |-> "none", at |-> "none", conn |-> Nobody, start |-> FALSE]

Init ==
    /\ proc = [p \in Processes |-> "none"]
    /\ lock = Nobody /\ sock = Nobody /\ pid = Nobody
    /\ followers = {}
    /\ client = [c \in Clients |-> NoCommand]
    /\ owners = Sessions /\ recorded = {} /\ known = {}
    /\ trouble = {} /\ faults = 0

-----------------------------------------------------------------------------
(* Clients *)

Becomes(c, new) == client' = [client EXCEPT ![c] = new]
Ends(c) == Becomes(c, NoCommand)

\* The commands that ask once; a report is one of an agent.
Asks == {"watch", "unsubscribe", "report"}
Commands == Asks \union {"wait"}

\* A wait of a session with no file starts no daemon.
Run(c) ==
    /\ client[c].cmd = "none"
    /\ \E cmd \in IF c \in Boards THEN {"board"} ELSE Commands :
          /\ cmd # "board" => c \in owners
          /\ Becomes(c, [cmd |-> cmd, at |-> "connect", conn |-> Nobody,
                         start |-> cmd = "wait" => c \in known])
    /\ UNCHANGED <<daemon, sessions, trouble, faults>>

OwnerLooksGone(c) == client[c].cmd = "wait" /\ c \notin owners

Sent(c) ==
    /\ Becomes(c, [client[c] EXCEPT !.at = "sent", !.conn = sock])
    /\ trouble' = trouble \ {c}

Connect(c) ==
    /\ client[c].at = "connect" /\ ~OwnerLooksGone(c)
    /\ \/ /\ sock # Nobody
          /\ Sent(c)
          /\ UNCHANGED daemon
       \/ /\ sock = Nobody /\ ~client[c].start
          /\ Ends(c)
          /\ UNCHANGED <<daemon, trouble>>
       \/ /\ sock = Nobody /\ client[c].start
          /\ \E p \in Processes :
                /\ proc[p] = "none" /\ \A q \in Processes : proc[q] = "none" => p <= q
                /\ proc' = [proc EXCEPT ![p] = "begin"]
          /\ Becomes(c, [client[c] EXCEPT !.at = "poll"])
          /\ trouble' = trouble \ {c}
          /\ UNCHANGED <<lock, sock, pid, followers>>
    /\ UNCHANGED <<sessions, faults>>

Poll(c) ==
    /\ client[c].at = "poll" /\ sock # Nobody
    /\ Sent(c)
    /\ UNCHANGED <<daemon, sessions, faults>>

Starting == {p \in Processes : proc[p] \in {"begin", "locked"}}

\* 50 tries in 10 seconds: a daemon that starts listens before that.
GivesUp(c) ==
    /\ client[c].at = "poll" /\ sock = Nobody /\ Starting = {}
    /\ Ends(c)
    /\ UNCHANGED <<daemon, sessions, trouble, faults>>

\* The check of each wait before it connects and at each tick.
SeesOwnerGone(c) ==
    /\ OwnerLooksGone(c) /\ client[c].at # "poll"
    /\ Ends(c)
    /\ UNCHANGED <<daemon, sessions, trouble, faults>>

OwnerEnds(c) ==
    /\ c \in owners
    /\ owners' = owners \ {c}
    /\ UNCHANGED <<daemon, client, recorded, known, trouble, faults>>

BoardCloses(c) ==
    /\ client[c].cmd = "board"
    /\ Ends(c)
    /\ UNCHANGED <<daemon, sessions, trouble, faults>>

\* Mutated: a wait ends with its connection.
BreakEnds(c) == IF client[c].cmd = "board" THEN [client[c] EXCEPT !.at = "connect", !.conn = Nobody]
                ELSE NoCommand

\* The daemon closed the socket: a wait and a board connect again, the other
\* commands fail.
AfterBreak(c) == IF client[c].cmd \in Asks THEN NoCommand
                 ELSE [client[c] EXCEPT !.at = "connect", !.conn = Nobody]

Break(p) == client' = [c \in Clients |-> IF client[c].conn = p THEN AfterBreak(c) ELSE client[c]]

-----------------------------------------------------------------------------
(* The server of the daemon *)

\* It runs until the process exits, also while the daemon stops.
Serves(p) == proc[p] \in {"up", "stopping", "restarting", "left"}

Handles(p, c, cmd) ==
    /\ Serves(p)
    /\ client[c].cmd = cmd /\ client[c].at = "sent" /\ client[c].conn = p
    /\ UNCHANGED <<proc, lock, sock, pid, owners, trouble, faults>>

Watch(p, c) ==
    /\ Handles(p, c, "watch") /\ Ends(c)
    /\ recorded' = recorded \union {c} /\ known' = known \union {c}
    /\ UNCHANGED followers

Unsubscribe(p, c) ==
    /\ Handles(p, c, "unsubscribe") /\ Ends(c)
    /\ recorded' = recorded \ {c}
    /\ UNCHANGED <<known, followers>>

Report(p, c) ==
    /\ Handles(p, c, "report") /\ Ends(c)
    /\ UNCHANGED <<recorded, known, followers>>

\* With no watch, a wait ends with an error.
Wait(p, c) ==
    /\ Handles(p, c, "wait")
    /\ IF c \in recorded THEN Becomes(c, [client[c] EXCEPT !.at = "served"]) ELSE Ends(c)
    /\ UNCHANGED <<recorded, known, followers>>

Follow(p, c) ==
    /\ Handles(p, c, "board")
    /\ Becomes(c, [client[c] EXCEPT !.at = "served"])
    /\ followers' = followers \union {<<p, c>>}
    /\ UNCHANGED <<recorded, known>>

Handle(p, c) ==
    Watch(p, c) \/ Unsubscribe(p, c) \/ Report(p, c) \/ Wait(p, c) \/ Follow(p, c)

\* Events or an error for a wait.
Answer(p, c) ==
    /\ Serves(p)
    /\ client[c].cmd = "wait" /\ client[c].at = "served" /\ client[c].conn = p
    /\ Ends(c)
    /\ UNCHANGED <<daemon, sessions, trouble, faults>>

\* Mutated: a follower counts until the daemon ends.
NotCountedDown == FALSE /\ UNCHANGED vars

\* The end of the connection drops the Follower.
FollowerGone == \E f \in followers :
    /\ client[f[2]].conn # f[1]
    /\ followers' = followers \ {f}
    /\ UNCHANGED <<proc, lock, sock, pid, client, sessions, trouble, faults>>

-----------------------------------------------------------------------------
(* A process *)

Moves(p, state) == proc' = [proc EXCEPT ![p] = state]

\* Mutated: the old socket file goes away before the lock is there.
UnlinkThenLock(p) ==
    /\ proc[p] = "begin"
    /\ IF lock = Nobody THEN lock' = p /\ Moves(p, "locked")
       ELSE Moves(p, "none") /\ UNCHANGED lock
    /\ sock' = Nobody
    /\ UNCHANGED <<pid, followers, client, sessions, trouble, faults>>

TakeLock(p) ==
    /\ proc[p] = "begin"
    /\ IF lock = Nobody THEN lock' = p /\ Moves(p, "locked")
       ELSE Moves(p, "none") /\ UNCHANGED lock
    /\ UNCHANGED <<sock, pid, followers, client, sessions, trouble, faults>>

\* A new socket, or after a restart the one of the image before, and the pid.
Listen(p) ==
    /\ proc[p] = "locked"
    /\ sock' = p /\ pid' = p
    /\ Moves(p, "up")
    /\ UNCHANGED <<lock, followers, client, sessions, trouble, faults>>

\* A tick ends the records of sessions that were away for too long.
EndSessions(p) == \E c \in recorded :
    /\ proc[p] = "up" /\ client[c].at # "served"
    /\ recorded' = recorded \ {c}
    /\ UNCHANGED <<daemon, client, owners, known, trouble, faults>>

\* A fault is one for each client that waits for its daemon.
InTrouble == trouble' = trouble \union {c \in Clients : client[c].at = "poll"}

Without(p) == {f \in followers : f[1] # p}

IdleStop(p) ==
    /\ proc[p] = "up" /\ recorded = {} /\ Without(p) = followers
    /\ Moves(p, "stopping") /\ InTrouble
    /\ UNCHANGED <<lock, sock, pid, followers, client, sessions, faults>>

Fault == faults < MaxFaults /\ faults' = faults + 1 /\ InTrouble

\* A signal, or a new inode of the binary that stays for a tick.
Signal(p) == \E state \in {"stopping", "restarting"} :
    /\ proc[p] = "up" /\ Fault
    /\ Moves(p, state)
    /\ UNCHANGED <<lock, sock, pid, followers, client, sessions>>

\* Mutated: the socket closes first, and the lock goes with the process.
LocksUntilExit(p) ==
    /\ proc[p] = "stopping"
    /\ pid' = IF pid = p THEN Nobody ELSE pid
    /\ sock' = Nobody
    /\ Moves(p, "left") /\ Break(p)
    /\ UNCHANGED <<lock, followers, sessions, trouble, faults>>

\* The end of `main`, with the loops, the retries and the deliveries joined.  The
\* lock goes with its frame, the socket with the process.
Leave(p) ==
    /\ proc[p] = "stopping"
    /\ pid' = IF pid = p THEN Nobody ELSE pid
    /\ lock' = Nobody
    /\ Moves(p, "left")
    /\ UNCHANGED <<sock, followers, client, sessions, trouble, faults>>

\* The exec keeps the lock and the listener, and closes the connections.
Restart(p) ==
    /\ proc[p] = "restarting"
    /\ followers' = Without(p)
    /\ Moves(p, "locked") /\ Break(p)
    /\ UNCHANGED <<lock, sock, pid, sessions, trouble, faults>>

\* The exec fails: the pid file stays.
RestartFails(p) ==
    /\ proc[p] = "restarting" /\ Fault
    /\ lock' = Nobody
    /\ Moves(p, "left")
    /\ UNCHANGED <<sock, pid, followers, client, sessions>>

Dies(p) ==
    LET left(file) == IF file = p THEN Nobody ELSE file
    IN  /\ lock' = left(lock) /\ sock' = left(sock) /\ pid' = left(pid)
        /\ followers' = Without(p)
        /\ Moves(p, "none") /\ Break(p)

Exit(p) ==
    /\ proc[p] = "left"
    /\ Dies(p)
    /\ UNCHANGED <<sessions, trouble, faults>>

\* A kill -9, or an error of the start.
Killed(p) ==
    /\ proc[p] # "none" /\ Fault
    /\ Dies(p)
    /\ UNCHANGED sessions

-----------------------------------------------------------------------------

ClientStep(c) ==
    \/ Connect(c) \/ Poll(c) \/ GivesUp(c) \/ SeesOwnerGone(c)
    \/ \E p \in Processes : Handle(p, c)

ProcessStep(p) ==
    TakeLock(p) \/ Listen(p) \/ IdleStop(p) \/ Leave(p) \/ Restart(p) \/ Exit(p)

Next ==
    \/ \E c \in Clients : Run(c) \/ ClientStep(c) \/ \E p \in Processes : Answer(p, c)
    \/ \E c \in Sessions : OwnerEnds(c)
    \/ \E c \in Boards : BoardCloses(c)
    \/ FollowerGone
    \/ \E p \in Processes : ProcessStep(p) \/ EndSessions(p) \/ Signal(p) \/ RestartFails(p) \/ Killed(p)

Spec == Init /\ [][Next]_vars

\* The system runs each process and each client; what users, agents and faults do
\* is not fair.
FairSpec ==
    /\ Spec
    /\ \A c \in Clients : WF_vars(ClientStep(c))
    /\ \A p \in Processes : WF_vars(ProcessStep(p))
    /\ WF_vars(FollowerGone)

-----------------------------------------------------------------------------
(* Properties *)

\* W1.12: a daemon that runs holds the lock, and both files are its own, over
\* stops, restarts, kills and starts by several clients at once: no other
\* process takes the socket from it, so that it stays in reach (`take_lock`,
\* `listen`, `main`).
FilesNameDaemon ==
    \A p \in Processes : proc[p] \in {"up", "stopping", "restarting"} =>
        lock = p /\ sock = p /\ pid = p

\* W1.9: a client that started a daemon gets one, its own or the one of another
\* client, if there is no fault: no process that leaves the lock to nobody turns
\* away the process of the client (`connect`, `take_lock`).
StartIsEnough ==
    \A c \in Clients : client[c].at = "poll" /\ c \notin trouble => sock # Nobody \/ Starting # {}

\* W1.9, W1.21: a wait of a session with a watch comes to a daemon that serves
\* it, over stops and restarts of daemons under its connection.
WaitIsServed ==
    \A c \in Sessions :
        (client[c].cmd = "wait" /\ c \in recorded)
            ~> (client[c].at = "served" \/ c \notin recorded \/ c \notin owners \/ c \in trouble)

\* W1.21: with no watch and no client, no daemon stays.
IdleDaemonStops ==
    <>[](recorded = {} /\ \A c \in Clients : client[c].cmd = "none")
        => <>[](\A p \in Processes : proc[p] = "none")

=============================================================================
