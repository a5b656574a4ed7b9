-------------------------- MODULE LifecycleProofs ---------------------------
(* The safety properties of Lifecycle, for any number of processes, sessions *)
(* and boards: the files of a daemon that runs are its own, and a client     *)
(* that starts one is not turned away.                                       *)
EXTENDS Lifecycle, TLAPS

States == {"none", "begin", "locked", "up", "stopping", "restarting", "left"}

Command == [cmd : {"none", "watch", "unsubscribe", "report", "wait", "board"},
            at : {"none", "connect", "poll", "sent", "served"},
            conn : Processes \union {Nobody}, start : BOOLEAN]

TypeOK ==
    /\ proc \in [Processes -> States]
    /\ lock \in Processes \union {Nobody}
    /\ sock \in Processes \union {Nobody}
    /\ client \in [Clients -> Command]

\* Who is in these states is the holder of the lock, so there is one.
Holding == {"locked", "up", "stopping", "restarting"}
LockIsHeld == \A p \in Processes : proc[p] \in Holding <=> lock = p

\* While a client waits for its daemon with no fault, the socket is that of a
\* daemon that goes on, or nobody has it and a daemon is on its way.
OneComes ==
    \A c \in Clients : client[c].at = "poll" /\ c \notin trouble =>
        \/ sock \in Processes /\ proc[sock] = "up"
        \/ sock = Nobody /\ Starting # {}

IInv == TypeOK /\ LockIsHeld /\ FilesNameDaemon /\ OneComes

-----------------------------------------------------------------------------

LEMMA NobodyIsNoProcess == Nobody \notin Processes
BY LifecycleAssumption DEF Nobody, Processes

LEMMA InitIInv == Init => IInv
<1>. SUFFICES ASSUME Init PROVE IInv
    OBVIOUS
<1>1. TypeOK
    BY DEF Init, TypeOK, States, Command, NoCommand, Nobody
<1>2. LockIsHeld
    BY NobodyIsNoProcess DEF Init, LockIsHeld, Holding
<1>3. FilesNameDaemon
    BY DEF Init, FilesNameDaemon
<1>4. OneComes
    BY DEF Init, OneComes, NoCommand
<1>. QED
    BY <1>1, <1>2, <1>3, <1>4 DEF IInv

-----------------------------------------------------------------------------
(* Types *)

\* What the end of a connection makes of a command.
LEMMA BreakTypes ==
    ASSUME TypeOK, NEW p \in Processes, Break(p)
    PROVE  /\ client' \in [Clients -> Command]
           /\ \A c \in Clients : client'[c].at = "poll" => client[c].at = "poll"
<1>1. \A c \in Clients : AfterBreak(c) \in Command /\ AfterBreak(c).at # "poll"
    BY DEF TypeOK, AfterBreak, Command, NoCommand
<1>. QED
    BY <1>1 DEF TypeOK, Break

\* A command of one client that goes on to a state that is not the wait for a
\* daemon.
LEMMA BecomesTypes ==
    ASSUME TypeOK, NEW c \in Clients, NEW new \in Command, Becomes(c, new)
    PROVE  /\ client' \in [Clients -> Command]
           /\ client'[c] = new
           /\ \A d \in Clients \ {c} : client'[d] = client[d]
BY DEF TypeOK, Becomes

LEMMA NoCommandType == NoCommand \in Command /\ NoCommand.at = "none"
BY DEF NoCommand, Command, Nobody

\* A step of a client leaves each other client alone, and only the start of a
\* daemon leaves it waiting for one.
LEMMA ClientTypes ==
    ASSUME TypeOK, NEW c \in Clients,
           \/ Run(c) \/ ClientStep(c)
           \/ \E p \in Processes : Answer(p, c)
           \/ c \in Boards /\ BoardCloses(c)
    PROVE  /\ client' \in [Clients -> Command]
           /\ proc' \in [Processes -> States]
           /\ UNCHANGED <<lock, sock, pid>>
           /\ \A d \in Clients \ {c} : client'[d] = client[d]
           /\ \A d \in Clients \ {c} : d \in trouble' <=> d \in trouble
           /\ proc' # proc =>
                sock = Nobody /\ \E p \in Processes : proc[p] = "none" /\ proc' = [proc EXCEPT ![p] = "begin"]
           /\ client'[c].at = "poll" => sock = Nobody /\ \E p \in Processes : proc'[p] = "begin"
<1>. USE NoCommandType
<1>1. CASE Run(c)
  <2>1. PICK cmd \in (IF c \in Boards THEN {"board"} ELSE Commands) :
            Becomes(c, [cmd |-> cmd, at |-> "connect", conn |-> Nobody,
                        start |-> cmd = "wait" => c \in known])
    BY <1>1 DEF Run
  <2>. DEFINE new == [cmd |-> cmd, at |-> "connect", conn |-> Nobody,
                      start |-> cmd = "wait" => c \in known]
  <2>2. new \in Command
    BY DEF Command, Commands, Asks
  <2>3. Becomes(c, new)
    BY <2>1
  <2>4. new.at = "connect"
    OBVIOUS
  <2>. HIDE DEF new
  <2>. QED
    BY <1>1, <2>2, <2>3, <2>4, BecomesTypes DEF Run, daemon, TypeOK
<1>2. CASE Connect(c)
  <2>1. CASE Sent(c) /\ UNCHANGED daemon
    <3>. DEFINE new == [client[c] EXCEPT !.at = "sent", !.conn = sock]
    <3>1. new \in Command /\ new.at = "sent"
      BY DEF TypeOK, Command
    <3>2. Becomes(c, new) /\ trouble' = trouble \ {c}
      BY <2>1 DEF Sent
    <3>. HIDE DEF new
    <3>. QED
      BY <2>1, <3>1, <3>2, BecomesTypes DEF daemon, TypeOK
  <2>2. CASE Ends(c) /\ UNCHANGED <<daemon, trouble>>
    BY <2>2, BecomesTypes DEF Ends, daemon, TypeOK
  <2>3. CASE /\ sock = Nobody
             /\ \E p \in Processes : proc[p] = "none" /\ proc' = [proc EXCEPT ![p] = "begin"]
             /\ Becomes(c, [client[c] EXCEPT !.at = "poll"])
             /\ trouble' = trouble \ {c}
             /\ UNCHANGED <<lock, sock, pid, followers>>
    <3>1. [client[c] EXCEPT !.at = "poll"] \in Command
      BY DEF TypeOK, Command
    <3>2. PICK p \in Processes : proc[p] = "none" /\ proc' = [proc EXCEPT ![p] = "begin"]
      BY <2>3
    <3>3. proc' \in [Processes -> States] /\ proc'[p] = "begin"
      BY <3>2 DEF TypeOK, States
    <3>. QED
      BY <2>3, <3>1, <3>2, <3>3, BecomesTypes DEF TypeOK
  <2>. QED
    BY <1>2, <2>1, <2>2, <2>3 DEF Connect
<1>3. CASE Poll(c)
  <2>1. [client[c] EXCEPT !.at = "sent", !.conn = sock] \in Command
    BY DEF TypeOK, Command
  <2>. QED
    BY ZenonT(60), <1>3, <2>1, BecomesTypes DEF Poll, Sent, daemon, TypeOK, Command
<1>4. CASE GivesUp(c) \/ SeesOwnerGone(c) \/ (c \in Boards /\ BoardCloses(c))
  BY <1>4, BecomesTypes DEF GivesUp, SeesOwnerGone, BoardCloses, Ends, daemon, TypeOK
<1>5. CASE \E p \in Processes : Handle(p, c)
  <2>1. PICK p \in Processes : Handle(p, c)
    BY <1>5
  <2>2. [client[c] EXCEPT !.at = "served"] \in Command
    BY DEF TypeOK, Command
  <2>3. UNCHANGED <<proc, lock, sock, pid, trouble>>
    BY <2>1 DEF Handle, Handles, Watch, Unsubscribe, Report, Wait, Follow
  <2>4. Becomes(c, NoCommand) \/ Becomes(c, [client[c] EXCEPT !.at = "served"])
    BY <2>1 DEF Handle, Watch, Unsubscribe, Report, Wait, Follow, Ends
  <2>. QED
    BY <2>2, <2>3, <2>4, BecomesTypes DEF TypeOK, Command
<1>6. CASE \E p \in Processes : Answer(p, c)
  BY <1>6, BecomesTypes DEF Answer, Ends, daemon, TypeOK
<1>. QED
  BY <1>1, <1>2, <1>3, <1>4, <1>5, <1>6 DEF ClientStep

\* The environment and the ticks leave the daemon and the commands alone.
LEMMA OthersTypes ==
    ASSUME TypeOK,
           \/ \E c \in Sessions : OwnerEnds(c)
           \/ FollowerGone
           \/ \E p \in Processes : EndSessions(p)
           \/ UNCHANGED vars
    PROVE  UNCHANGED <<proc, lock, sock, pid, client, trouble>>
BY DEF OwnerEnds, FollowerGone, EndSessions, vars, daemon

\* A step of a process leaves each other process alone, and no command begins
\* to wait for a daemon.
LEMMA ProcessTypes ==
    ASSUME TypeOK, NEW p \in Processes,
           ProcessStep(p) \/ Signal(p) \/ RestartFails(p) \/ Killed(p)
    PROVE  /\ TypeOK'
           /\ \A q \in Processes \ {p} : proc'[q] = proc[q]
           /\ \A c \in Clients : client'[c].at = "poll" => client[c].at = "poll"
           /\ trouble \subseteq trouble'
<1>. USE DEF Moves, TypeOK, States
<1>1. CASE TakeLock(p)
  BY <1>1 DEF TakeLock
<1>2. CASE Listen(p)
  BY <1>2 DEF Listen
<1>3. CASE IdleStop(p)
  BY <1>3 DEF IdleStop, InTrouble
<1>4. CASE Leave(p)
  BY <1>4 DEF Leave
<1>5. CASE Restart(p)
  BY <1>5, BreakTypes DEF Restart
<1>6. CASE Exit(p)
  BY <1>6, BreakTypes DEF Exit, Dies
<1>7. CASE Signal(p)
  BY <1>7 DEF Signal, Fault, InTrouble
<1>8. CASE RestartFails(p)
  BY <1>8 DEF RestartFails, Fault, InTrouble
<1>9. CASE Killed(p)
  BY <1>9, BreakTypes DEF Killed, Dies, Fault, InTrouble
<1>. QED
  BY <1>1, <1>2, <1>3, <1>4, <1>5, <1>6, <1>7, <1>8, <1>9 DEF ProcessStep

-----------------------------------------------------------------------------
(* The lock and the files *)

\* Only the holder of the lock writes the files and gives them up: no step of
\* another process touches the files of a daemon that runs.
LEMMA ProcessFiles ==
    ASSUME TypeOK, LockIsHeld, FilesNameDaemon, NEW p \in Processes,
           ProcessStep(p) \/ Signal(p) \/ RestartFails(p) \/ Killed(p)
    PROVE  (LockIsHeld /\ FilesNameDaemon)'
<1>. USE NobodyIsNoProcess DEF LockIsHeld, FilesNameDaemon, Holding, Moves, TypeOK, States
<1>1. CASE TakeLock(p)
  BY <1>1 DEF TakeLock
<1>2. CASE Listen(p)
  BY <1>2 DEF Listen
<1>3. CASE IdleStop(p)
  BY <1>3 DEF IdleStop
<1>4. CASE Leave(p)
  BY <1>4 DEF Leave
<1>5. CASE Restart(p)
  BY <1>5 DEF Restart
<1>6. CASE Exit(p)
  BY <1>6 DEF Exit, Dies
<1>7. CASE Signal(p)
  BY <1>7 DEF Signal
<1>8. CASE RestartFails(p)
  BY <1>8 DEF RestartFails
<1>9. CASE Killed(p)
  BY <1>9 DEF Killed, Dies
<1>. QED
  BY <1>1, <1>2, <1>3, <1>4, <1>5, <1>6, <1>7, <1>8, <1>9 DEF ProcessStep

-----------------------------------------------------------------------------
(* A client that waits for its daemon *)

\* A process that turns away leaves the lock to one that starts or serves, and
\* one that stops in another way had the socket, or troubles the clients.
LEMMA ProcessOneComes ==
    ASSUME IInv, NEW p \in Processes,
           ProcessStep(p) \/ Signal(p) \/ RestartFails(p) \/ Killed(p)
    PROVE  OneComes'
<1>. SUFFICES ASSUME NEW c \in Clients, client'[c].at = "poll", c \notin trouble'
              PROVE  \/ sock' \in Processes /\ proc'[sock'] = "up"
                     \/ sock' = Nobody /\ Starting' # {}
    BY DEF OneComes
<1>0. client[c].at = "poll" /\ c \notin trouble
    BY ProcessTypes DEF IInv
<1>a. \/ sock \in Processes /\ proc[sock] = "up"
      \/ sock = Nobody /\ Starting # {}
    BY <1>0 DEF IInv, OneComes
<1>. USE NobodyIsNoProcess DEF IInv, TypeOK, States, LockIsHeld, FilesNameDaemon, Holding,
             Moves, Starting
<1>1. CASE TakeLock(p)
  BY <1>1, <1>a DEF TakeLock
<1>2. CASE Listen(p)
  BY <1>2, <1>a DEF Listen
<1>3. CASE IdleStop(p) \/ Signal(p) \/ RestartFails(p) \/ Killed(p)
  BY <1>3, <1>0 DEF IdleStop, Signal, RestartFails, Killed, Fault, InTrouble
<1>4. CASE Leave(p)
  BY <1>4, <1>a DEF Leave
<1>5. CASE Restart(p)
  BY <1>5, <1>a DEF Restart
<1>6. CASE Exit(p)
  BY <1>6, <1>a DEF Exit, Dies
<1>. QED
  BY <1>1, <1>2, <1>3, <1>4, <1>5, <1>6 DEF ProcessStep

-----------------------------------------------------------------------------
(* The theorems *)

LEMMA ClientKeeps ==
    ASSUME IInv, NEW c \in Clients,
           \/ Run(c) \/ ClientStep(c)
           \/ \E p \in Processes : Answer(p, c)
           \/ c \in Boards /\ BoardCloses(c)
    PROVE  IInv'
<1>1. TypeOK'
  BY ClientTypes DEF IInv, TypeOK
<1>2. \A p \in Processes : proc'[p] = proc[p] \/ (proc[p] = "none" /\ proc'[p] = "begin")
  BY ClientTypes DEF IInv, TypeOK
<1>3. (LockIsHeld /\ FilesNameDaemon)'
  BY <1>2, ClientTypes DEF IInv, LockIsHeld, FilesNameDaemon, Holding
<1>4. OneComes'
  <2>. SUFFICES ASSUME NEW d \in Clients, client'[d].at = "poll", d \notin trouble'
                PROVE  \/ sock' \in Processes /\ proc'[sock'] = "up"
                       \/ sock' = Nobody /\ Starting' # {}
    BY DEF OneComes
  <2>1. CASE d = c
    BY <2>1, ClientTypes DEF IInv, Starting
  <2>2. CASE d # c
    <3>1. client[d].at = "poll" /\ d \notin trouble /\ sock' = sock
      BY <2>2, ClientTypes DEF IInv
    <3>2. \/ sock \in Processes /\ proc[sock] = "up"
          \/ sock = Nobody /\ Starting # {}
      BY <3>1 DEF IInv, OneComes
    <3>. QED
      BY <1>2, <3>1, <3>2 DEF Starting
  <2>. QED
    BY <2>1, <2>2
<1>. QED
  BY <1>1, <1>3, <1>4 DEF IInv

LEMMA NextIInv == IInv /\ [Next]_vars => IInv'
<1>. SUFFICES ASSUME IInv, [Next]_vars PROVE IInv'
    OBVIOUS
<1>1. ASSUME NEW c \in Clients,
             Run(c) \/ ClientStep(c) \/ \E p \in Processes : Answer(p, c)
      PROVE  IInv'
  BY <1>1, ClientKeeps
<1>2. ASSUME NEW c \in Boards, BoardCloses(c) PROVE IInv'
  BY <1>2, ClientKeeps DEF Clients
<1>3. CASE \/ \E c \in Sessions : OwnerEnds(c)
           \/ FollowerGone
           \/ \E p \in Processes : EndSessions(p)
           \/ UNCHANGED vars
  <2>1. UNCHANGED <<proc, lock, sock, pid, client, trouble>>
    BY <1>3, OthersTypes DEF IInv
  <2>. QED
    BY <2>1 DEF IInv, TypeOK, LockIsHeld, FilesNameDaemon, OneComes, Starting
<1>4. ASSUME NEW p \in Processes,
             ProcessStep(p) \/ Signal(p) \/ RestartFails(p) \/ Killed(p)
      PROVE  IInv'
  <2>1. TypeOK'
    BY <1>4, ProcessTypes DEF IInv
  <2>2. (LockIsHeld /\ FilesNameDaemon)'
    BY <1>4, ProcessFiles DEF IInv
  <2>3. OneComes'
    BY <1>4, ProcessOneComes
  <2>. QED
    BY <2>1, <2>2, <2>3 DEF IInv
<1>. QED
  BY <1>1, <1>2, <1>3, <1>4 DEF Next

\* The invariant holds in each state.
LEMMA Invariant == Spec => []IInv
BY InitIInv, NextIInv, PTL DEF Spec

\* W1.12: a daemon that runs holds the lock, the socket and the pid file, however
\* many clients start a daemon and however the processes end (`take_lock`,
\* `listen`, `main`).
THEOREM FilesAreOfDaemon == Spec => []FilesNameDaemon
<1>1. IInv => FilesNameDaemon
  BY DEF IInv
<1>. QED
  BY <1>1, Invariant, PTL

\* W1.9: a client that started a daemon and met no fault gets one: a process that
\* the lock turned away is turned away for a daemon that comes (`connect`,
\* `take_lock`).
THEOREM StartsAreEnough == Spec => []StartIsEnough
<1>1. IInv => StartIsEnough
  BY NobodyIsNoProcess DEF IInv, OneComes, StartIsEnough
<1>. QED
  BY <1>1, Invariant, PTL
=============================================================================
