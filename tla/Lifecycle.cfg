CONSTANTS
    MaxProcesses = 2
    Sessions = {s}
    Boards = {b}
    MaxFaults = 3
SPECIFICATION FairSpec
INVARIANTS
    FilesNameDaemon
    StartIsEnough
PROPERTIES
    WaitIsServed
    IdleDaemonStops
