CONSTANTS
    None = None
    NoConn = NoConn
    NoMr = n1
    Sessions = {s1}
    Keys = {k1}
    Pids = {p1}
    Mrs = {m1}
    Conns = {c1}
    MaxEvents = 1
    MaxErrors = 1
    MaxReuses = 1
    MaxResets = 1
    MaxCrashes = 1
SPECIFICATION FairSpec
PROPERTIES
    EventArrives
    RestartEnds
