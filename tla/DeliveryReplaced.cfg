CONSTANTS
    None = None
    NoConn = NoConn
    NoMr = n1
    Sessions = {s1, s2}
    Keys = {k1}
    Pids = {p1}
    Mrs = {m1}
    Conns = {c1}
    MaxEvents = 0
    MaxErrors = 0
    MaxReuses = 0
    MaxResets = 0
    MaxCrashes = 0
SPECIFICATION Spec
SYMMETRY Symmetric
INVARIANTS
    ReplacedIsOver
