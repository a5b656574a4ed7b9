CONSTANTS
    Unknown = Unknown
    Readers = {r1}
    Keep = 1
    Faults <- AllFaults
    MaxLines = 3
    MaxBatch = 2
    MaxClock = 3
    MaxFiles = 2
    MaxFaults = 1
    MaxSidebars = 0
SPECIFICATION FairSpec
INVARIANTS
    IdsIncrease
    
PROPERTIES
    KeepsPromise
    LineArrives
