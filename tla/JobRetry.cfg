CONSTANTS
    Jobs = {a}
    MaxPipelines = 2
    MaxEnds = 1
SPECIFICATION FairSpec
INVARIANTS
    AtMostTwoRetries
    
PROPERTIES
    RetriesEnd
    NewFailureNoticed
