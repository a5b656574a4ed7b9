CONSTANTS
    r1 = r1
    k1 = k1
    k2 = k2
    app = app
    Free = Free
    Repos = {r1}
    Keys = {k1, k2}
    Slugs = {app}
    SlugOf <- OneProject
    RepoOf <- OneRepo
    MaxFails = 1
    MaxStops = 1
SPECIFICATION FairSpec
INVARIANTS
    NoLoopAtExit
    NoPokeForgotten
PROPERTIES
    PokeServed
    PokeTaken
    StopEnds
