SPECIFICATION FairSpec
CONSTANTS
    Id = {i1}
    Slot = {s1, s2}
    FullEvery = 2
    SessionEvery = 2
    None = None
    MaxNow = 2
    MaxFails = 1
INVARIANTS Consistent RefreshServed
PROPERTIES RefreshComes Converges
