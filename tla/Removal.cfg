SPECIFICATION FairSpec
CONSTANTS
    Id = {i1, i2}
    None = None
    MaxRuns = 2
    MaxFails = 1
INVARIANTS Consistent TallyTrue
PROPERTIES StopHolds Settles
CHECK_DEADLOCK FALSE
