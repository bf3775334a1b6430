SPECIFICATION FairSpec
CONSTANTS
    Entry = {e1, e2}
    None = None
    MaxScans = 2
    MaxWindows = 2
    MaxDecisions = 2
    MaxFails = 1
INVARIANTS Consistent RowsTrue LastKeyWins
PROPERTIES NoSurprise Settles
CHECK_DEADLOCK FALSE
