SPECIFICATION FairSpec
CONSTANTS
    a = a  b = b
    Client = {c1, c2}
    Kept <- SomeKept
    Unreadable = Unreadable
    None = None
    MaxFaults = 1
INVARIANTS Consistent NoLostKeep
PROPERTIES ImplementsStore EveryKeepAnswered
CHECK_DEADLOCK FALSE
