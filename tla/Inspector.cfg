SPECIFICATION FairSpec
CONSTANTS
    t1 = t1  t2 = t2  s1 = s1  s2 = s2  files = files  overview = overview
    Id = {t1, t2}
    Magnet = {t2}
    First = {t1}
    Tab = {overview, files}
    Overview = overview
    Slot = {s1, s2}
    None = None  Failed = Failed
    FullEvery = 2
    MaxNow = 1  MaxClicks = 2  MaxFails = 1
INVARIANT Consistent
PROPERTY DetailSettles
CHECK_DEADLOCK FALSE
