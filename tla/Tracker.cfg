SPECIFICATION HealthFairSpec
CONSTANTS
    t1 = t1  t2 = t2  h1 = h1  h2 = h2
    Torrent = {t1, t2}
    Host = {h1, h2}
    Uses <- Trackers
    None = None
    DownAfter = 1  ClockEvery = 2
    MaxNow = 2  MaxAnnounces = 3  MaxReloads = 1
INVARIANT OutagesKept
PROPERTY DownShown
CHECK_DEADLOCK FALSE
