SPECIFICATION SimSpec
CONSTANTS
    h1 = h1  h2 = h2  h3 = h3
    File = {1, 2}
    Hash = {h1, h2, h3}
    Addable = {h1, h2}
    Dataset <- SmallDataset
    RecentWindow = 1
    MaxId = 3  MaxNow = 2
    MaxArrivals = 3  MaxWork = 5  MaxPending = 2  MaxOdd = 1
INVARIANTS TorrentsSound DeltaTells
PROPERTY QueueServed
CHECK_DEADLOCK FALSE
