SPECIFICATION FairSpec
CONSTANTS
    a = a  t1 = t1  t2 = t2   p1 = p1  p2 = p2  d1 = d1  d2 = d2
    Place = {p1, p2}
    Req = {r1}
    NotLoaded = NotLoaded  None = None  Unreadable = Unreadable
    Torrent = {t1, t2}  Item = {a}  Piece = {x}  Dirs = {d1}
    Layout <- WideLayout
    Whole <- WideWhole
    Structural <- WideStructural
    MaxId = 2  MaxScans = 1  MaxChanges = 1
INVARIANT OfferedAfterWalk
PROPERTY EveryRequestEnds
CHECK_DEADLOCK FALSE
