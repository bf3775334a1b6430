SPECIFICATION Spec
CONSTANTS
    a = a  t1 = t1  t2 = t2   p1 = p1  p2 = p2  d1 = d1  d2 = d2
    Place = {p1, p2}
    Req = {r1, r2}
    NotLoaded = NotLoaded  None = None  Unreadable = Unreadable
    Torrent = {t1}  Item = {a}  Piece = {x, y}  Dirs = {d1, d2}
    Layout <- SmallLayout
    Whole <- SmallWhole
    Structural <- SmallStructural
    MaxId = 2  MaxScans = 2  MaxChanges = 2
INVARIANTS
    Consistent ResultPinned CacheSound UnlinkJustified DeletedOnce
SYMMETRY Symmetric
CHECK_DEADLOCK FALSE
