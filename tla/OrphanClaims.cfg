SPECIFICATION Spec
CONSTANTS
    f = f  g = g  h = h  m = m  o = o  s = s  v = v  a = a   r1 = r1
    None = None
    Name <- Names
    Nfc <- InNfc
    Part <- PartOf
    Skip = {s}
    Root = {r1}
    Mount <- Mounts
    Local <- Locals
    Visible <- Seen
    Session <- Sessions
    Torrent <- Torrents
    Tree <- Contents
    MaxLoaded = 2
    MaxChanges = 2
    MaxErrors = 1
INVARIANTS TypeOK NothingOwned TopMost Complete
CHECK_DEADLOCK FALSE
