SPECIFICATION Spec
CONSTANTS
    Id = {1, 2}
    Label = {"x", "y"}
    Day = {"mo", "tu"}
    Dir <- Dirs
    Base <- Home
    Url = {u1}
    Token = {s1, s2}
    Start <- Torrents
    Condition <- Befalls
    Search <- Searches
    Adv <- Advs
    Sorts = {"name", "size", "path", "state"}
    Script <- Scripts
    MaxOther = 1  MaxWrites = 2  MaxWindows = 2
    Nothing = Nothing
INVARIANTS Consistent AddOnce TransportsKept
PROPERTY LabelsAsToggled
CHECK_DEADLOCK FALSE
