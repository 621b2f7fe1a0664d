SPECIFICATION Spec

CONSTANTS
    Tabs = {t1}
    Ids = {i1, i2}
    Calls = {c1, c2}
    NoRow = NoRow
    NoCall = NoCall
    Unknown = Unknown
    t1 = t1
    i1 = i1
    i2 = i2
    c1 = c1
    c2 = c2

SYMMETRY Symmetry

INVARIANT OneItem
INVARIANT TileShowsStored
PROPERTY RemovedStaysAway

CHECK_DEADLOCK FALSE
