SPECIFICATION ListsSpec

CONSTANTS
    Movies = {m1, m2}
    Lists = {l1}
    Views = {v1}
    MaxPicks = 3
    MaxResults = 2
    Attempts = 2
    Day = 2
    MaxFaults = 1
    NoMovie = NoMovie
    NoList = NoList
    m1 = m1
    m2 = m2
    l1 = l1
    v1 = v1

SYMMETRY Symmetry

INVARIANT ListsTypeOK
INVARIANT MetadataAge
INVARIANT ListsAreStored
INVARIANT ListsFollowPicks

CHECK_DEADLOCK FALSE
