SPECIFICATION FairSpec

CONSTANTS
    Users = {u1, u2}
    Owner = u1
    Movers = {u2}
    Rated = {u1, u2}
    Movies = {m1, m2}
    Choices = {"yes", "maybe"}
    Workers = {w1}
    RerollCap = 2
    MaxFaults = 1
    NoMovie = NoMovie
    NoRow = NoRow
    m1 = m1
    m2 = m2
    u1 = u1
    u2 = u2
    w1 = w1

INVARIANT WinnerLeads
PROPERTY SessionEnds

CHECK_DEADLOCK FALSE
