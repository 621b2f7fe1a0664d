SPECIFICATION Spec

CONSTANTS
    Users = {u1, u2}
    Owner = u1
    Movers = {}
    Rated = {u1, u2}
    Movies = {m1, m2}
    Choices = {"yes", "no"}
    Workers = {w1, w2}
    RerollCap = 2
    MaxFaults = 0
    NoMovie = NoMovie
    NoRow = NoRow
    m1 = m1
    m2 = m2
    u1 = u1
    u2 = u2
    w1 = w1
    w2 = w2

SYMMETRY Symmetry

INVARIANT UniqueVotes
INVARIANT WinnerWasPutToVote
INVARIANT TimerGuardsSession
INVARIANT NobodyStuck
INVARIANT FinalizedByFullVote
PROPERTY LifecycleSpec

CHECK_DEADLOCK FALSE
