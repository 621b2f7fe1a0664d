SPECIFICATION Spec

CONSTANTS
    Clients = {c1, c2}
    Requests = {r1, r2}
    Movies = {m1, m2}
    MaxRerolls = 0
    Flaky = {c2}
    Offline = {}
    MaxDrops = 1
    Timeout = FALSE
    NoMovie = NoMovie
    Clock = Clock
    c1 = c1
    c2 = c2
    r1 = r1
    r2 = r2
    m1 = m1
    m2 = m2

SYMMETRY Symmetry

INVARIANT NoPhantoms
INVARIANT PresentSeeWinner

CHECK_DEADLOCK FALSE
