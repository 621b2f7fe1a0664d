SPECIFICATION FairSpec

CONSTANTS
    Clients = {c1}
    Requests = {r1}
    Movies = {m1, m2}
    MaxRerolls = 1
    Flaky = {c1}
    Offline = {c1}
    MaxDrops = 1
    Timeout = TRUE
    NoMovie = NoMovie
    Clock = Clock
    c1 = c1
    r1 = r1
    m1 = m1
    m2 = m2

INVARIANT ClosedScreens
INVARIANT PresentSeeWinner
PROPERTY BroadcastsEnd

CHECK_DEADLOCK FALSE
