SPECIFICATION Spec

CONSTANTS
    Tabs = {b1}
    Requests = {r1, r2, r3}
    Tokens = {k1, k2, k3, k4}
    MaxFaults = 1
    MaxLogouts = 1
    NoToken = NoToken
    NoTab = NoTab
    b1 = b1
    k1 = k1
    k2 = k2
    k3 = k3
    k4 = k4
    r1 = r1
    r2 = r2
    r3 = r3

SYMMETRY Symmetry

INVARIANT CookieLives
INVARIANT RefusedOnlyWhenEnded
INVARIANT OneLive
PROPERTY EndedStaysEnded

CHECK_DEADLOCK FALSE
