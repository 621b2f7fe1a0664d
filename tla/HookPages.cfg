SPECIFICATION Spec

CONSTANTS
    Pages = {p1, p2}
    Sessions = {x1, x2}
    Sockets = {s1, s2, s3}
    MaxFaults = 1
    NoSession = NoSession
    NoSocket = NoSocket
    p1 = p1
    p2 = p2
    x1 = x1
    x2 = x2
    s1 = s1
    s2 = s2
    s3 = s3

SYMMETRY Symmetry

INVARIANT NotAbandoned
INVARIANT OneSocket
INVARIANT OwnSession

CHECK_DEADLOCK FALSE
