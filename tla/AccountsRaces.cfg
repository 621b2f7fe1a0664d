SPECIFICATION Spec

CONSTANTS
    Emails = {e1, e2}
    GoogleIds = {g1, g2}
    Accounts = {a1, a2, a3}
    Flows = {f1, f2, f3}
    Registrations = {r1, r2}
    MaxMoves = 1
    None = None
    Incomplete = Incomplete
    e1 = e1
    e2 = e2
    g1 = g1
    g2 = g2
    a1 = a1
    a2 = a2
    a3 = a3
    f1 = f1
    f2 = f2
    f3 = f3
    r1 = r1
    r2 = r2

SYMMETRY Symmetry

INVARIANT VerifierFits
PROPERTY SameAccount
PROPERTY Identities

CHECK_DEADLOCK FALSE
