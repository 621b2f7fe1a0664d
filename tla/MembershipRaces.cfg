SPECIFICATION Spec

CONSTANTS
    Users = {u1, u2}
    Groups = {g1, g2}
    Codes = {i1, i2}
    Workers = {w1, w2, w3}
    NoUser = NoUser
    NoGroup = NoGroup
    NoCode = NoCode
    g1 = g1
    g2 = g2
    i1 = i1
    i2 = i2
    u1 = u1
    u2 = u2
    w1 = w1
    w2 = w2
    w3 = w3

SYMMETRY Symmetry

INVARIANT OneOwner
INVARIANT CodesUnique
PROPERTY MembershipKept

CHECK_DEADLOCK FALSE
