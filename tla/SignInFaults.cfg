SPECIFICATION TabSpec

CONSTANTS
    Users = {u1, u2}
    Calls = {c1, c2}
    Hooks = {nav}
    MaxFamilies = 3
    MaxFaults = 1
    Nobody = Nobody
    u1 = u1
    u2 = u2
    c1 = c1
    c2 = c2
    nav = nav

SYMMETRY Symmetry

INVARIANT UserMatchesToken
INVARIANT StaysSignedOut
INVARIANT GoodCookieSignsIn

CHECK_DEADLOCK FALSE
