\* Two requests at a time, one admin, one renter, three refresh tokens.
SPECIFICATION Spec
CONSTANTS
    Admins = {a1}
    Renters = {r1}
    Tokens = {t1, t2, t3}
    Requests = {q1, q2}
    AccessTtl = 1
    RefreshTtl = 2
    LastTick = 3
    None = None
SYMMETRY Symmetry
INVARIANTS
    TypeOK
    RotationAddsUp
    RunsOut
PROPERTIES
    ClosedForGood
    ChainsSpec
