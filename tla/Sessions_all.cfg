SPECIFICATION Spec
CONSTANTS
    Pair = {p1, p2}
    Request = {r1, r2}
    MAX_SESSIONS = 2
    Scenarios <- Safety
SYMMETRY Symmetry
INVARIANTS
    GivenUpStaysRefused
    RevokeAllCovers
    SessionLimit
CHECK_DEADLOCK FALSE
