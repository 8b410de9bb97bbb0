SPECIFICATION Spec
CONSTANTS
    Pair = {p1, p2, p3}
    Request = {r1}
    MAX_SESSIONS = 2
    Scenarios <- Rotation
INVARIANT RotationIssues
CHECK_DEADLOCK FALSE
