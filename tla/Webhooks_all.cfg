SPECIFICATION Spec
CONSTANTS
    Delivery = {d1, d2, d3}
    Event = {e1}
    Job = {j1, j2}
    MAX_ATTEMPTS = 2
    Queue = TRUE
    Workers = 2
    HasId = TRUE
    Ops = {"replay", "update", "remove", "prune"}
    Faults = TRUE
    MaxTries = 3
SYMMETRY Symmetry
INVARIANTS
    SuccessMeansAcknowledged
    AttemptsNotInvented
    RetryingIsSelectable
    KeyStable
CHECK_DEADLOCK FALSE
