SPECIFICATION Spec
CONSTANTS
    Delivery = {d1}
    Event = {e1}
    Job = {j1, j2}
    MAX_ATTEMPTS = 2
    Queue = TRUE
    Workers = 1
    HasId = TRUE
    Ops = {}
    Faults = FALSE
    MaxTries = 4
PROPERTY FailedIsFinal
CHECK_DEADLOCK FALSE
