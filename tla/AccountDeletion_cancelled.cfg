SPECIFICATION Spec
CONSTANTS
    User = {u1}
    Linked = {}
    DeletionReq = {r1}
    Job = {j1}
    Ops = {"request", "cancel"}
    MaxRequests = 2
INVARIANTS
    CancelledIsKept
CHECK_DEADLOCK FALSE
