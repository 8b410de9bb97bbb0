SPECIFICATION Spec
CONSTANTS
    Tx = {t1}
    Req = {r1, r2}
    Ops = {"updateTransactionStatus"}
    Chain = "on"
    Serial = FALSE
    Faults = FALSE
PROPERTY LifecycleEnforced
CHECK_DEADLOCK FALSE
