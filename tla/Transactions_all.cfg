SPECIFICATION Spec
CONSTANTS
    Tx = {t1}
    Req = {r1, r2, r3}
    Ops = {"create", "createTransaction", "update", "updateTransactionStatus", "verify", "record", "recordDirect", "updateEscrow", "cancel", "processRefund"}
    Chain = "on"
    Serial = FALSE
    Faults = TRUE
SYMMETRY RequestPermutations
INVARIANTS CommissionsFollowStatus HistoryTruthful ChainRecordNeedsCompletion RefundNeedsCancellation
CHECK_DEADLOCK FALSE
