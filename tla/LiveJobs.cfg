SPECIFICATION JobsSpec
CONSTANTS
    ListReq = {q1}
PROPERTIES
    Settles
    DeletionHappens
    OverdueListingsExpire
CHECK_DEADLOCK FALSE
