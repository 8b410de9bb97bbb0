SPECIFICATION ListingsSpec
CONSTANTS
    Tx = {t1}
    Req = {r1, r2, r3, r4}
    Ops = {"create", "createTransaction", "updateTransactionStatus", "record", "recordDirect", "updateEscrow"}
    Chain = "unconfigured"
    Serial = TRUE
    Faults = FALSE
    ListReq = {q1, q2}
    ViewReq = {q1, q2}
    Instances = {i1, i2}
    EditReq = {q1, q2}
    Homes = {h1, h2}
    Addresses = {a1, a2}
    GeocodeMax = 1
    PriceReq = {q1, q2}
    Prices = {0, 1, 2}
    RowMax = 3
    StampMax = 3
    PageLimit = 1
    ImageReq = {q1, q2}
    ImageIds = {1, 2}
    MaxImages = 2
    MaxBatch = 2
    MaxOrder = 1
    DocReq = {q1, q2}
    Signers = {"ann", "bob"}
    MaxFiles = 3
INVARIANTS
    QuietRecordsAgree
    ListingsTypeOK
    CachedViewsExplained
    PropertyRecordsAgree
    WalksComplete
PROPERTIES
    LifecycleEnforced
    ListingFollowsWorkflow
    DocumentFollowsWorkflow
SYMMETRY RequestSymmetry
CHECK_DEADLOCK FALSE
