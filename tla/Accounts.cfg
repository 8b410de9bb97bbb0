SPECIFICATION AccountsSpec
CONSTANTS
    User = {u1}
    Linked = {}
    DeletionReq = {r1, r2}
    Job = {j1, j2}
    Ops = {"request", "cancel", "deactivate", "hold", "remove"}
    MaxRequests = 2
    LoginReq = {r1, r2}
    MaxAttempts = 3
    LockoutTicks = 2
    CaptchaAt = 2
    MaxRows = 4
    PwReq = {r1, r2}
    PasswordSet = {p1, p2, p3}
    HistoryLimit = 2
    ResetIds = {t1, t2, t3}
    EmailReq = {r1, r2}
    Addresses = {a, b}
    MaxTokens = 3
    FactorReq = {r1, r2}
    Devices = {d1}
    MaxGen = 2
    KeyIds = {k1, k2}
    KeyCalls = {c1, c2, c3}
    Quota = 2
    MaxUse = 5
    Detectors = {d1, d2}
    AlertIds = {a1}
    UserReq = {r1, r2}
    UserRoles = {"USER", "AGENT"}
    JobIds = {j1, j2}
    Cleaners = {c1, c2}
INVARIANTS
    AccountsTypeOK
    NeverDeletedEarly
    DateNeedsDeactivation
    LimitsHold
    CredentialsSafe
    AlertsConsistent
    AccountRecordsAgree
PROPERTIES
    ChangedEmailProved
SYMMETRY RequestSymmetry
CHECK_DEADLOCK FALSE
