SPECIFICATION LiveSpec
CONSTANTS
    LoginReq = {r1, r2}
    MaxAttempts = 2
    LockoutTicks = 2
    CaptchaAt = 2
    MaxRows = 3
    RateReq = {q1, q2}
    WindowTicks = 2
    Callers = {"free"}
    TierMax <- MCTierMax
    IpMax = 1
    UserIpMax = 1
    EndpointMax = 1
    MaxCount = 2
    Runners = {c1, c2}
    RowIds = {1, 2}
    RowTable <- MCRowTable
    BatchSize = 1
    Sockets = {s1, s2}
    PresenceTtl = 3
    TicketReq = {q1}
    SlaInstances = {i1}
    MailReq = {q1}
    UserMail = {q1}
    MailAttempts = 3
    Providers = {1, 2}
    RpcRuns = {r1, r2}
    MaxFailures = 2
INVARIANTS
    LiveTypeOK
PROPERTIES
    StartedWorkEnds
    TimeLimitsEnd
    SocketsSettle
CHECK_DEADLOCK FALSE
