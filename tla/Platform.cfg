SPECIFICATION PlatformSpec
CONSTANTS
    Envs = {"dev", "test"}
    MaxSeeds = 2
    Sockets = {s1, s2}
    PresenceTtl = 3
    BkJobs = {j1, j2}
    MaxBackups = 2
    Retention = 1
    MaxAttempts = 2
    Updates = {u1, u2, u3}
    Archivers = {a1, a2}
    Records = {1, 2}
    RecordTable <- MCRecordTable
    ArBatchSize = 1
    MaxRestores = 1
    MaxSeconds = 2
    Notes = {n1, n2}
    RemindReq = {q1, q2}
    Milestones = {m1, m2}
    MaxReminders = 2
    TourInstances = {i1, i2}
    TourAt <- MCTourAt
    LastTick = 16
    DayLead = 8
    TicketReq = {q1, q2}
    SlaInstances = {i1}
    MailReq = {q1, q2}
    UserMail = {q1}
    MailAttempts = 3
INVARIANTS
    PlatformTypeOK
    RequestsGuarded
    DeliveriesExplained
    CopiesKept
    RemindersSafe
PROPERTIES
    SeedingSafe
CHECK_DEADLOCK FALSE
