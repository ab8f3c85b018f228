SPECIFICATION FairRQSpec
CONSTANTS
    Phones = {p1}
    Macs = {m1, m2}
    Kinds = {"phone"}
    ExpiryV2 = FALSE
    MaxTime = 2
    MaxJobs = 2
    Codes = {c1, c2}
    VoucherSeconds = 1
    ExtendBy = 1
    MaxSeconds = 2
    QueueLimit = 1
    MaxFaults = 1
INVARIANTS AckedIsDone
PROPERTIES CeilingNeverDrops LiveReachesRouter EndedLeavesRouter
CHECK_DEADLOCK FALSE
