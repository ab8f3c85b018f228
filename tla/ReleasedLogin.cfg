SPECIFICATION FairRQSpec
CONSTANTS
    Phones = {p1, p2}
    Macs = {m1}
    Kinds = {"phone"}
    ExpiryV2 = FALSE
    MaxTime = 1
    MaxJobs = 2
    Codes = {c1, c2}
    VoucherSeconds = 1
    ExtendBy = 1
    MaxSeconds = 1
    QueueLimit = 2
    MaxFaults = 0
PROPERTIES EndedLeavesRouter
CHECK_DEADLOCK FALSE
