SPECIFICATION Spec
CONSTANTS
    t1 = t1
    t2 = t2
    Phones = {p1, p2}
    Macs = {m1, m2}
    Kinds = {"phone"}
    ExpiryV2 = FALSE
    MaxTime = 1
    MaxJobs = 1
    Checkouts = {t1, t2}
    Rails <- DarajaAndAny
    Seconds = 1
    SlowAnswers = FALSE
    MaxCrashes = 0
SYMMETRY Symmetry
INVARIANTS GrantIsForPayer
PROPERTIES PaidStays FirstDeviceKeepsPayment LivePackageKeepsDevice ImplementsSale
CHECK_DEADLOCK FALSE
