SPECIFICATION FairSpec
CONSTANTS
    t1 = t1
    t2 = t2
    Phones = {p1}
    Macs = {m1}
    Kinds = {"phone", "tv"}
    ExpiryV2 = FALSE
    MaxTime = 0
    MaxJobs = 2
    Checkouts = {t1, t2}
    Rails <- PromptAndPayBill
    Seconds = 1
    SlowAnswers = FALSE
    MaxCrashes = 1
INVARIANTS TimeMatchesSales
PROPERTIES LostCallbackRecovered PaidIsSwitchedOn
CHECK_DEADLOCK FALSE
