SPECIFICATION Spec
CONSTANTS
    OwnerParts <- Parts
    Kits_ = {"auto", "existing", "new", "port", "pppoe", "fixed"}
    MaxCuts = 3
    PbIds = {1, 2}
    PbWants <- Wants
    PbRuns = {1, 2}
    PbPeriod = 2
    PbTrial = 1
    PbGrace = 1
    PbHorizon = 4
    PbPlans <- Plans
    PySaves = {"first", "second"}
    PyIds = {1, 2, 3}
    PyMaxADay = 2
    Phones = {p}
    Macs = {m1, m2}
    Tv = tv
    Pushes = {1}
    Codes = {c}
    Receipts = {r}
    Length = 2
    MaxNow = 4
    MaxJobs = 2
    MaxGifts = 2
    Faults = {"crash", "loss", "reset", "fresh", "repeat", "rebuild", "overrun"}
    MaxEvents = 2
INVARIANTS  PaidDaysAreGiven OneTumaAccount GivenOnce PaidTimeUsable
PROPERTIES PlatformPaymentActivates EntitledGetsAccountBack
CHECK_DEADLOCK FALSE
