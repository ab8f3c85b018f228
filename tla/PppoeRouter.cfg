SPECIFICATION PartSpec
CONSTANTS
    slow = slow
    fast = fast
    Users = {u1}
    Plans = {slow, fast}
    Price <- TwoPrices
    BoostPrice <- BoostOnFast
    Period = 2
    Graces = {1}
    DefaultGrace = 1
    Amounts = {3}
    InstallFee = 1
    MaxTime = 3
    MaxPayments = 0
    MaxPrompts = 1
    MaxEdits = 1
    ExpiredPage = TRUE
    Overlap = FALSE
    Refusable = {"upsert"}
    MaxAttempts = 2
    MaxLosses = 1
    Sessions = {"s1", "s2"}
    Transports <- OneOfEach
    MaxEvents = 1
INVARIANTS RouterFollowsServer
PROPERTIES LapsedIsCut EndsGoTogether
CHECK_DEADLOCK FALSE
