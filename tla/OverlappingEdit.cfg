SPECIFICATION Spec
CONSTANTS
    slow = slow
    fast = fast
    Users = {u1}
    Plans = {slow, fast}
    Price <- TwoPrices
    BoostPrice <- BoostOnFast
    Period = 2
    Graces = {1}
    DefaultGrace = 1
    Amounts = {3}
    InstallFee = 1
    MaxTime = 3
    MaxPayments = 0
    MaxPrompts = 1
    MaxEdits = 2
    ExpiredPage = TRUE
    Overlap = TRUE
    Refusable = {}
    MaxAttempts = 2
    MaxLosses = 0
INVARIANTS RouterFollowsServer
CHECK_DEADLOCK FALSE
