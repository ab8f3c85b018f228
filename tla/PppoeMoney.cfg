SPECIFICATION BillingSpec
CONSTANTS
    slow = slow
    fast = fast
    Users = {u1}
    Plans = {slow, fast}
    Price <- TwoPrices
    BoostPrice <- BoostOnFast
    Period = 2
    Graces = {0, 1}
    DefaultGrace = 1
    Amounts = {3}
    InstallFee = 1
    MaxTime = 3
    MaxPayments = 1
    MaxPrompts = 2
    MaxEdits = 1
INVARIANTS MoneyAccounted
PROPERTIES PaidDaysAreKept
CHECK_DEADLOCK FALSE
