SPECIFICATION PartSpec
CONSTANTS
    Phones = {p1, p2}
    Macs = {m1, m2}
    Kinds = {"phone"}
    ExpiryV2 = FALSE
    MaxTime = 3
    MaxJobs = 4
    Codes = {c1, c2}
    VoucherSeconds = 2
    ExtendBy = 3
    MaxSeconds = 6
    Emails = {ann, ben}
    Workspaces = {1, 2}
    Members = {1}
    Invites = {1, 2}
    Devices = {"phone"}
    MaxChanges = 1
    MaxLinks = 2
    TgBusinesses = {1, 2}
    TgPhones = {"p", "q"}
    TgPayouts = {"x"}
    TgNames = {"n"}
    TgHolds <- Holds
    Texts = {"short", "long"}
    Notes = {"n1", "n2"}
    Segments <- OneAndTwo
    Purchases = {1, 2}
    PackSize = 2
    TrialLimit = 1
    NoteTries = 2
    MaxStops = 1
INVARIANTS RevokedStaysRevoked OneLoginPerEmail InviteAdmitsOne OneTrialPerPerson CreditsAddUp SentOnce
PROPERTIES PaidTimeKept
SYMMETRY Symmetry
CHECK_DEADLOCK FALSE
