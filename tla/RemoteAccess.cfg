SPECIFICATION RemoteSpec
CONSTANTS
    Sites_ <- TwoSites
    Addresses <- TwoAddresses
    MaxKeys = 2
    Budgets <- AllBudgets
CHECK_DEADLOCK FALSE
INVARIANT OneTunnelPerSite
PROPERTIES
    RequestedGetsTunnel
    UnwantedPeerLeavesGateway
