SPECIFICATION ToolsSpec
CONSTANTS
    Specs <- HotspotOnly
    Tools = {"reboot", "other"}
    MaxChanges = 2
    MaxLosses = 1
    MaxReboots = 1
    Stubborn = {"interface"}
INVARIANTS KeptOnlyIfConfirmed CanBePutBack
PROPERTIES EveryChangeSettles
CHECK_DEADLOCK FALSE
