SPECIFICATION FairSpec
CONSTANTS
    b1 = b1
    b2 = b2
    Boards = {b1, b2}
    Styles <- OneOfEach
    Layouts = {"l1", "l2"}
    Choices = {"c1"}
    MaxKits = 2
    MaxMaps = 1
    MaxFaults = 1
INVARIANTS MapIsOfThisRouter
PROPERTIES ImplementsPairing PairingCompletes
CHECK_DEADLOCK FALSE
