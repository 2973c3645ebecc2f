SPECIFICATION FairSpec
CONSTANTS
    HalfOpen = {"server"}
    WriteSizes = {1}
    EarlyUse = FALSE
    HWM = 1
    Room = 2
    MaxUnits <- MCOneEach
    MaxPauses = 0
    Faults = {"destroy"}
PROPERTIES
    CloseReaches
CHECK_DEADLOCK FALSE
