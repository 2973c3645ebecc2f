SPECIFICATION Spec
CONSTANTS
    HalfOpen = {"client"}
    WriteSizes = {1}
    EarlyUse = TRUE
    HWM = 2
    Room = 2
    MaxUnits <- MCUnits
    MaxPauses = 1
    Faults = {"reset", "destroy"}
INVARIANTS
    OneRead
    Transfer
    EndIsLast
    EndReaches
CHECK_DEADLOCK FALSE
