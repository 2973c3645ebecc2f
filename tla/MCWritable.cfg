SPECIFICATION FairSpec
CONSTANTS
    MaxWrites = 3
    MaxEnds = 2
    HWM = 2
    Size <- MCSize
    Outcomes = {"sync", "syncErr", "async", "asyncErr"}
    ConstructOutcomes = {"sync", "async"}
    Cork = FALSE
    Writev = FALSE
    Construct = TRUE
    Destroy = TRUE
INVARIANTS
    TypeOK
    SerialWrites
    FifoDispatch
    CallbackOrder
    FinishLast
PROPERTIES
    ImplementsSink
    DrainFollows
    CallbacksRun
    FinishFollows
    EndCallbacksRun
CHECK_DEADLOCK FALSE
