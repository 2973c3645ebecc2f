SPECIFICATION FairSpec
CONSTANTS
    ChunkSize = 2
    MaxTicks = 8
INVARIANTS
    OneDrainer
    CallOrder
    Responsive
PROPERTIES
    AllRun
CHECK_DEADLOCK FALSE
