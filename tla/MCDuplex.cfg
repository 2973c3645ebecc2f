SPECIFICATION FairSpec
CONSTANTS
    MaxWrites = 3
    MaxEnds = 2
    HWM = 2
    Size <- MCSize
    Uses <- AllUses
INVARIANTS
    SinkOrder
    Conservation
    OutputComplete
PROPERTIES
    DrainFollows
    FinishFollows
CHECK_DEADLOCK FALSE
