SPECIFICATION FairSpec
CONSTANTS
    MaxChunks = 3
    MaxAsked = 2
    MaxTicks = 3
    HWM = 2
    Uses <- LiveUses
INVARIANTS
    OneReadAtATime
PROPERTIES
    FlowReachesEnd
    ReadableFollows
CHECK_DEADLOCK FALSE
