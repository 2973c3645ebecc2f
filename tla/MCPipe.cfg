SPECIFICATION PipeFairSpec
CONSTANTS
    MaxChunks = 4
    MaxAsked = 1
    HWM = 2
    Uses <- Sources
    WHWM = 2
    WOutcomes = {"sync", "async", "asyncErr"}
    WDestroy = TRUE
PROPERTIES PipeCompletes
INVARIANTS
    Backpressure
    FinishAfterAll
CHECK_DEADLOCK FALSE
