SPECIFICATION Spec
CONSTANTS
    MaxChunks = 3
    MaxAsked = 2
    MaxTicks = 3
    HWM = 2
    Uses <- SafeUses
INVARIANTS
    Conservation
    EndLast
CHECK_DEADLOCK FALSE
