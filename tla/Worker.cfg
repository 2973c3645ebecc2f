SPECIFICATION FairSpec
CONSTANTS
    Ports = {1}
    Values = {"pair"}
    InitBuffers = {1}
    PipeRoom = 1
    MaxDown = 2
    MaxUp = 2
INVARIANTS
    FdsPaired
    PortKnown
    InOrder
PROPERTIES
    TerminateExits
    LinesArrive
CHECK_DEADLOCK FALSE
