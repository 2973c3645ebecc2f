SPECIFICATION Spec
CONSTANTS
    Ports = {}
    Values = {"sab", "twice", "unwritable"}
    InitBuffers = {0}
    PipeRoom = 2
    MaxDown = 2
    MaxUp = 0
INVARIANTS
    BufferedOnRead
CHECK_DEADLOCK FALSE
