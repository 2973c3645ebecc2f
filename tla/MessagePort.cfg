SPECIFICATION FairSpec
CONSTANTS
    MaxPosts = 2
    MaxPorts = 5
    Listening = {2, 4}
INVARIANTS
    SurfacesAgree
PROPERTIES
    ImplementsChannels
    Arrives
CHECK_DEADLOCK FALSE
