SPECIFICATION Spec
CONSTANTS
    MaxWrites = 3
    MaxEnds = 1
    HWM = 2
    Size <- MCSize
    Outcomes = {"sync", "syncErr", "async", "asyncErr"}
    ConstructOutcomes = {"sync", "syncErr", "async", "asyncErr"}
    Cork = TRUE
    Writev = TRUE
    Construct = TRUE
    Destroy = TRUE
INVARIANTS
    Conservation
CHECK_DEADLOCK FALSE
