SPECIFICATION Spec
CONSTANTS
    Modes <- GLOnly
    MaxInits = 2
    MaxProbes = 1
    MaxDraws = 1
    MaxResources = 1
INVARIANTS
    DrawnIsShown
CHECK_DEADLOCK FALSE
