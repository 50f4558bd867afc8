SPECIFICATION Spec
CONSTANTS
    Modes <- AllModes
    MaxInits = 3
    MaxProbes = 2
    MaxDraws = 3
    MaxResources = 6
INVARIANTS
    TypeOK
    HonestDrawIsShown
    OneRegistration
    MappedOnlyInUpload
CHECK_DEADLOCK FALSE
