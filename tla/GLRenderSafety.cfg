SPECIFICATION Spec
CONSTANTS
    MaxBufs = 2
    Formats <- FormatsByMode
    FrameCounts = {1, 3}
    MaxInits = 3
    MaxLost = 1
    MaxObjects = 9
INVARIANTS
    TypeOK
    NoDanglingName
    NoObjectLost
    PoolUsesLiveMemory
    OpenedIsComplete
    MapModeSupported
