SPECIFICATION Spec
CONSTANTS
    MaxBufs = 2
    Formats <- FormatsByMode
    FrameCounts = {1, 3}
    MaxInits = 1
    MaxLost = 1
    MaxObjects = 9
INVARIANT
    FreedOnce
