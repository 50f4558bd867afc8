CONSTANTS
    Formats <- AllFormats
    Dimensions = {2, 4, 6, 8}
    MaxTexture = 8
    Word = 8192
SPECIFICATION Spec
INVARIANTS
    PoolFitsBuffersAtEverySize
CHECK_DEADLOCK FALSE
