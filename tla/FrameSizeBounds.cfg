CONSTANTS
    Formats <- AllFormats
    Dimensions = {2, 8, 18}
    MaxTexture = 16
    Word = 8192
SPECIFICATION Spec
INVARIANTS
    TypeOK
    UploadInBounds
    PlanesApart
    PoolFitsBuffers
PROPERTY
    PoolTakesFrames
CHECK_DEADLOCK FALSE
