SPECIFICATION Spec
CONSTANTS
    Producers = {p1}
    Renderers = {r1}
    MaxFrames = 1
    FrameCounts = {1}
    QueueModes = {"MAILBOX"}
    MaxPuts = 2
    NoThread = NoThread
    NoFrame = NoFrame
    NoValue = NoValue
PROPERTY
    NoneMeansNoFreeBuffer
