SPECIFICATION Spec
CONSTANTS
    Producers = {p1, p2}
    Renderers = {r1, r2}
    MaxFrames = 3
    FrameCounts = {1, 2, 3}
    QueueModes = {"IMMEDIATE", "MAILBOX", "RELAXED_FIFO", "FIFO"}
    MaxPuts = 2
    NoThread = NoThread
    NoFrame = NoFrame
    NoValue = NoValue
SYMMETRY Symmetry
INVARIANTS
    TypeOK
    NoFrameLost
    NoFrameShared
    RenderWhole
    FrameLockUncontended
    NewestSurvives
PROPERTY
    DeliveryInOrder
