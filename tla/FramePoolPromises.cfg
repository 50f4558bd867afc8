SPECIFICATION FairSpec
CONSTANTS
    Producers = {p1, p2}
    Renderers = {r1}
    MaxFrames = 3
    FrameCounts = {1, 3}
    QueueModes = {"IMMEDIATE", "MAILBOX", "RELAXED_FIFO", "FIFO"}
    MaxPuts = 2
    NoThread = NoThread
    NoFrame = NoFrame
    NoValue = NoValue
INVARIANTS
    ImmediateBacklog
    ImmediateNeverRefuses
PROPERTIES
    CallsReturn
    NewestIsDrawn
    ImplementsStream
