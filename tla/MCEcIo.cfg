SPECIFICATION FairSpec
CONSTANTS
    QueueSize = 3
    MaxSends = 6
    MaxConnects = 2
INVARIANTS
    TypeOK
    OneFrameAtATime
    FramesInOrder
    QueueHoldsFrames
    OnlyTheWrapLosesWakeups
PROPERTIES
    NoFrameVanishes
    SendsFramesOneByOne
    QueueDrains
\* deinit_queue may hang, and the calls are bounded
CHECK_DEADLOCK FALSE
