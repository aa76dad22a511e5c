SPECIFICATION Spec
CONSTANTS
    Keys = {k1, k2}
    RxFifoLen = 3
    TxFifoLen = 3
    EmptyThreshold = 1
    RxSize = 4
    TxSize = 4
    QueueLen = 2
    MaxRead = 3
    MaxBlock = 3
    Count = 8
    Bufs = 2
    BufSize = 2
    MaxLoad = 3
    Bits = 8
    Words <- MCWords
    ClearClocks = 28
INVARIANTS
    TypeOK
    KeyWatched
    InOrder
PROPERTIES
    WaitingMovesOn
\* the SDIO slave stops where nothing is offered any more, or its lists are torn
CHECK_DEADLOCK FALSE
