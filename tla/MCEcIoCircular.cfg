SPECIFICATION Spec
CONSTANTS
    QueueSize = 8
    MaxSends = 10
    MaxConnects = 1
INVARIANTS
    NoLostWakeup
CHECK_DEADLOCK FALSE
