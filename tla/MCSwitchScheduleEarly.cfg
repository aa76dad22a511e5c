SPECIFICATION Spec
CONSTANTS
    MsPerSec = 2
    SecsPerMin = 2
    MinsPerDay = 2
    DaysPerWeek = 2
    AlarmMax = 2
    Plans <- MCOncePlans
    MaxCommands = 1
    MaxTimeSets = 1
INVARIANTS
    DelayNotEarly
CHECK_DEADLOCK FALSE
