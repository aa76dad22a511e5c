SPECIFICATION FairSpec
CONSTANTS
    MsPerSec = 2
    SecsPerMin = 2
    MinsPerDay = 2
    DaysPerWeek = 3
    AlarmMax = 2
    Plans <- MCPlans
    MaxCommands = 2
    MaxTimeSets = 1
INVARIANTS
    TypeOK
    TimersHaveNodes
    DelayActsOnce
PROPERTIES
    NoStaleEffect
    AlarmsAct
