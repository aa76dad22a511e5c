SPECIFICATION FairSpec
CONSTANTS
    Configs = {c1, c2}
    None = None
    Mixed = Mixed
    MaxPosts = 2
    MaxFlaps = 2
    MaxFails = 1
    MaxRefusals = 1
    MaxLosses = 2
    MaxCutSaves = 1
INVARIANTS
    TypeOK
    LoginNeedsRegistration
    WholeSavesConfigure
PROPERTIES
    AccessPointOnlyUnregistered
    ConfiguredComesToLogin
\* the device waits for the app when the bounds are used up
CHECK_DEADLOCK FALSE
