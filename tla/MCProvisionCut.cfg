SPECIFICATION Spec
CONSTANTS
    Configs = {c1}
    None = None
    Mixed = Mixed
    MaxPosts = 1
    MaxFlaps = 0
    MaxFails = 0
    MaxRefusals = 0
    MaxLosses = 1
    MaxCutSaves = 1
INVARIANTS
    RegisteredMeansConfigured
CHECK_DEADLOCK FALSE
