SPECIFICATION Spec
CONSTANTS
    LastYear = 2004
    Moments = {28799, 28800, 86399}
    Rules <- MCRules
    Packets <- MCPackets
    Hooks = {h1, h2}
    MaxRules = 4
    MaxNodes = 4
    MaxTrees = 2
    MaxText = 5
    DEFAULT_ALIGNMENT = 2
    ChunkSizes = {0, 17}
    Sizes = {1, 8, 40}
    Lengths = {0, 3, 7, 15}
    MaxCalls = 4
SYMMETRY Symmetric
INVARIANTS
    TypeOK
    RoundTrip
    ListSound
    AskedByScore
    TreesHoldTheDocument
    BlocksKeepTheirBytes
PROPERTIES
    StepsAsTree
\* the walk of the calendar and the bounded parts end
CHECK_DEADLOCK FALSE
