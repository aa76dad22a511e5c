SPECIFICATION FairSpec
CONSTANTS
    Requests = {r1, r2}
    Asks <- AllAsks
    Mechanisms <- AllMechs
    Services <- AllServices
    Refusals <- AllRefusals
    MaxFaults = 2
INVARIANTS
    TypeOK
    StreamInTurn
    AnsweredInOrder
PROPERTIES
    LogsIn
\* the session may stay dead or wait for the server
CHECK_DEADLOCK FALSE
