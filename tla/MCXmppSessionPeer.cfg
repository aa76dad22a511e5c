SPECIFICATION FairSpec
CONSTANTS
    Requests = {r1}
    Asks <- AllAsks
    Mechanisms <- AllMechs
    Services <- AllServices
    Refusals <- AllRefusals
    MaxFaults = 1
PROPERTY
    DeadPeerNoticed
\* the session may stay dead or wait for the server
CHECK_DEADLOCK FALSE
