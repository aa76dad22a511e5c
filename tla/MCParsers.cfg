SPECIFICATION Spec
CONSTANTS
    EntityMax = 7
    MaxItems = 2
    LengthMax = 1023
    MaxMessages = 2
    MaxSegments = 3
INVARIANTS
    TypeOK
    HearsTheDocument
    HearsTheMessages
    RefusesTheMalformed
    AsksForTheUrl
    HandsOverTheBody
    TakesWholeRequests
\* the streams end
CHECK_DEADLOCK FALSE
