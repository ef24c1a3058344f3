SPECIFICATION FairSpec
CONSTANTS
    c1 = c1
    c2 = c2
    Calls = {c1, c2}
    PipeCap = 2
    ServerIds = {9}
INVARIANTS
    TypeOK
    PendingOwned
    OwnAnswer
    ReaderNeverStuck
PROPERTIES
    ImplementsRequestReply
    CallsAreAnswered
CHECK_DEADLOCK FALSE
