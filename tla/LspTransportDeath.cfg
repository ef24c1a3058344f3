SPECIFICATION FairSpec
CONSTANTS
    c1 = c1
    c2 = c2
    Calls = {c1, c2}
    PipeCap = 2
    ServerIds = {1}
PROPERTIES
    DeathIsReported
CHECK_DEADLOCK FALSE
