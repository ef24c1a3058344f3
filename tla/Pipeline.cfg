SPECIFICATION FairSpec
CONSTANTS
    Main <- MCMain
    Groups <- MCGroups
    Finals <- MCFinals
    Allow <- MCAllow
    When <- MCWhen
    Retries <- MCRetries
    Iterated <- MCIterated
    Iters <- MCIters
    Malformed <- MCMalformed
    Json <- MCJson
    Concurrency = 2
    OnErrors = {"halt", "continue"}
    CanCancel = TRUE
INVARIANT TypeOK
INVARIANT RunsAreReported
PROPERTY Terminates
CHECK_DEADLOCK FALSE
