SPECIFICATION Spec
CONSTANTS
    r1 = r1
    r2 = r2
    r3 = r3
    go = go
    py = py
    main = main
    tool = tool
    Requests <- TheRequests
    Files = {main, tool}
    Langs = {go, py}
    FileOf <- TwoStarts
    LangOf <- TwoLangs
    Candidates = 1
INVARIANTS
    ServerOutlivesCall
CHECK_DEADLOCK FALSE
