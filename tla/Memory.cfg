SPECIFICATION Spec
CONSTANTS
    a = a
    b = b
    pack = pack
    cli = cli
    handler = handler
    Keys = {a, b}
    Pairs <- OnePair
    Procs = {pack, cli}
    Handlers = {handler}
    ProcOf <- InPack
    MaxContext = 1
    PruneCount = 1
    MaxResults = 2
INVARIANTS
    TypeOK
    RelationsHold
PROPERTIES
    ResetForgets
    UserFactsStay
CHECK_DEADLOCK FALSE
