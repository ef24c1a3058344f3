SPECIFICATION FairSpec
CONSTANTS
    m1 = m1
    m2 = m2
    m3 = m3
    x = x
    y = y
    p1 = p1
    p2 = p2
    Messages = {m1, m2, m3}
    Ids = {x, y}
    Paths = {p1, p2}
    IdOf <- TheIds
    PathsOf <- ThePaths
    KindsOf <- TheKinds
    DedupCap = 1
    TimesOf <- TheTimes
INVARIANTS
    TypeOK
    DeliveriesAreSound
PROPERTIES
    EnvelopesAreSettled
CHECK_DEADLOCK FALSE
