CONSTANTS
    a1 = a1
    a2 = a2
    n1 = n1
    n2 = n2
    s1 = s1
    s2 = s2
    w1 = w1
    w2 = w2
    Archives = {a1, a2}
    Names = {n1, n2}
    Name <- OwnNames
    Sizes = {s1}
    NoSize = NoSize
    Workers = {w1, w2}
    MaxRetries = 1
    SourceAction <- KeepAndDelete
    Immediate = {a2}
    Redundant = {a1}
    Volatile = {a1, a2}
    MaxWorld = 2

SPECIFICATION FairSpec

INVARIANTS
    TypeOK
    NoStuckTask
    SourceSafe

PROPERTIES
    EventuallyHandled
    EventuallySettled

CHECK_DEADLOCK FALSE
