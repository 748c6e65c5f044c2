CONSTANTS
    g1 = g1
    g2 = g2
    p1 = p1
    p2 = p2
    s1 = s1
    s2 = s2
    c1 = c1
    c2 = c2
    j1 = j1
    j2 = j2
    Groups = {g1}
    Paths = {p1}
    Target <- OneName
    Sizes = {s1}
    NoSize = NoSize
    NoGroup = NoGroup
    Copiers = {c1}
    Jobs = {j1}
    MaxRetries = 1
    DeleteSource = TRUE
    KeepCache = FALSE
    Volatile = {g1}
    Controls = {"stop_clear", "resume", "pause", "clear_incomplete", "cancel", "ignore", "unignore", "retry", "fault", "crash"}
    MaxWorld = 1

SPECIFICATION FairSpec

INVARIANTS
    TypeOK

PROPERTIES
    KeepsPromise
    EventuallyCached

CHECK_DEADLOCK FALSE
