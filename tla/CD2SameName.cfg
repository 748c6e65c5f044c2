CONSTANTS
    g1 = g1
    g2 = g2
    p1 = p1
    p2 = p2
    s1 = s1
    s2 = s2
    c1 = c1
    c2 = c2
    j1 = j1
    j2 = j2
    Groups = {g1, g2}
    Paths = {p1}
    Target <- SameName
    Sizes = {s1}
    NoSize = NoSize
    NoGroup = NoGroup
    Copiers = {c1}
    Jobs = {j1}
    MaxRetries = 1
    DeleteSource = TRUE
    KeepCache = FALSE
    Volatile = {}
    Controls = {}
    MaxWorld = 0

SPECIFICATION Spec

INVARIANTS
    OnlyExtractedDeleted

CHECK_DEADLOCK FALSE
