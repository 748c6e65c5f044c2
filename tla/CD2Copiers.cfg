CONSTANTS
    g1 = g1
    g2 = g2
    p1 = p1
    p2 = p2
    s1 = s1
    s2 = s2
    c1 = c1
    c2 = c2
    j1 = j1
    j2 = j2
    Groups = {g1}
    Paths = {p1}
    Target <- OneName
    Sizes = {s1, s2}
    NoSize = NoSize
    NoGroup = NoGroup
    Copiers = {c1, c2}
    Jobs = {j1}
    MaxRetries = 1
    DeleteSource = TRUE
    KeepCache = TRUE
    Volatile = {g1}
    Controls = {"crash", "stop_clear", "clear_cache", "remove_cached"}
    MaxWorld = 1

SPECIFICATION Spec
SYMMETRY Symmetry

INVARIANTS
    OneCopier

PROPERTIES
    KeepsPromise

CHECK_DEADLOCK FALSE
