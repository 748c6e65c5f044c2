CONSTANTS
    a1 = a1
    a2 = a2
    n1 = n1
    n2 = n2
    s1 = s1
    s2 = s2
    w1 = w1
    w2 = w2
    Archives = {a1}
    Names = {n1}
    Name <- OneName
    Sizes = {s1, s2}
    NoSize = NoSize
    Workers = {w1}
    MaxRetries = 1
    SourceAction <- ArchiveIt
    Immediate = {}
    Redundant = {}
    Volatile = {a1}
    MaxWorld = 4

SPECIFICATION Spec

SYMMETRY SizeSymmetry

INVARIANTS
    SingleJob
    DeliveredOnce

PROPERTIES
    CleanupNeverReextracts
    CancelHonoured
    NoSilentDrop

CHECK_DEADLOCK FALSE
