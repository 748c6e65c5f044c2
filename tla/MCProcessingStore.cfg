CONSTANTS
    k1 = k1
    k2 = k2
    k3 = k3
    i1 = i1
    i2 = i2
    w1 = w1
    w2 = w2
    Keys = {k1, k2, k3}
    Identities = {i1, i2}
    Identity <- MCIdentity
    Writers = {w1, w2}
    NoWriter = NoWriter
    MaxVer = 3
    MaxCrash = 2

SPECIFICATION Spec

SYMMETRY WriterSymmetry

INVARIANTS
    TypeOK
    Durable
    Protected

PROPERTIES
    NewerNeverOverwritten
    LoadKeepsNewest

CHECK_DEADLOCK FALSE
