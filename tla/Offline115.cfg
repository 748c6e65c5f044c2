SPECIFICATION FairSpec
CONSTANTS
    l1 = l1
    l2 = l2
    Links = {l1, l2}
    Archives = {l1}
    Sized = {l1}
    TxtLinks = {l1, l2}
    MaxBatches = 2
    Chunk = 1
    Fallback = TRUE
    MaxUser = 1
    MaxFaults = 1
INVARIANTS
    TypeOK
    AllOnRecord
    FiledDurably
    HandedOver
PROPERTIES
    EventuallyHanded
CHECK_DEADLOCK FALSE
