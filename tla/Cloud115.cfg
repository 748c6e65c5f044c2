SPECIFICATION Spec
CONSTANTS
    f1 = f1
    f2 = f2
    Files = {f1, f2}
    Home <- OneDaily
    Settings <- Mixed
    Retries = 1
    PageSize = 2
    PageBudget = 1
    MaxUser = 1
    MaxFaults = 1
INVARIANTS
    TypeOK
    OneSlot
    OneUnpacker
PROPERTIES
    KeepsPromise
CHECK_DEADLOCK FALSE
