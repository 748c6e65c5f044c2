SPECIFICATION FairSpec
CONSTANTS
    f1 = f1
    f2 = f2
    Files = {f1, f2}
    Home <- BothCloud
    Settings <- Rescanning
    Retries = 2
    PageSize = 1
    PageBudget = 1
    MaxUser = 0
    MaxFaults = 1
PROPERTIES
    EventuallySettled
CHECK_DEADLOCK FALSE
