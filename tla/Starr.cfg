SPECIFICATION FairSpec
CONSTANTS
    t1 = t1
    w1 = w1
    w2 = w2
    Titles <- OneTitle
    Workers <- TwoWorkers
    MaxRetries = 1
    DeleteOrig <- OneTitle
    MaxWorld = 3
INVARIANTS
    TypeOK
    SingleJob
    NoStuckTask
PROPERTIES
    OnlyGoneDeleted
    EventuallyForgotten
