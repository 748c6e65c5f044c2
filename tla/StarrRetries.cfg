SPECIFICATION Spec
CONSTANTS
    t1 = t1
    w1 = w1
    w2 = w2
    Titles <- OneTitle
    Workers <- OneWorker
    MaxRetries = 1
    DeleteOrig <- OneTitle
    MaxWorld = 0
INVARIANTS
    RetryLimit
