SPECIFICATION FairSpec
CONSTANTS
    t1 = t1
    t2 = t2
    Threads = {t1, t2}
    CoreSize = 1
    QueueCapacity = 2
    MaxRetries = 2
    Expiry <- MCExpiry
    MaxSpans = 5
    MaxCrashes = 1
INVARIANTS
    TypeOK
    Accounted
    DiscardsOldest
    ListsHaveTTL
PROPERTY
    EverySlowSpanSettles
CHECK_DEADLOCK FALSE
