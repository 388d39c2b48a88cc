\* Three goroutines looking up two repositories, creation may fail.
CONSTANTS
    t1 = t1  t2 = t2  t3 = t3  n1 = n1  n2 = n2
    NoThread = NoThread  NoHandle = NoHandle
    Threads <- MCThreads
    Names <- MCNames
    CreateFailures = TRUE
    MaxCalls = 5
SPECIFICATION Spec
INVARIANT TypeOK
PROPERTY CacheRefinement
CHECK_DEADLOCK FALSE
