SPECIFICATION FairSpec
CONSTANTS
    k1 = k1
    k2 = k2
    w1 = w1
    w2 = w2
    Job <- MCJob
    Key = {k1, k2}
    KeyOf <- MCKeyOf
    Producer = {p1}
    Worker = {w1, w2}
    LeaseTicks = 2
    MaxAttempts = 2
    BackoffUnit = 1
    BackoffCap = 3
    MaxClock = 10
    MaxCrashes = 1
    Timely = TRUE
PROPERTY JobsSettle
CHECK_DEADLOCK FALSE
