SPECIFICATION Spec
CONSTANTS
    k1 = k1
    k2 = k2
    w1 = w1
    w2 = w2
    Job <- MCJob
    Key = {k1, k2}
    KeyOf <- MCKeyOf
    Producer = {p1, p2}
    Worker = {w1, w2}
    LeaseTicks = 1
    MaxAttempts = 2
    BackoffUnit = 1
    BackoffCap = 3
    MaxClock = 3
    MaxCrashes = 1
    Timely = FALSE
INVARIANTS TypeOK ExclusiveLease OneRowPerKey DeadLetterExact
PROPERTIES OutcomeOfPresentLease TerminalForever ImplementsJobQueue
SYMMETRY WorkerSymmetry
CHECK_DEADLOCK FALSE
