SPECIFICATION FairSpec
CONSTANTS
    w1 = w1
    w2 = w2
    Document <- MCDocument
    Pool = {w1, w2}
    Fault = {"commit", "record"}
    MaxRuns = 2
INVARIANTS TypeOK ParsedHasBody OncePerRun ReturnIsComplete
PROPERTIES SettledStays RunEnds
CHECK_DEADLOCK FALSE
