SPECIFICATION FairSpec
CONSTANTS
    w1 = w1
    w2 = w2
    a1 = a1
    a2 = a2
    a3 = a3
    shared = shared
    single = single
    Url <- MCUrl
    Order <- MCOrder
    Worker = {w1, w2}
    Client = {w1, w2}
    Object = {shared, single}
    ObjectOf <- MCObjectOf
    CheckpointEvery = 2
    Retries = 1
    Fault = {"write", "save"}
    MaxRuns = 2
INVARIANTS TypeOK DownloadedIsWhole CheckpointLag ReturnSettles
PROPERTIES DownloadedStays MirrorEnds
CHECK_DEADLOCK FALSE
