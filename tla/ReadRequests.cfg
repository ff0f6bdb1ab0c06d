SPECIFICATION FairSpec
CONSTANTS
    d1 = d1
    d2 = d2
    Dataset = {d1, d2}
    NoDataset = NoDataset
    Meeting <- MCMeeting
    Position <- MCPosition
    Absent = Absent
    Content <- MCContent
    PageSize = 1
    Kind <- MCKind
INVARIANTS TypeOK QuietIsConsistent QuietScopeUpToTies OnlyPublishedRead
PROPERTY RequestEnds
