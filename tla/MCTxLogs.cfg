CONSTANTS
    NoHeight = NoHeight
    RootIndex = 1
    U8Max = 255
    MaxLen = 5
    MaxHeight = 4
    HeightSeqs <- AllHeights
    DepthSeqs <- RuntimeDepths
    OtherRoots <- FewRoots
SPECIFICATION LogFairSpec
INVARIANTS
    TypeOK
    FlatIsInputOrder
    PathsArePositions
    ParentIsCaller
    DepthIsStackHeight
    LogTypeOK
    OwnLogsOrNone
    OwnLogsFound
    AnswersAgree
PROPERTIES
    Terminates
    ImplementsCpiTree
