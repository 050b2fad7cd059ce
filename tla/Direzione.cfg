SPECIFICATION FairSpec
CONSTANTS
    c1 = c1
    c2 = c2
    Clients = {c1, c2}
    NoFile = NoFile
    NoSegment = NoSegment
    Default <- MCDefault
    NewUsers <- MCNewUsers
    Files <- MCFiles
    Texts <- SmallFiles
    DayMinutes = 2
    MaxStarts = 2
    MaxDeaths = 1
INVARIANTS
    TypeOK
    RequestOnce
    UsersCounted
    ChildrenFit
    CleanEndLeavesNothing
    SameConfig
    FilesAreUnderstood
PROPERTIES
    ClientReturns
CHECK_DEADLOCK FALSE
