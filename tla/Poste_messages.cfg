SPECIFICATION Spec
CONSTANTS
    Operators = {11}
    Users = {21, 22}
    NumSeats = 1
    NumServices = 1
    OpenMinute = 1
    CloseMinute = 3
    DayMinutes = 4
    SimDuration = 2
    ExplodeMax = 1
    NofPause = 1
    MaxRequests = 1
    RequestMargin = 1
    QueueCapacity = 2
INVARIANTS
    TypeOK
    RepliesMatch
    OneMessagePerUser
    NothingLost
    TicketsUnique
    SendsNeverBlock
    FirstDayOneUserPerSeat
    FirstDayHeldCounterHasUser
    LateAreCounted
    ExplosionReported
PROPERTIES
    KeepsPromise
CHECK_DEADLOCK FALSE
