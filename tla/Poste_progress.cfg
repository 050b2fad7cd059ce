SPECIFICATION FairSpec
CONSTANTS
    Operators = {11}
    Users = {21}
    NumSeats = 2
    NumServices = 2
    OpenMinute = 1
    CloseMinute = 3
    DayMinutes = 4
    SimDuration = 2
    ExplodeMax = 5
    NofPause = 1
    MaxRequests = 2
    RequestMargin = 1
    QueueCapacity = 2
PROPERTIES
    ServedOrDeserted
    TicketAnswered
    FirstDaySentHomeRightly
CHECK_DEADLOCK FALSE
