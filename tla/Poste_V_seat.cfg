SPECIFICATION Spec
CONSTANTS
    Operators = {11, 12, 13}
    Users = {}
    NumSeats = 1
    NumServices = 1
    OpenMinute = 1
    CloseMinute = 3
    DayMinutes = 4
    SimDuration = 2
    ExplodeMax = 5
    NofPause = 0
    MaxRequests = 1
    RequestMargin = 1
    QueueCapacity = 2
INVARIANTS
    OneOperatorPerSeat
CHECK_DEADLOCK FALSE
