SPECIFICATION Spec
CONSTANTS
    Operators = {11, 12}
    Users = {}
    NumSeats = 1
    NumServices = 2
    OpenMinute = 1
    CloseMinute = 3
    DayMinutes = 4
    SimDuration = 3
    ExplodeMax = 5
    NofPause = 0
    MaxRequests = 1
    RequestMargin = 1
    QueueCapacity = 2
PROPERTIES
    ShiftEndsAtClosing
CHECK_DEADLOCK FALSE
