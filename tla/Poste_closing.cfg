SPECIFICATION FairSpec
CONSTANTS
    Operators = {11, 12}
    Users = {21}
    NumSeats = 1
    NumServices = 1
    OpenMinute = 2
    CloseMinute = 3
    DayMinutes = 4
    SimDuration = 2
    ExplodeMax = 5
    NofPause = 0
    MaxRequests = 1
    RequestMargin = 1
    QueueCapacity = 2
PROPERTIES
    FirstDayOperatorsGoHome
    FirstDayShiftsLast
INVARIANTS
    RegisteredIsPresent
    FirstDayTokensSuffice
    FirstDayOpensOnTime
    StaffedHasPid
CHECK_DEADLOCK FALSE
