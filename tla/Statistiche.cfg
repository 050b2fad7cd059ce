SPECIFICATION FairSpec
CONSTANTS
    Operators = {11}
    Users = {21, 22}
    NumServices = 2
    MaxVisits = 1
    MaxShifts = 1
    MaxDays = 1
INVARIANTS
    TypeOK
    BooksBalance
    RequestsAccounted
    ReportOffByOne
PROPERTIES
    ReportNotHeldUp
CHECK_DEADLOCK FALSE
