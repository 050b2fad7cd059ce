\* Two operators and two users, all about one service, on two counters that may be
\* of that service or of the other.
CONSTANTS
    Operators = {o1, o2}
    Users = {u1, u2}
    Director = dir
    NumSeats = 2
    NumServices = 2
    Wanted = {0}
SYMMETRY Symmetry
SPECIFICATION Spec
INVARIANT TypeOK
PROPERTIES ActsAsOneTable FindsAreMoments
