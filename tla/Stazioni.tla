------------------------------ MODULE Stazioni -------------------------------
(***************************************************************************)
(* The table of counters, read counter by counter and written field by     *)
(* field.  Poste takes a critical section under stations_lock as one step, *)
(* and one unlocked test of a counter as another; this module shows by     *)
(* what right.  Those who lock see the table of Tabella.  The operator     *)
(* that searches without the lock reads the status and the service of a    *)
(* counter at two moments.                                                 *)
(*                                                                         *)
(* Program counters.  A process that holds the lock is where it will be    *)
(* when it has released it, except during its search.                      *)
(*   operator  "out", "seek" (find_seat, locked), "wait", "status" and     *)
(*             "service" (find_seat, unlocked), "found", "duty"            *)
(*   user      "idle", "look" (find_valid_seats, locked), "listed",        *)
(*             "attempt" (attempt_take_seat, locked), "seated"             *)
(***************************************************************************)
EXTENDS Integers, Sequences, FiniteSetsExt

CONSTANTS
    Operators, Users, Director,
    NumSeats, NumServices,
    Wanted              \* bound: the services operators offer and users ask for

ASSUME StationsAssumption ==
    /\ Operators \cap Users = {} /\ Director \notin Operators \cup Users
    /\ 0 \notin Operators \cup Users \cup {Director}
    /\ NumSeats \in Nat \ {0} /\ NumServices \in Nat \ {0}
    /\ Wanted \subseteq 0 .. NumServices - 1

VARIABLES
    seats,              \* NOF_WORKER_SEATS
    lock,               \* holder of stations_lock, 0 when it is free
    writes,             \* by process: what it has still to write before it unlocks
    pc,
    at,                 \* the counter a search has reached, else 0
    opService,          \* user_service
    utService,          \* service_id, while it is being looked for
    valid_seats,
    place,              \* current_seat
    suited              \* history: the counter under test has suited the operator
locals == <<pc, at, opService, utService, valid_seats, place>>
vars == <<seats, lock, writes, locals, suited>>
-----------------------------------------------------------------------------
Seats == 0 .. NumSeats - 1
Services == 0 .. NumServices - 1
NoSeat == -1
Processes == Operators \cup Users
Seat == [operator_process : Operators \cup {0}, operator_status : {"FREE", "OCCUPIED"},
         user_status : {"FREE", "OCCUPIED"}, service_id : Services]

Write(i, field, value) == [seat |-> i, field |-> field, value |-> value]
Written(t, w) == [t EXCEPT ![w.seat][w.field] = w.value]

TakeWrites(o, i) == << Write(i, "operator_process", o), Write(i, "operator_status", "OCCUPIED") >>
LeaveWrites(i) == << Write(i, "operator_status", "FREE"), Write(i, "operator_process", 0) >>

\* A slip: the service is drawn first.
ResetServiceFirst(i, s) == << Write(i, "service_id", s), Write(i, "operator_process", 0),
                              Write(i, "operator_status", "FREE"),
                              Write(i, "user_status", "FREE") >>
ResetWrites(i, s) == << Write(i, "operator_process", 0), Write(i, "operator_status", "FREE"),
                        Write(i, "user_status", "FREE"), Write(i, "service_id", s) >>

Init ==
    /\ seats = [i \in Seats |-> [operator_process |-> 0, operator_status |-> "FREE",
                                 user_status |-> "FREE", service_id |-> 0]]
    /\ lock = 0
    /\ writes = [p \in Processes \cup {Director} |-> << >>]
    /\ pc = [p \in Processes |-> IF p \in Operators THEN "out" ELSE "idle"]
    /\ at = [p \in Processes |-> 0]
    /\ opService \in [Operators -> Wanted]
    /\ utService = [u \in Users |-> 0]
    /\ valid_seats = [u \in Users |-> {}]
    /\ place = [p \in Processes |-> NoSeat]
    /\ suited = [o \in Operators |-> FALSE]
-----------------------------------------------------------------------------
(* The lock.                                                                *)
At(p, label) == pc[p] = label /\ lock # p
Inside(p, label) == pc[p] = label /\ lock = p
Goto(p, label) == pc' = [pc EXCEPT ![p] = label]
Lock(p) == lock = 0 /\ lock' = p
Decides(p, ws) == writes' = [writes EXCEPT ![p] = ws]

SearchOver(p) == at' = [at EXCEPT ![p] = 0]

MakeWrite(p) ==
    /\ lock = p /\ writes[p] # << >>
    /\ seats' = Written(seats, Head(writes[p]))
    /\ Decides(p, Tail(writes[p]))
    /\ UNCHANGED <<lock, locals>>

Searching(p) == p # Director /\ pc[p] \in {"seek", "look", "attempt"}

Unlock(p) ==
    /\ lock = p /\ writes[p] = << >> /\ ~Searching(p)
    /\ lock' = 0
    /\ UNCHANGED <<seats, writes, locals>>
-----------------------------------------------------------------------------
(* The operator.                                                            *)
OpSeek(o) ==
    /\ At(o, "out") /\ Lock(o) /\ Goto(o, "seek")
    /\ UNCHANGED <<seats, writes, at, opService, utService, valid_seats, place>>

Suits(o, i) == /\ seats[i].operator_status = "FREE"
               /\ seats[i].service_id = opService[o]

OpTest(o) ==
    /\ Inside(o, "seek")
    /\ \/ /\ at[o] \in Seats /\ Suits(o, at[o])
          /\ place' = [place EXCEPT ![o] = at[o]]
          /\ Decides(o, TakeWrites(o, at[o])) /\ Goto(o, "duty") /\ SearchOver(o)
       \/ /\ at[o] \in Seats /\ ~Suits(o, at[o])
          /\ at' = [at EXCEPT ![o] = @ + 1]
          /\ UNCHANGED <<writes, pc, place>>
       \/ /\ at[o] \notin Seats
          /\ Goto(o, "wait") /\ SearchOver(o)
          /\ UNCHANGED <<writes, place>>
    /\ UNCHANGED <<seats, lock, opService, utService, valid_seats>>

OpWaits(o) ==
    /\ At(o, "wait")
    /\ Goto(o, "status") \/ Goto(o, "out")
    /\ UNCHANGED <<seats, lock, writes, at, opService, utService, valid_seats, place>>

OpNextSeat(o) ==
    \/ at[o] + 1 \in Seats /\ at' = [at EXCEPT ![o] = @ + 1] /\ Goto(o, "status")
    \/ at[o] + 1 \notin Seats /\ SearchOver(o) /\ Goto(o, "wait")

OpReadStatus(o) ==
    /\ At(o, "status")
    /\ \/ seats[at[o]].operator_status = "FREE" /\ Goto(o, "service") /\ UNCHANGED at
       \/ seats[at[o]].operator_status # "FREE" /\ OpNextSeat(o)
    /\ UNCHANGED <<seats, lock, writes, opService, utService, valid_seats, place>>

OpReadService(o) ==
    /\ At(o, "service")
    /\ \/ seats[at[o]].service_id = opService[o] /\ Goto(o, "found") /\ UNCHANGED at
       \/ seats[at[o]].service_id # opService[o] /\ OpNextSeat(o)
    /\ UNCHANGED <<seats, lock, writes, opService, utService, valid_seats, place>>

OpTake(o) ==
    /\ At(o, "found") /\ Lock(o) /\ Goto(o, "duty")
    /\ place' = [place EXCEPT ![o] = at[o]] /\ SearchOver(o)
    /\ Decides(o, TakeWrites(o, at[o]))
    /\ UNCHANGED <<seats, opService, utService, valid_seats>>

OpLeave(o) ==
    /\ At(o, "duty") /\ Lock(o) /\ Goto(o, "out")
    /\ place' = [place EXCEPT ![o] = NoSeat]
    /\ Decides(o, LeaveWrites(place[o]))
    /\ UNCHANGED <<seats, at, opService, utService, valid_seats>>

OpNext(o) == \/ OpSeek(o) \/ OpTest(o) \/ OpWaits(o) \/ OpReadStatus(o)
             \/ OpReadService(o) \/ OpTake(o) \/ OpLeave(o)
-----------------------------------------------------------------------------
(* The user.                                                                *)
\* A slip: the list is made without waiting for the lock.
UtLookUnlocked(u) ==
    /\ At(u, "idle") /\ lock' = u /\ Goto(u, "look")
    /\ \E s \in Wanted : utService' = [utService EXCEPT ![u] = s]
    /\ UNCHANGED <<seats, writes, at, opService, valid_seats, place>>

UtLook(u) ==
    /\ At(u, "idle") /\ Lock(u) /\ Goto(u, "look")
    /\ \E s \in Wanted : utService' = [utService EXCEPT ![u] = s]
    /\ UNCHANGED <<seats, writes, at, opService, valid_seats, place>>

Valid(u, i) == /\ seats[i].service_id = utService[u]
               /\ seats[i].operator_status = "OCCUPIED"

UtTest(u) ==
    /\ Inside(u, "look")
    /\ \/ /\ at[u] \in Seats
          /\ valid_seats' = [valid_seats EXCEPT ![u] =
                                 IF Valid(u, at[u]) THEN @ \cup {at[u]} ELSE @]
          /\ at' = [at EXCEPT ![u] = @ + 1]
          /\ UNCHANGED <<pc, utService>>
       \/ /\ at[u] \notin Seats
          /\ Goto(u, IF valid_seats[u] = {} THEN "idle" ELSE "listed")
          /\ utService' = [utService EXCEPT ![u] = 0] /\ SearchOver(u)
          /\ UNCHANGED valid_seats
    /\ UNCHANGED <<seats, lock, writes, opService, place>>

\* A slip: the attempt does not wait for the lock.
UtAttemptUnlocked(u) ==
    /\ At(u, "listed") /\ lock' = u /\ Goto(u, "attempt")
    /\ UNCHANGED <<seats, writes, at, opService, utService, valid_seats, place>>

UtAttempt(u) ==
    /\ At(u, "listed") /\ Lock(u) /\ Goto(u, "attempt")
    /\ UNCHANGED <<seats, writes, at, opService, utService, valid_seats, place>>

\* valid_seats is filled in the order of the counters and tried in that order.
UtTry(u) ==
    /\ Inside(u, "attempt")
    /\ \/ /\ at[u] \in valid_seats[u] /\ seats[at[u]].user_status = "FREE"
          /\ place' = [place EXCEPT ![u] = at[u]]
          /\ valid_seats' = [valid_seats EXCEPT ![u] = {}]
          /\ Decides(u, << Write(at[u], "user_status", "OCCUPIED") >>)
          /\ Goto(u, "seated") /\ SearchOver(u)
       \/ /\ at[u] \in Seats
          /\ at[u] \in valid_seats[u] => seats[at[u]].user_status # "FREE"
          /\ at' = [at EXCEPT ![u] = @ + 1]
          /\ UNCHANGED <<writes, pc, valid_seats, place>>
       \/ /\ at[u] \notin Seats
          /\ Goto(u, "listed") /\ SearchOver(u)
          /\ UNCHANGED <<writes, valid_seats, place>>
    /\ UNCHANGED <<seats, lock, opService, utService>>

\* Late, the user goes: from its wait, or from the counter it leaves occupied.
UtLate(u) ==
    /\ At(u, "listed") \/ At(u, "seated")
    /\ Goto(u, "idle")
    /\ valid_seats' = [valid_seats EXCEPT ![u] = {}]
    /\ place' = [place EXCEPT ![u] = NoSeat]
    /\ UNCHANGED <<seats, lock, writes, at, opService, utService>>

UtFree(u) ==
    /\ At(u, "seated") /\ Lock(u) /\ Goto(u, "idle")
    /\ place' = [place EXCEPT ![u] = NoSeat]
    /\ Decides(u, << Write(place[u], "user_status", "FREE") >>)
    /\ UNCHANGED <<seats, at, opService, utService, valid_seats>>

UtNext(u) == UtLook(u) \/ UtTest(u) \/ UtAttempt(u) \/ UtTry(u) \/ UtLate(u) \/ UtFree(u)
-----------------------------------------------------------------------------
(* The director.  The services are drawn before the first is written: nobody *)
(* could read one that is not.                                               *)
ResetAll(f) ==
    [n \in 1 .. 4 * NumSeats |->
        LET i == (n - 1) \div 4 IN ResetWrites(i, f[i])[1 + ((n - 1) % 4)]]

DirNewDay ==
    /\ Lock(Director)
    /\ \E f \in [Seats -> Services] : Decides(Director, ResetAll(f))
    /\ UNCHANGED <<seats, locals>>

\* The counter an operator tests suits it, or did since the test began.
Watch == suited' = [o \in Operators |-> /\ pc'[o] = "service"
                                        /\ suited[o] \/ Suits(o, at[o])']

Next == /\ \/ \E p \in Processes \cup {Director} : MakeWrite(p) \/ Unlock(p)
           \/ \E o \in Operators : OpNext(o)
           \/ \E u \in Users : UtNext(u)
           \/ DirNewDay
        /\ Watch

Spec == Init /\ [][Next]_vars
-----------------------------------------------------------------------------
Labels == {"out", "seek", "wait", "status", "service", "found", "duty",
           "idle", "look", "listed", "attempt", "seated"}
Fields == {"operator_process", "operator_status", "user_status", "service_id"}

\* Every variable stays in its type; there is something to write only inside a
\* critical section, and nobody holds the lock for a search without being in one
\* (operatore.c:31-50, 236-258, utente.c:197-223, 307-309, direttore.c:167-176).
TypeOK ==
    /\ seats \in [Seats -> Seat]
    /\ lock \in Processes \cup {Director, 0}
    /\ \A p \in Processes \cup {Director} :
          /\ writes[p] # << >> => lock = p
          /\ \A n \in 1 .. Len(writes[p]) : writes[p][n].seat \in Seats /\ writes[p][n].field \in Fields
    /\ pc \in [Processes -> Labels]
    /\ \A p \in Processes : Searching(p) => lock = p
    /\ at \in [Processes -> 0 .. NumSeats]
    /\ opService \in [Operators -> Services] /\ utService \in [Users -> Services]
    /\ valid_seats \in [Users -> SUBSET Seats]
    /\ \A p \in Processes : place[p] \in Seats <=> pc[p] \in {"duty", "seated"}
    /\ suited \in [Operators -> BOOLEAN]

\* What the unlocked find_seat finds at a counter was so at one moment of the test,
\* although it reads the status first and the service later: services change at
\* midnight only, and start_new_day frees a counter before it draws its service
\* (operatore.c:174-181, direttore.c:168-172).
FindsAreMoments ==
    [][\A o \in Operators : pc[o] = "service" /\ pc'[o] = "found" => suited[o]]_vars
-----------------------------------------------------------------------------
(* The table those see who lock it: with the writes of the critical section  *)
(* under way already made.                                                   *)
Settled(t, ws, i, field) ==
    LET onField == {n \in 1 .. Len(ws) : ws[n].seat = i /\ ws[n].field = field}
    IN  IF onField = {} THEN t[i][field] ELSE ws[Max(onField)].value

After(t, ws) == [i \in Seats |-> [operator_process |-> Settled(t, ws, i, "operator_process"),
                                  operator_status |-> Settled(t, ws, i, "operator_status"),
                                  user_status |-> Settled(t, ws, i, "user_status"),
                                  service_id |-> Settled(t, ws, i, "service_id")]]

Stage(p) == CASE pc[p] = "seek" -> "out"
              [] pc[p] \in {"status", "service", "found"} -> "wait"
              [] pc[p] = "look" -> "idle"
              [] pc[p] = "attempt" -> "listed"
              [] OTHER -> pc[p]

Table == INSTANCE Tabella WITH
    table <- After(seats, IF lock = 0 THEN << >> ELSE writes[lock]),
    stage <- [p \in Processes |-> Stage(p)],
    list <- [u \in Users |-> IF pc[u] = "look" THEN {} ELSE valid_seats[u]]

\* Searches and changes under stations_lock are single steps to each other: nobody
\* finds a counter half taken, released or cleared, no claim falls between another's
\* search and claim, and a list is what the table held at one moment
\* (operatore.c:31-50, 236-258, utente.c:197-223, 307-309, direttore.c:167-176).
ActsAsOneTable == Table!Spec
=============================================================================
