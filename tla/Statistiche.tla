----------------------------- MODULE Statistiche -----------------------------
(***************************************************************************)
(* The statistics in /poste_stats, counter by counter.  Poste takes each   *)
(* update_* function as one step and keeps only today's late users; here   *)
(* an update is what it is in the code: the lock, one increment after the  *)
(* other, the unlock.  The interest is in what comes between them: the     *)
(* midnight that clears the day's half of the book, and the SIGKILL that   *)
(* ends the children one by one, wherever they are, before the report.     *)
(*                                                                         *)
(* Of the processes' days only the calls to these functions are kept, in   *)
(* the order Operatore and Utente make them.  The two sums of minutes are  *)
(* incremented with served_users and are left out.                         *)
(***************************************************************************)
EXTENDS Integers, Sequences, FiniteSets, Functions

CONSTANTS
    Operators, Users,   \* pids, as in PosteDefs
    NumServices,
    MaxVisits,          \* bound: services a user asks for
    MaxShifts,          \* bound: shifts an operator ends
    MaxDays             \* bound: midnights

ASSUME BookAssumption ==
    /\ Operators \subseteq Nat \ {0} /\ Users \subseteq Nat \ {0}
    /\ IsFiniteSet(Operators) /\ IsFiniteSet(Users)
    /\ Operators \cap Users = {} /\ NumServices \in Nat \ {0}

VARIABLES
    book,               \* the counters
    lock,               \* holder of stats_lock, 0 when it is free
    pending,            \* updates each process is making, the current one first
    service,            \* user_service of an operator; of a user, dres.service_id
    cust,               \* the user an operator serves, else 0
    stage,              \* where a user is
    visits, shifts,     \* counters for the bounds
    day,
    alive,              \* children not killed yet
    dirPc,
    report              \* the counters as write_stats found them
workers == <<service, cust, stage, visits, shifts>>
director == <<day, alive, dirPc, report>>
vars == <<book, lock, pending, workers, director>>
-----------------------------------------------------------------------------
Processes == Operators \cup Users
Services == 0 .. NumServices - 1
Global == NumServices
Scopes == {"simulation", "today"}
Counters == {"requests", "served", "failed", "late", "pauses", "active"}
Cells == Scopes \X (Services \cup {Global}) \X Counters

ServiceSum(b, scope, counter) == SumFunction([s \in Services |-> b[<<scope, s, counter>>]])

\* The update functions: which counters, in which order.  today.services has a
\* late_users that nobody ever increments.
UpdateRequests(s) == << <<"simulation", s, "requests">>, <<"simulation", Global, "requests">>,
                        <<"today", s, "requests">>, <<"today", Global, "requests">> >>
UpdateSuccess(s) == << <<"simulation", Global, "served">>, <<"simulation", s, "served">>,
                       <<"today", Global, "served">>, <<"today", s, "served">> >>
UpdateFails(s) == << <<"simulation", Global, "failed">>, <<"simulation", s, "failed">>,
                     <<"today", Global, "failed">>, <<"today", s, "failed">> >>
UpdateLate(s) == << <<"today", Global, "late">>, <<"simulation", Global, "late">>,
                    <<"simulation", s, "late">> >>
\* A slip: the day's counter is one place past the office's.
UpdatePauseBeyond == << <<"simulation", Global, "pauses">>, <<"today", Global + 1, "pauses">> >>
UpdatePause == << <<"simulation", Global, "pauses">>, <<"today", Global, "pauses">> >>
UpdateActive == << <<"simulation", Global, "active">>, <<"today", Global, "active">> >>

Init ==
    /\ book = [c \in Cells |-> 0]
    /\ lock = 0
    /\ pending = [p \in Processes |-> << >>]
    /\ service \in {f \in [Processes -> Services] : \A u \in Users : f[u] = 0}
    /\ cust = [o \in Operators |-> 0]
    /\ stage = [u \in Users |-> "home"]
    /\ visits = [u \in Users |-> 0]
    /\ shifts = [o \in Operators |-> 0]
    /\ day = 0 /\ alive = Processes /\ dirPc = "running"
    /\ report = [c \in Cells |-> 0]
-----------------------------------------------------------------------------
(* One update: sem_wait, the increments, sem_post.                          *)
Busy(p) == pending[p] # << >>
Idle(p) == p \in alive /\ ~Busy(p)
Makes(p, updates) == pending' = [pending EXCEPT ![p] = updates]

\* A slip: the update does not wait for the lock.
LockUnasked(p) ==
    /\ p \in alive /\ Busy(p)
    /\ lock # p
    /\ lock' = p
    /\ UNCHANGED <<book, pending, workers, director>>

Lock(p) ==
    /\ p \in alive /\ Busy(p)
    /\ lock = 0
    /\ lock' = p
    /\ UNCHANGED <<book, pending, workers, director>>

Increment(p) ==
    /\ p \in alive /\ Busy(p) /\ lock = p
    /\ Head(pending[p]) # << >>
    /\ book' = [book EXCEPT ![Head(Head(pending[p]))] = @ + 1]
    /\ pending' = [pending EXCEPT ![p][1] = Tail(@)]
    /\ UNCHANGED <<lock, workers, director>>

Unlock(p) ==
    /\ p \in alive /\ Busy(p) /\ lock = p
    /\ Head(pending[p]) = << >>
    /\ lock' = 0
    /\ pending' = [pending EXCEPT ![p] = Tail(@)]
    /\ UNCHANGED <<book, workers, director>>
-----------------------------------------------------------------------------
(* The operator.                                                            *)

\* It takes a request and counts it before the service begins.
OpTake(o) ==
    /\ Idle(o) /\ cust[o] = 0 /\ shifts[o] < MaxShifts
    /\ \E u \in Users :
          /\ stage[u] = "waiting"
          /\ cust' = [cust EXCEPT ![o] = u]
          /\ stage' = [stage EXCEPT ![u] = "taken"]
    /\ Makes(o, <<UpdateRequests(service[o])>>)
    /\ UNCHANGED <<book, lock, service, visits, shifts, director>>

\* The answer names the operator's service, not the one the user asked for.  The
\* operator may go home early: a pause, and the day is over.
OpAnswer(o) ==
    /\ Idle(o) /\ cust[o] # 0
    /\ stage' = [stage EXCEPT ![cust[o]] = "answered"]
    /\ service' = [service EXCEPT ![cust[o]] = service[o]]
    /\ cust' = [cust EXCEPT ![o] = 0]
    /\ \/ UNCHANGED <<pending, shifts>>
       \/ /\ Makes(o, <<UpdatePause, UpdateActive>>)
          /\ shifts' = [shifts EXCEPT ![o] = @ + 1]
    /\ UNCHANGED <<book, lock, visits, director>>

OpShiftOver(o) ==
    /\ Idle(o) /\ cust[o] = 0 /\ shifts[o] < MaxShifts
    /\ Makes(o, <<UpdateActive>>)
    /\ shifts' = [shifts EXCEPT ![o] = @ + 1]
    /\ UNCHANGED <<book, lock, service, cust, stage, visits, director>>
-----------------------------------------------------------------------------
(* The user.                                                                *)
Arrives(u) == /\ Idle(u) /\ stage[u] = "home" /\ visits[u] < MaxVisits
              /\ visits' = [visits EXCEPT ![u] = @ + 1]

UtPresent(u) ==
    /\ Arrives(u)
    /\ stage' = [stage EXCEPT ![u] = "waiting"]
    /\ UNCHANGED <<book, lock, pending, service, cust, shifts, director>>

\* No counter for the service; or the closing hour before the user has one.
UtUnserved(u) ==
    /\ Arrives(u)
    /\ \E s \in Services : \/ Makes(u, <<UpdateFails(s)>>)
                           \/ Makes(u, <<UpdateLate(s), UpdateFails(s)>>)
    /\ UNCHANGED <<book, lock, service, cust, stage, shifts, director>>

\* A slip: a service that ends after the closing hour is not counted as served.
UtDoneLateOnly(u) ==
    /\ Idle(u) /\ stage[u] = "answered"
    /\ stage' = [stage EXCEPT ![u] = "home"]
    /\ service' = [service EXCEPT ![u] = 0]
    /\ \/ Makes(u, <<UpdateSuccess(service[u])>>)
       \/ \E s \in Services : Makes(u, <<UpdateLate(s)>>)
    /\ UNCHANGED <<book, lock, cust, visits, shifts, director>>

UtDone(u) ==
    /\ Idle(u) /\ stage[u] = "answered"
    /\ stage' = [stage EXCEPT ![u] = "home"]
    /\ service' = [service EXCEPT ![u] = 0]
    /\ \/ Makes(u, <<UpdateSuccess(service[u])>>)
       \/ \E s \in Services : Makes(u, <<UpdateSuccess(service[u]), UpdateLate(s)>>)
    /\ UNCHANGED <<book, lock, cust, visits, shifts, director>>
-----------------------------------------------------------------------------
(* The director.                                                            *)
Midnight == /\ dirPc = "running" /\ day < MaxDays
            /\ day' = day + 1
            /\ book' = [c \in Cells |-> IF c[1] = "today" THEN 0 ELSE book[c]]
            /\ UNCHANGED <<lock, pending, workers, alive, dirPc, report>>

\* A slip: the day's counters are cleared without the lock.
DirNewDayUnlocked == Midnight

DirNewDay == lock = 0 /\ Midnight

\* The next child dies, with what it had still to count and the lock it may hold.
DirKill ==
    /\ dirPc \in {"running", "killing"}
    /\ \E p \in alive : /\ \A q \in alive : p <= q
                        /\ alive' = alive \ {p}
                        /\ Makes(p, << >>)
    /\ dirPc' = "killing"
    /\ UNCHANGED <<book, lock, workers, day, report>>

\* A slip: the report asks for the lock.
DirReportLocked ==
    /\ dirPc = "killing" /\ alive = {} /\ lock = 0
    /\ report' = book
    /\ dirPc' = "done"
    /\ UNCHANGED <<book, lock, pending, workers, day, alive>>

\* print_final_stats and write_stats read the book as it was left.  If the folder or
\* the file cannot be created write_stats returns with nothing written.
DirReport ==
    /\ dirPc = "killing" /\ alive = {}
    /\ \/ report' = book /\ dirPc' = "done"
       \/ UNCHANGED report /\ dirPc' = "unwritten"
    /\ UNCHANGED <<book, lock, pending, workers, day, alive>>

DirStep == DirNewDay \/ DirKill \/ DirReport
ProcessStep(p) == Lock(p) \/ Increment(p) \/ Unlock(p)
Next == \/ \E p \in Processes : ProcessStep(p)
        \/ \E o \in Operators : OpTake(o) \/ OpAnswer(o) \/ OpShiftOver(o)
        \/ \E u \in Users : UtPresent(u) \/ UtUnserved(u) \/ UtDone(u)
        \/ DirStep

Spec == Init /\ [][Next]_vars

(* The director is never held up once it has begun to kill its children.    *)
Fairness == WF_vars(DirKill /\ dirPc = "killing") /\ WF_vars(DirReport)
FairSpec == Spec /\ Fairness

TypeOK ==
    /\ book \in [Cells -> Nat] /\ report \in [Cells -> Nat]
    /\ lock \in Processes \cup {0}
    /\ \A p \in Processes : \A k \in 1 .. Len(pending[p]) : pending[p][k] \in Seq(Cells)
    /\ service \in [Processes -> Services]
    /\ cust \in [Operators -> Users \cup {0}]
    /\ stage \in [Users -> {"home", "waiting", "taken", "answered"}]
    /\ alive \subseteq Processes
    /\ dirPc \in {"running", "killing", "done", "unwritten"}
-----------------------------------------------------------------------------
(* Late users of a day are counted for the office only.                     *)
Balanced == (Scopes \X {"requests", "served", "failed"}) \cup {<<"simulation", "late">>}
Gap(b, x) == b[<<x[1], Global, x[2]>>] - ServiceSum(b, x[1], x[2])
Imbalance(b) ==
    SumFunction([x \in Balanced |-> IF Gap(b, x) < 0 THEN -Gap(b, x) ELSE Gap(b, x)])

\* Whenever the lock is free the office's counters are the sums of the services',
\* on either side of a midnight, although the functions go through them in
\* different orders (operatore.c:53-60, utente.c:133-157, 172-189,
\* direttore.c:159-162).
BooksBalance == lock = 0 => Imbalance(book) = 0

\* The requests an operator counted for service s and that are not among the
\* served ones yet are those of the users in its hands or with its answer.
Underway(s) ==
    Cardinality({o \in Operators : cust[o] # 0 /\ service[o] = s /\ ~Busy(o)})
    + Cardinality({u \in Users : \/ stage[u] = "answered" /\ service[u] = s
                                 \/ Busy(u) /\ Head(pending[u]) = UpdateSuccess(s)})

\* No service is lost or counted twice between the operator, who counts the
\* request, and the user, who counts the success: a user that fails has not been
\* counted as a request (operatore.c:293, 306, utente.c:243-246, 287-295).
RequestsAccounted ==
    lock = 0 /\ dirPc = "running" => \A s \in Services :
        book[<<"simulation", s, "requests">>] - book[<<"simulation", s, "served">>] = Underway(s)

\* However the children died, a report that is written is off by at most one
\* increment, and it never shows more services than requests (direttore.c:429-438).
ReportOffByOne ==
    dirPc = "done" =>
        /\ Imbalance(report) <= 1
        /\ \A s \in Services \cup {Global} :
              report[<<"simulation", s, "served">>] <= report[<<"simulation", s, "requests">>]

\* A child that dies holding stats_lock never releases it, and the director gets past
\* its report all the same: it is written, or its file could not be created
\* (direttore.c:229-254, 429-438).
ReportNotHeldUp == dirPc = "killing" ~> dirPc \in {"done", "unwritten"}
=============================================================================
