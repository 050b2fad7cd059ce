------------------------------ MODULE PosteDefs ------------------------------
(***************************************************************************)
(* What every process of the post office shares: the configuration, the    *)
(* two shared-memory segments (/poste_stats, /poste_stations), the         *)
(* semaphores kept in them and the one System V message queue that         *)
(* carries tickets and services.                                           *)
(*                                                                         *)
(* A critical section under stations_lock or stats_lock is one atomic      *)
(* step, so the two mutexes do not appear; a read made WITHOUT the lock    *)
(* is always a step of its own.  A process is its pid, a positive number;  *)
(* 0 is "nobody", as in the operator_process field.                        *)
(***************************************************************************)
EXTENDS Integers, FiniteSets, Sequences, SequencesExt

CONSTANTS
    Operators,          \* pids of the operator processes
    Users,              \* pids of the user processes
    NumSeats,           \* num_worker_seats
    NumServices,        \* NUM_SERVICE_TYPES
    OpenMinute,         \* worker_shift_open  * 60
    CloseMinute,        \* worker_shift_close * 60
    DayMinutes,         \* minutes in a day: 1440 in the code
    SimDuration,        \* sim_duration
    ExplodeMax,         \* explode_max
    NofPause,           \* nof_pause
    MaxRequests,        \* max_n_requests
    RequestMargin,      \* minutes set aside per request: 5 in the code
    QueueCapacity       \* messages the kernel's queue holds (msgmnb)

ASSUME PidAssumption ==
    /\ Operators \subseteq Nat \ {0} /\ IsFiniteSet(Operators)
    /\ Users \subseteq Nat \ {0}     /\ IsFiniteSet(Users)
    /\ Operators \cap Users = {}

ASSUME ConfigAssumption ==
    /\ NumSeats \in Nat     /\ NumServices \in Nat \ {0}
    /\ OpenMinute \in Nat   /\ CloseMinute \in Nat
    /\ DayMinutes \in Nat \ {0}
    /\ SimDuration \in Nat  /\ ExplodeMax \in Nat /\ NofPause \in Nat
    /\ MaxRequests \in Nat \ {0} /\ RequestMargin \in Nat
    /\ QueueCapacity \in Nat \ {0}

VARIABLES
    seats,              \* NOF_WORKER_SEATS
    stations_event,     \* semaphore: "a station opened up"
    open_poste_event,   \* semaphore: opening tokens
    close_poste_event,  \* semaphore: closing tokens
    day_update_event,   \* semaphore: new-day tokens
    current_minute,     \* poste_stats.current_minute
    current_day,        \* poste_stats.current_day
    late_users,         \* poste_stats.today.late_users
    queue,              \* the message queue of KEY_TICKET_MSG, oldest first
    begun               \* history: current_day when a process last began a day

seatVars == <<seats, stations_event>>
clockVars == <<current_minute, current_day>>
sharedVars == <<seats, stations_event, open_poste_event, close_poste_event,
                day_update_event, current_minute, current_day, late_users,
                queue, begun>>
-----------------------------------------------------------------------------
Processes == Operators \cup Users
Seats == 0 .. NumSeats - 1
Services == 0 .. NumServices - 1
SeatStatus == {"FREE", "OCCUPIED"}
NoSeat == -1
NoTicket == -1

Seat == [operator_process : Operators \cup {0},
         operator_status : SeatStatus,
         user_status : SeatStatus,
         service_id : Services]

\* A seat nobody sits at: shared memory is created zero-filled, and a new day
\* clears everything but the service, which it draws again.
EmptySeat(s) == [operator_process |-> 0, operator_status |-> "FREE",
                 user_status |-> "FREE", service_id |-> s]
-----------------------------------------------------------------------------
(* Message types.  Requests have types of their own; a reply's type is the  *)
(* pid of its receiver.                                                     *)
TicketRequestType == 1
ServiceRequestType(o) == 3 * 10000 + o

(* No pid of a user is also the type of some other kind of message.         *)
DistinctTypes ==
    \A u \in Users : /\ u # TicketRequestType
                     /\ \A o \in Operators \cup {0} : u # ServiceRequestType(o)

TicketRequest(u)     == [mtype |-> TicketRequestType, kind |-> "ticket_request",
                         pid |-> u, ticket |-> NoTicket]
TicketResponse(u, n) == [mtype |-> u, kind |-> "ticket_response",
                         pid |-> 0, ticket |-> n]
ServiceRequest(u, o, n) == [mtype |-> ServiceRequestType(o),
                            kind |-> "service_request", pid |-> u, ticket |-> n]
ServiceDone(o, u, n) == [mtype |-> u, kind |-> "service_done",
                         pid |-> o, ticket |-> n]

Kinds == {"ticket_request", "ticket_response", "service_request", "service_done"}
Message == [mtype : Nat, kind : Kinds, pid : Processes \cup {0},
            ticket : Nat \cup {NoTicket}]

(* msgsnd without IPC_NOWAIT blocks while the queue is full.                 *)
mq_send(m) == /\ Len(queue) < QueueCapacity
              /\ queue' = Append(queue, m)

(* msgrcv(type) takes the oldest message of that type, here the i-th one.    *)
IsFirst(t, i) == /\ i \in 1 .. Len(queue)
                 /\ queue[i].mtype = t
                 /\ \A j \in 1 .. (i - 1) : queue[j].mtype # t
Waiting(t) == \E i \in 1 .. Len(queue) : queue[i].mtype = t
mq_receive(t, i) == IsFirst(t, i) /\ queue' = RemoveAt(queue, i)
-----------------------------------------------------------------------------
(* Semaphores.  sem_wait, and a sem_trywait or sem_timedwait that succeeds,   *)
(* take one token; the failing case of a try is written where it is used.    *)
sem_wait(sem) == sem > 0 /\ sem' = sem - 1
sem_post(sem) == sem' = sem + 1

SharedInit ==
    /\ seats = [i \in Seats |-> EmptySeat(0)]
    /\ stations_event = 0 /\ open_poste_event = 0
    /\ close_poste_event = 0 /\ day_update_event = 0
    /\ current_minute = 0 /\ current_day = 0 /\ late_users = 0
    /\ queue = << >>
    /\ begun = [p \in Processes |-> 0]

SharedTypeOK ==
    /\ seats \in [Seats -> Seat]
    /\ stations_event \in Nat /\ open_poste_event \in Nat
    /\ close_poste_event \in Nat /\ day_update_event \in Nat
    /\ current_minute \in Nat /\ current_day \in Nat /\ late_users \in Nat
    /\ queue \in Seq(Message)
    /\ begun \in [Processes -> Nat]
=============================================================================
