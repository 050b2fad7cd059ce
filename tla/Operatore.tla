------------------------------ MODULE Operatore ------------------------------
(***************************************************************************)
(* The operator process.  Its program counter:                             *)
(*                                                                         *)
(*   "dayWait"    sem_wait(day_update_event)                               *)
(*   "openWait"   sem_wait(open_poste_event)                               *)
(*   "arrived"    can_work_today, without the lock, one seat per step      *)
(*   "seek"       find_seat and take_seat under stations_lock              *)
(*   "waitSeat"   sem_timedwait(stations_event), whose deadline has passed *)
(*   "timedOut"   did_poste_close after a failed sem_timedwait             *)
(*   "scan"       find_seat WITHOUT the lock, one seat per step            *)
(*   "take"       take_seat of the seat the scan returned                  *)
(*   "closed?"    did_poste_close at the head of the work loop             *)
(*   "poll"       msgrcv(IPC_NOWAIT) of a service request                  *)
(*   "serve"      process_service, then send_service_done                  *)
(*   "leave"      release_seat, the part under stations_lock               *)
(*   "signal"     release_seat, the sem_post(stations_event)               *)
(***************************************************************************)
EXTENDS PosteDefs

VARIABLES
    opPc,
    opService,          \* user_service: drawn once, at start
    opSeat,             \* current_seat; the index reached in "arrived" and "scan"
    opCust,             \* sender_pid of the request being served, else 0
    opTicket,           \* its ticket_number
    opPauses            \* pauses_done
opVars == <<opPc, opService, opSeat, opCust, opTicket, opPauses>>

OpPcs == {"dayWait", "openWait", "arrived", "seek", "waitSeat", "timedOut",
          "scan", "take", "closed?", "poll", "serve", "leave", "signal"}

\* Where current_seat is a seat the operator has taken.
OnDuty == {"closed?", "poll", "serve", "leave"}

OpInit ==
    /\ opPc = [o \in Operators |-> "dayWait"]
    /\ opService \in [Operators -> Services]
    /\ opSeat = [o \in Operators |-> NoSeat]
    /\ opCust = [o \in Operators |-> 0]
    /\ opTicket = [o \in Operators |-> NoTicket]
    /\ opPauses = [o \in Operators |-> 0]

OpGoto(o, pc) == opPc' = [opPc EXCEPT ![o] = pc]
OpAt(o, pc) == opPc[o] = pc
-----------------------------------------------------------------------------
OpDayStart(o) ==
    /\ OpAt(o, "dayWait")
    /\ sem_wait(day_update_event)
    /\ begun' = [begun EXCEPT ![o] = current_day]
    /\ OpGoto(o, "openWait")
    /\ UNCHANGED <<seatVars, clockVars, open_poste_event, close_poste_event,
                   late_users, queue, opService, opSeat, opCust, opTicket, opPauses>>

OpEnter(o) ==
    /\ OpAt(o, "openWait")
    /\ sem_wait(open_poste_event)
    /\ opSeat' = [opSeat EXCEPT ![o] = 0]
    /\ OpGoto(o, "arrived")
    /\ UNCHANGED <<seatVars, clockVars, close_poste_event, day_update_event,
                   late_users, queue, begun, opService, opCust, opTicket, opPauses>>

\* A slip of the loop: the first counter decides for all.
OffersFirst(o, i) == i \in Seats /\ seats[0].service_id = opService[o]

Offers(o, i) == seats[i].service_id = opService[o]

\* When no counter offers the service the working day is over at once.
OpCanWorkToday(o) ==
    /\ OpAt(o, "arrived")
    /\ LET i == opSeat[o]
       IN  \/ /\ i \in Seats /\ Offers(o, i)
              /\ opSeat' = [opSeat EXCEPT ![o] = NoSeat]
              /\ OpGoto(o, "seek")
           \/ /\ i \in Seats /\ ~Offers(o, i)
              /\ opSeat' = [opSeat EXCEPT ![o] = i + 1]
              /\ UNCHANGED opPc
           \/ /\ i \notin Seats
              /\ opSeat' = [opSeat EXCEPT ![o] = NoSeat]
              /\ OpGoto(o, "dayWait")
    /\ UNCHANGED <<sharedVars, opService, opCust, opTicket, opPauses>>
-----------------------------------------------------------------------------
(* Looking for a counter.                                                   *)
Suits(o, i) == seats[i].operator_status = "FREE" /\ Offers(o, i)

\* find_seat returns the lowest suitable index.
FirstSuiting(o, i) == Suits(o, i) /\ \A j \in 0 .. (i - 1) : ~Suits(o, j)

take_seat(o, i) ==
    seats' = [seats EXCEPT ![i].operator_process = o,
                           ![i].operator_status = "OCCUPIED"]

OpSeek(o) ==
    /\ OpAt(o, "seek")
    /\ \/ \E i \in Seats :
             /\ FirstSuiting(o, i)
             /\ take_seat(o, i)
             /\ opSeat' = [opSeat EXCEPT ![o] = i]
             /\ OpGoto(o, "closed?")
       \/ /\ \A i \in Seats : ~Suits(o, i)
          /\ OpGoto(o, "waitSeat")
          /\ UNCHANGED <<seats, opSeat>>
    /\ UNCHANGED <<stations_event, clockVars, open_poste_event, close_poste_event,
                   day_update_event, late_users, queue, begun,
                   opService, opCust, opTicket, opPauses>>

\* The deadline is 5 minutes after the epoch, so sem_timedwait never sleeps: it
\* takes a token that is there, and otherwise has already timed out.
OpStationEvent(o) ==
    /\ OpAt(o, "waitSeat")
    /\ sem_wait(stations_event)
    /\ opSeat' = [opSeat EXCEPT ![o] = 0]
    /\ OpGoto(o, "scan")
    /\ UNCHANGED <<seats, clockVars, open_poste_event, close_poste_event,
                   day_update_event, late_users, queue, begun,
                   opService, opCust, opTicket, opPauses>>

OpStationTimeout(o) ==
    /\ OpAt(o, "waitSeat")
    /\ stations_event = 0
    /\ OpGoto(o, "timedOut")
    /\ UNCHANGED <<sharedVars, opService, opSeat, opCust, opTicket, opPauses>>

OpTimedOut(o) ==
    /\ OpAt(o, "timedOut")
    /\ \/ sem_wait(close_poste_event) /\ OpGoto(o, "dayWait")
       \/ close_poste_event = 0 /\ UNCHANGED close_poste_event /\ OpGoto(o, "waitSeat")
    /\ UNCHANGED <<seatVars, clockVars, open_poste_event, day_update_event,
                   late_users, queue, begun,
                   opService, opSeat, opCust, opTicket, opPauses>>

\* One iteration of the unlocked find_seat.  Past the last seat the event is
\* posted again and the wait starts over.
OpScan(o) ==
    /\ OpAt(o, "scan")
    /\ \/ /\ opSeat[o] \in Seats /\ Suits(o, opSeat[o])
          /\ OpGoto(o, "take")
          /\ UNCHANGED <<stations_event, opSeat>>
       \/ /\ opSeat[o] \in Seats /\ ~Suits(o, opSeat[o])
          /\ opSeat' = [opSeat EXCEPT ![o] = @ + 1]
          /\ UNCHANGED <<stations_event, opPc>>
       \/ /\ opSeat[o] \notin Seats
          /\ sem_post(stations_event)
          /\ opSeat' = [opSeat EXCEPT ![o] = NoSeat]
          /\ OpGoto(o, "waitSeat")
    /\ UNCHANGED <<seats, clockVars, open_poste_event, close_poste_event,
                   day_update_event, late_users, queue, begun,
                   opService, opCust, opTicket, opPauses>>

\* The lock is taken but the seat is not looked at again.
OpTake(o) ==
    /\ OpAt(o, "take")
    /\ take_seat(o, opSeat[o])
    /\ OpGoto(o, "closed?")
    /\ UNCHANGED <<stations_event, clockVars, open_poste_event, close_poste_event,
                   day_update_event, late_users, queue, begun,
                   opService, opSeat, opCust, opTicket, opPauses>>
-----------------------------------------------------------------------------
(* The work loop.                                                           *)
did_poste_close(o) ==
    /\ OpAt(o, "closed?")
    /\ \/ sem_wait(close_poste_event) /\ OpGoto(o, "leave")
       \/ close_poste_event = 0 /\ UNCHANGED close_poste_event /\ OpGoto(o, "poll")
    /\ UNCHANGED <<seatVars, clockVars, open_poste_event, day_update_event,
                   late_users, queue, begun,
                   opService, opSeat, opCust, opTicket, opPauses>>

\* Slips of the poll: the request is looked at and left in the queue; it is taken
\* and forgotten.
OpPollPeeking(o) ==
    /\ OpAt(o, "poll")
    /\ \/ \E i \in 1 .. Len(queue) :
             /\ IsFirst(ServiceRequestType(o), i)
             /\ opCust' = [opCust EXCEPT ![o] = queue[i].pid]
             /\ opTicket' = [opTicket EXCEPT ![o] = queue[i].ticket]
             /\ OpGoto(o, "serve")
       \/ /\ ~Waiting(ServiceRequestType(o))
          /\ OpGoto(o, "closed?")
          /\ UNCHANGED <<opCust, opTicket>>
    /\ UNCHANGED <<seatVars, clockVars, open_poste_event, close_poste_event,
                   day_update_event, late_users, begun, queue,
                   opService, opSeat, opPauses>>

OpPollForgetting(o) ==
    /\ OpAt(o, "poll")
    /\ \/ \E i \in 1 .. Len(queue) : mq_receive(ServiceRequestType(o), i)
       \/ ~Waiting(ServiceRequestType(o)) /\ UNCHANGED queue
    /\ OpGoto(o, "closed?")
    /\ UNCHANGED <<seatVars, clockVars, open_poste_event, close_poste_event,
                   day_update_event, late_users, begun,
                   opService, opSeat, opCust, opTicket, opPauses>>

OpPoll(o) ==
    /\ OpAt(o, "poll")
    /\ \/ \E i \in 1 .. Len(queue) :
             /\ mq_receive(ServiceRequestType(o), i)
             /\ opCust' = [opCust EXCEPT ![o] = queue[i].pid]
             /\ opTicket' = [opTicket EXCEPT ![o] = queue[i].ticket]
             /\ OpGoto(o, "serve")
       \/ /\ ~Waiting(ServiceRequestType(o))
          /\ OpGoto(o, "closed?")
          /\ UNCHANGED <<queue, opCust, opTicket>>
    /\ UNCHANGED <<seatVars, clockVars, open_poste_event, close_poste_event,
                   day_update_event, late_users, begun,
                   opService, opSeat, opPauses>>

\* The service takes some time, the customer is answered, and with a pause left
\* the operator may go home early.
OpServe(o) ==
    /\ OpAt(o, "serve")
    /\ mq_send(ServiceDone(o, opCust[o], opTicket[o]))
    /\ \/ OpGoto(o, "closed?") /\ UNCHANGED opPauses
       \/ /\ opPauses[o] < NofPause
          /\ opPauses' = [opPauses EXCEPT ![o] = @ + 1]
          /\ OpGoto(o, "leave")
    /\ opCust' = [opCust EXCEPT ![o] = 0]
    /\ opTicket' = [opTicket EXCEPT ![o] = NoTicket]
    /\ UNCHANGED <<seatVars, clockVars, open_poste_event, close_poste_event,
                   day_update_event, late_users, begun, opService, opSeat>>
-----------------------------------------------------------------------------
(* release_seat, and its slips: the pid stays behind; only the pid goes.     *)
ReleaseKeepingPid(i) == seats' = [seats EXCEPT ![i].operator_status = "FREE"]
ReleaseKeepingStatus(i) == seats' = [seats EXCEPT ![i].operator_process = 0]

release_seat(i) ==
    seats' = [seats EXCEPT ![i].operator_status = "FREE",
                           ![i].operator_process = 0]

OpLeave(o) ==
    /\ OpAt(o, "leave")
    /\ release_seat(opSeat[o])
    /\ opSeat' = [opSeat EXCEPT ![o] = NoSeat]
    /\ OpGoto(o, "signal")
    /\ UNCHANGED <<stations_event, clockVars, open_poste_event, close_poste_event,
                   day_update_event, late_users, queue, begun,
                   opService, opCust, opTicket, opPauses>>

OpSignal(o) ==
    /\ OpAt(o, "signal")
    /\ sem_post(stations_event)
    /\ OpGoto(o, "dayWait")
    /\ UNCHANGED <<seats, clockVars, open_poste_event, close_poste_event,
                   day_update_event, late_users, queue, begun,
                   opService, opSeat, opCust, opTicket, opPauses>>
-----------------------------------------------------------------------------
OpNext(o) ==
    \/ OpDayStart(o) \/ OpEnter(o) \/ OpCanWorkToday(o)
    \/ OpSeek(o) \/ OpStationEvent(o) \/ OpStationTimeout(o) \/ OpTimedOut(o)
    \/ OpScan(o) \/ OpTake(o)
    \/ did_poste_close(o) \/ OpPoll(o) \/ OpServe(o)
    \/ OpLeave(o) \/ OpSignal(o)

OpTypeOK ==
    /\ opPc \in [Operators -> OpPcs]
    /\ opService \in [Operators -> Services]
    /\ opSeat \in [Operators -> (0 .. NumSeats) \cup {NoSeat}]
    /\ opCust \in [Operators -> Processes \cup {0}]
    /\ opTicket \in [Operators -> Nat \cup {NoTicket}]
    /\ opPauses \in [Operators -> Nat]
    /\ \A o \in Operators : /\ opPc[o] \in OnDuty \cup {"take"} => opSeat[o] \in Seats
                            /\ opPc[o] \in {"arrived", "scan"} => opSeat[o] \in 0 .. NumSeats
=============================================================================
