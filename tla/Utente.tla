------------------------------- MODULE Utente --------------------------------
(***************************************************************************)
(* The user process.  Its program counter:                                 *)
(*                                                                         *)
(*   "dayWait"      sem_wait(day_update_event)                             *)
(*   "decide"       a second later: will_go_to_poste and the day's plan    *)
(*   "openWait"     sem_wait(open_poste_event)                             *)
(*   "walkIn"       busy_wait_until_walk_in                                *)
(*   "next"         head of the loop over the service list                 *)
(*   "lateHome"     handle_late_users, called by day_loop                  *)
(*   "request"      send_ticket_request                                    *)
(*   "awaitTicket"  await_ticket_response                                  *)
(*   "look"         find_valid_seats, under stations_lock                  *)
(*   "claim"        attempt_take_seat, under stations_lock                 *)
(*   "seatWait"     asleep between two attempts                            *)
(*   "readOp"       the unlocked read of operator_process                  *)
(*   "present"      send_service_request                                   *)
(*   "awaitDone"    await_service_done                                     *)
(*   "served"       the check of the hour                                  *)
(*   "late"         handle_late_users, called by handle_service            *)
(*   "free"         the seat's user_status is cleared, under stations_lock *)
(*                                                                         *)
(* The services of the list are drawn at random and nothing depends on     *)
(* them before find_valid_seats, so each is drawn there.  No process       *)
(* installs a signal handler, so msgrcv never returns EINTR and its error  *)
(* branches are not reached.                                               *)
(***************************************************************************)
EXTENDS PosteDefs

VARIABLES
    utPc,
    utLeft,             \* services of today's list not yet dealt with
    utWalk,             \* walk_in_time
    utTicket,           \* tres.ticket_number
    utValid,            \* valid_seats
    utSeat,             \* current_seat of handle_service
    utOp,               \* op_pid
    utBeenLate          \* been_late_today
utVars == <<utPc, utLeft, utWalk, utTicket, utValid, utSeat, utOp, utBeenLate>>

UtPcs == {"dayWait", "decide", "openWait", "walkIn", "next", "lateHome", "request",
          "awaitTicket", "look", "claim", "seatWait", "readOp", "present",
          "awaitDone", "served", "late", "free"}

\* Where the user holds a ticket, and where it holds a counter.
AtSeat == {"readOp", "present", "awaitDone", "served", "free"}
Ticketed == AtSeat \cup {"look", "claim", "seatWait", "late"}

UtInit ==
    /\ utPc = [u \in Users |-> "dayWait"]
    /\ utLeft = [u \in Users |-> 0]
    /\ utWalk = [u \in Users |-> 0]
    /\ utTicket = [u \in Users |-> NoTicket]
    /\ utValid = [u \in Users |-> {}]
    /\ utSeat = [u \in Users |-> NoSeat]
    /\ utOp = [u \in Users |-> 0]
    /\ utBeenLate = [u \in Users |-> FALSE]

UtGoto(u, pc) == utPc' = [utPc EXCEPT ![u] = pc]
UtAt(u, pc) == utPc[u] = pc
ShiftOver == current_minute >= CloseMinute
-----------------------------------------------------------------------------
\* generate_walk_in_time: at least RequestMargin minutes per request before the
\* closing hour when there is room, the first minute of the shift when not.
WalkInTimes(n) ==
    LET max_time == CloseMinute - RequestMargin * n - OpenMinute
    IN  {OpenMinute + r + 1 : r \in 0 .. (IF max_time < 1 THEN 0 ELSE max_time - 1)}

UtDayStart(u) ==
    /\ UtAt(u, "dayWait")
    /\ sem_wait(day_update_event)
    /\ begun' = [begun EXCEPT ![u] = current_day]
    /\ UtGoto(u, "decide")
    /\ UNCHANGED <<seatVars, clockVars, open_poste_event, close_poste_event, late_users,
                   queue, utLeft, utWalk, utTicket, utValid, utSeat, utOp, utBeenLate>>

\* generate_service_list and generate_walk_in_time.
PlanDay(u) ==
    \E n \in 1 .. MaxRequests : \E w \in WalkInTimes(n) :
        /\ utLeft' = [utLeft EXCEPT ![u] = n]
        /\ utWalk' = [utWalk EXCEPT ![u] = w]
        /\ UtGoto(u, "openWait")

\* A slip of the day's start: been_late_today keeps yesterday's value.
UtDecideStillLate(u) ==
    /\ UtAt(u, "decide")
    /\ \/ PlanDay(u)
       \/ UtGoto(u, "dayWait") /\ UNCHANGED <<utLeft, utWalk>>
    /\ UNCHANGED <<sharedVars, utTicket, utValid, utSeat, utOp, utBeenLate>>

\* A new day: the user stays at home, or plans it.
UtDecide(u) ==
    /\ UtAt(u, "decide")
    /\ utBeenLate' = [utBeenLate EXCEPT ![u] = FALSE]
    /\ \/ PlanDay(u)
       \/ UtGoto(u, "dayWait") /\ UNCHANGED <<utLeft, utWalk>>
    /\ UNCHANGED <<sharedVars, utTicket, utValid, utSeat, utOp>>

UtEnter(u) ==
    /\ UtAt(u, "openWait")
    /\ sem_wait(open_poste_event)
    /\ UtGoto(u, "walkIn")
    /\ UNCHANGED <<seatVars, clockVars, close_poste_event, day_update_event, late_users, queue,
                   begun, utLeft, utWalk, utTicket, utValid, utSeat, utOp, utBeenLate>>

UtWalkIn(u) ==
    /\ UtAt(u, "walkIn")
    /\ current_minute >= utWalk[u]
    /\ utWalk' = [utWalk EXCEPT ![u] = 0]
    /\ UtGoto(u, "next")
    /\ UNCHANGED <<sharedVars, utLeft, utTicket, utValid, utSeat, utOp, utBeenLate>>
-----------------------------------------------------------------------------
\* A user is counted late at most once between two decisions.
handle_late_users(u) ==
    /\ late_users' = IF utBeenLate[u] THEN late_users ELSE late_users + 1
    /\ utBeenLate' = [utBeenLate EXCEPT ![u] = TRUE]

\* handle_service returns: its locals are gone and one service fewer is left.
ServiceOver(u) ==
    /\ utLeft' = [utLeft EXCEPT ![u] = @ - 1]
    /\ utTicket' = [utTicket EXCEPT ![u] = NoTicket]
    /\ utValid' = [utValid EXCEPT ![u] = {}]
    /\ utSeat' = [utSeat EXCEPT ![u] = NoSeat]
    /\ utOp' = [utOp EXCEPT ![u] = 0]
    /\ UtGoto(u, "next")

\* Slips of the loop and of the receive: one service too many is asked for; the
\* user does not wait for its ticket.
UtNextServiceTooMany(u) ==
    /\ UtAt(u, "next")
    /\ UtGoto(u, IF ShiftOver THEN "lateHome" ELSE "request")
    /\ UNCHANGED <<sharedVars, utLeft, utWalk, utTicket, utValid, utSeat, utOp, utBeenLate>>

UtTicketNoWait(u) ==
    /\ UtAt(u, "awaitTicket")
    /\ ~Waiting(u)
    /\ ServiceOver(u)
    /\ UNCHANGED <<sharedVars, utWalk, utBeenLate>>

\* The loop over the list: finished, cut short by the closing hour, or one more.
UtNextService(u) ==
    /\ UtAt(u, "next")
    /\ \/ utLeft[u] = 0 /\ UtGoto(u, "dayWait")
       \/ utLeft[u] > 0 /\ ShiftOver /\ UtGoto(u, "lateHome")
       \/ utLeft[u] > 0 /\ ~ShiftOver /\ UtGoto(u, "request")
    /\ UNCHANGED <<sharedVars, utLeft, utWalk, utTicket, utValid, utSeat, utOp, utBeenLate>>

\* The rest of the list is dropped.
UtLateHome(u) ==
    /\ UtAt(u, "lateHome")
    /\ handle_late_users(u)
    /\ utLeft' = [utLeft EXCEPT ![u] = 0]
    /\ UtGoto(u, "dayWait")
    /\ UNCHANGED <<seatVars, clockVars, open_poste_event, close_poste_event,
                   day_update_event, queue, begun, utWalk, utTicket, utValid, utSeat, utOp>>

UtRequest(u) ==
    /\ UtAt(u, "request")
    /\ mq_send(TicketRequest(u))
    /\ UtGoto(u, "awaitTicket")
    /\ UNCHANGED <<seatVars, clockVars, open_poste_event, close_poste_event, day_update_event,
                   late_users, begun, utLeft, utWalk, utTicket, utValid, utSeat, utOp,
                   utBeenLate>>

UtTicket(u) ==
    /\ UtAt(u, "awaitTicket")
    /\ \E i \in 1 .. Len(queue) :
          /\ mq_receive(u, i)
          /\ utTicket' = [utTicket EXCEPT ![u] = queue[i].ticket]
    /\ UtGoto(u, "look")
    /\ UNCHANGED <<seatVars, clockVars, open_poste_event, close_poste_event, day_update_event,
                   late_users, begun, utLeft, utWalk, utValid, utSeat, utOp, utBeenLate>>

\* find_valid_seats for the next service of the list; none fails the service.
UtLook(u) ==
    /\ UtAt(u, "look")
    /\ \E s \in Services :
          LET valid == {i \in Seats : /\ seats[i].service_id = s
                                      /\ seats[i].operator_status = "OCCUPIED"}
          IN  \/ /\ valid # {}
                 /\ utValid' = [utValid EXCEPT ![u] = valid]
                 /\ UtGoto(u, "claim")
                 /\ UNCHANGED <<utLeft, utTicket, utSeat, utOp>>
              \/ valid = {} /\ ServiceOver(u)
    /\ UNCHANGED <<sharedVars, utWalk, utBeenLate>>

\* A slip of attempt_take_seat: the seat's user_status is not tested.
UtClaimAnySeat(u) ==
    /\ UtAt(u, "claim")
    /\ \E i \in utValid[u] :
          /\ seats' = [seats EXCEPT ![i].user_status = "OCCUPIED"]
          /\ utSeat' = [utSeat EXCEPT ![u] = i]
          /\ utValid' = [utValid EXCEPT ![u] = {}]
          /\ UtGoto(u, "readOp")
    /\ UNCHANGED <<stations_event, clockVars, open_poste_event, close_poste_event,
                   day_update_event, late_users, queue, begun,
                   utLeft, utWalk, utTicket, utOp, utBeenLate>>

\* attempt_take_seat: the first listed seat without a user.
UtClaim(u) ==
    /\ UtAt(u, "claim")
    /\ \/ \E i \in utValid[u] :
             /\ seats[i].user_status = "FREE"
             /\ \A j \in utValid[u] : j < i => seats[j].user_status # "FREE"
             /\ seats' = [seats EXCEPT ![i].user_status = "OCCUPIED"]
             /\ utSeat' = [utSeat EXCEPT ![u] = i]
             /\ utValid' = [utValid EXCEPT ![u] = {}]
             /\ UtGoto(u, "readOp")
       \/ /\ \A i \in utValid[u] : seats[i].user_status # "FREE"
          /\ UtGoto(u, "seatWait")
          /\ UNCHANGED <<seats, utSeat, utValid>>
    /\ UNCHANGED <<stations_event, clockVars, open_poste_event, close_poste_event,
                   day_update_event, late_users, queue, begun,
                   utLeft, utWalk, utTicket, utOp, utBeenLate>>

\* After five minutes: late, or another attempt at the same list of seats.
UtSeatWait(u) ==
    /\ UtAt(u, "seatWait")
    /\ UtGoto(u, IF ShiftOver THEN "late" ELSE "claim")
    /\ UNCHANGED <<sharedVars, utLeft, utWalk, utTicket, utValid, utSeat, utOp, utBeenLate>>
-----------------------------------------------------------------------------
UtReadOp(u) ==
    /\ UtAt(u, "readOp")
    /\ utOp' = [utOp EXCEPT ![u] = seats[utSeat[u]].operator_process]
    /\ UtGoto(u, "present")
    /\ UNCHANGED <<sharedVars, utLeft, utWalk, utTicket, utValid, utSeat, utBeenLate>>

UtPresent(u) ==
    /\ UtAt(u, "present")
    /\ mq_send(ServiceRequest(u, utOp[u], utTicket[u]))
    /\ UtGoto(u, "awaitDone")
    /\ UNCHANGED <<seatVars, clockVars, open_poste_event, close_poste_event, day_update_event,
                   late_users, begun, utLeft, utWalk, utTicket, utValid, utSeat, utOp,
                   utBeenLate>>

\* A slip: at the closing hour the user goes without waiting for its answer.
UtDoneOrGone(u) ==
    /\ UtAt(u, "awaitDone")
    /\ \/ /\ \E i \in 1 .. Len(queue) : mq_receive(u, i)
          /\ UtGoto(u, "served")
       \/ ShiftOver /\ UtGoto(u, "late") /\ UNCHANGED queue
    /\ UNCHANGED <<seatVars, clockVars, open_poste_event, close_poste_event, day_update_event,
                   late_users, begun, utLeft, utWalk, utTicket, utValid, utSeat, utOp,
                   utBeenLate>>

UtDone(u) ==
    /\ UtAt(u, "awaitDone")
    /\ \E i \in 1 .. Len(queue) : mq_receive(u, i)
    /\ UtGoto(u, "served")
    /\ UNCHANGED <<seatVars, clockVars, open_poste_event, close_poste_event, day_update_event,
                   late_users, begun, utLeft, utWalk, utTicket, utValid, utSeat, utOp,
                   utBeenLate>>

\* After the closing hour the seat's user_status is left as it is.
UtServed(u) ==
    /\ UtAt(u, "served")
    /\ UtGoto(u, IF ShiftOver THEN "late" ELSE "free")
    /\ UNCHANGED <<sharedVars, utLeft, utWalk, utTicket, utValid, utSeat, utOp, utBeenLate>>

\* The hour was read without the lock: midnight may have come and gone by now.
UtLate(u) ==
    /\ UtAt(u, "late")
    /\ handle_late_users(u)
    /\ ServiceOver(u)
    /\ UNCHANGED <<seatVars, clockVars, open_poste_event, close_poste_event,
                   day_update_event, queue, begun, utWalk>>

\* A slip: the counter is not given back.
UtFreeKeeping(u) ==
    /\ UtAt(u, "free")
    /\ ServiceOver(u)
    /\ UNCHANGED <<sharedVars, utWalk, utBeenLate>>

UtFree(u) ==
    /\ UtAt(u, "free")
    /\ seats' = [seats EXCEPT ![utSeat[u]].user_status = "FREE"]
    /\ ServiceOver(u)
    /\ UNCHANGED <<stations_event, clockVars, open_poste_event, close_poste_event,
                   day_update_event, late_users, queue, begun, utWalk, utBeenLate>>
-----------------------------------------------------------------------------
UtNext(u) ==
    \/ UtDayStart(u) \/ UtDecide(u) \/ UtEnter(u) \/ UtWalkIn(u)
    \/ UtNextService(u) \/ UtLateHome(u) \/ UtRequest(u) \/ UtTicket(u)
    \/ UtLook(u) \/ UtClaim(u) \/ UtSeatWait(u) \/ UtReadOp(u) \/ UtPresent(u)
    \/ UtDone(u) \/ UtServed(u) \/ UtLate(u) \/ UtFree(u)

UtTypeOK ==
    /\ utPc \in [Users -> UtPcs]
    /\ utLeft \in [Users -> Nat]
    /\ utWalk \in [Users -> Nat]
    /\ utTicket \in [Users -> Nat \cup {NoTicket}]
    /\ utValid \in [Users -> SUBSET Seats]
    /\ utSeat \in [Users -> Seats \cup {NoSeat}]
    /\ utOp \in [Users -> Operators \cup {0}]
    /\ utBeenLate \in [Users -> BOOLEAN]
    /\ \A u \in Users : /\ utPc[u] \in AtSeat => utSeat[u] \in Seats
                        /\ utPc[u] \in Ticketed \cup {"request", "awaitTicket"} => utLeft[u] > 0
=============================================================================
