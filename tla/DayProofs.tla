------------------------------ MODULE DayProofs -------------------------------
(***************************************************************************)
(* The director's days, and what holds until the second of them is set up. *)
(* Before the first new-day tokens are posted everybody is still waiting   *)
(* for one, so the table is cleared under nobody; on the first day, then,  *)
(* whoever sits at a counter closed it, nobody opens it for him, and an    *)
(* operator sent home has seen no counter of its service.  As nobody has   *)
(* begun a day before it is set up, the count of late users starts from    *)
(* nobody each day.  The opening hour of the first day comes before any    *)
(* opening token and its closing hour before any closing token, of which   *)
(* there are enough as long as no user's new-day token is left to take.    *)
(***************************************************************************)
EXTENDS PosteProofs

\* No process has begun its first day.
Dawn == current_day = 0 \/ (current_day = 1 /\ dirPc \in {"seats", "announce"})

DayInv ==
    /\ dirPc = "newDay" => days_elapsed = current_day + 1
    /\ dirPc \in {"minute", "closing", "midnight", "seats", "announce", "advance"}
          => days_elapsed = current_day
    /\ current_day = 0 => dirPc \notin {"seats", "announce", "advance"}
    /\ Dawn => /\ day_update_event = 0 /\ current_minute = 0 /\ minutes_elapsed = 0
               /\ \A o \in Operators : opPc[o] = "dayWait"
               /\ \A u \in Users : utPc[u] = "dayWait"
    /\ current_day <= 1 => current_minute <= minutes_elapsed

EndInv ==
    /\ dirPc \in {"terminate", "report"} /\ days_elapsed # current_day => late_users > ExplodeMax
    /\ dirPc # "done" => exit_mode = "none"
    /\ dirPc = "done" /\ days_elapsed # current_day => exit_mode # "timeout"
-----------------------------------------------------------------------------
LEMMA DayInit == Init => DayInv /\ EndInv
BY DEF Init, SharedInit, OpInit, UtInit, DirInit, DayInv, EndInv, Dawn

\* A process that takes a step takes it after dawn: it has a new-day token, or is
\* about to take one.
LEMMA OpAfterDawn ==
    ASSUME TypeOK, DayInv, NEW o \in Operators, OpNext(o)
    PROVE  ~Dawn /\ UNCHANGED <<clockVars, late_users>>
<1>1. opPc[o] # "dayWait" \/ day_update_event > 0
  BY DEF OpNext, OpDayStart, OpEnter, OpCanWorkToday, OpSeek, OpStationEvent,
     OpStationTimeout, OpTimedOut, OpScan, OpTake, did_poste_close, OpPoll, OpServe, OpLeave,
     OpSignal, OpAt, sem_wait
<1>2. UNCHANGED <<clockVars, late_users>>
  BY DEF OpNext, OpDayStart, OpEnter, OpCanWorkToday, OpSeek, OpStationEvent,
     OpStationTimeout, OpTimedOut, OpScan, OpTake, did_poste_close, OpPoll, OpServe, OpLeave,
     OpSignal, clockVars, sharedVars
<1> QED
  BY <1>1, <1>2 DEF DayInv

LEMMA UtAfterDawn ==
    ASSUME TypeOK, DayInv, NEW u \in Users, UtNext(u)
    PROVE  ~Dawn /\ UNCHANGED clockVars /\ late_users' >= late_users
<1>1. utPc[u] # "dayWait" \/ day_update_event > 0
  BY DEF UtNext, UtDayStart, UtDecide, UtEnter, UtWalkIn, UtNextService, UtLateHome,
     UtRequest, UtTicket, UtLook, UtClaim, UtSeatWait, UtReadOp, UtPresent, UtDone, UtServed,
     UtLate, UtFree, UtAt, sem_wait
<1>2. UNCHANGED clockVars
  BY DEF UtNext, UtDayStart, UtDecide, UtEnter, UtWalkIn, UtNextService, UtLateHome,
     UtRequest, UtTicket, UtLook, UtClaim, UtSeatWait, UtReadOp, UtPresent, UtDone, UtServed,
     UtLate, UtFree, clockVars, sharedVars
<1>3. UNCHANGED late_users \/ handle_late_users(u)
  BY DEF UtNext, UtDayStart, UtDecide, UtEnter, UtWalkIn, UtNextService, UtLateHome,
     UtRequest, UtTicket, UtLook, UtClaim, UtSeatWait, UtReadOp, UtPresent, UtDone, UtServed,
     UtLate, UtFree, sharedVars
<1>4. late_users' >= late_users
  BY <1>3 DEF handle_late_users, TypeOK, SharedTypeOK
<1> QED
  BY <1>1, <1>2, <1>4 DEF DayInv

LEMMA DirDayStep ==
    ASSUME TypeOK, DayInv, EndInv, DirNext, UNCHANGED <<opVars, utVars>>
    PROVE  DayInv' /\ EndInv'
<1> USE DEF DirGoto, DirAt, opVars, utVars, clockVars, TypeOK, SharedTypeOK, DirTypeOK
<1>1. CASE DirMinute
  BY <1>1 DEF DirMinute, DayInv, EndInv, Dawn
<1>2. CASE DirClosing
  <2>1. current_day = 0 => minutes_elapsed % DayMinutes = 0
    <3>1. 0 % DayMinutes = 0
      BY ConfigAssumption
    <3> QED
      BY <3>1 DEF DayInv, Dawn
  <2> QED
    BY <1>2, <2>1 DEF DirClosing, DayInv, EndInv, Dawn
<1>3. CASE DirMidnight
  BY <1>3 DEF DirMidnight, sharedVars, DayInv, EndInv, Dawn
<1>4. CASE DirNewDay
  BY <1>4 DEF DirNewDay, DayInv, EndInv, Dawn
<1>5. CASE DirSeats
  BY <1>5 DEF DirSeats, DayInv, EndInv, Dawn
<1>6. CASE DirAnnounce
  BY <1>6 DEF DirAnnounce, DayInv, EndInv, Dawn
<1>7. CASE DirAdvance
  BY <1>7 DEF DirAdvance, DayInv, EndInv, Dawn
<1>8. CASE DirTerminate
  BY <1>8 DEF DirTerminate, sharedVars, DayInv, EndInv, Dawn
<1>9. CASE DirReport
  BY <1>9 DEF DirReport, sharedVars, DayInv, EndInv, Dawn
<1> QED
  BY <1>1, <1>2, <1>3, <1>4, <1>5, <1>6, <1>7, <1>8, <1>9 DEF DirNext

LEMMA DayStep == TypeOK /\ DayInv /\ EndInv /\ [Next]_vars => DayInv' /\ EndInv'
<1> SUFFICES ASSUME TypeOK, DayInv, EndInv, [Next]_vars PROVE DayInv' /\ EndInv'
  OBVIOUS
<1>1. CASE ErStep
  BY <1>1 DEF ErStep, ErNext, opVars, utVars, dirVars, DayInv, EndInv, Dawn
<1>2. ASSUME NEW o \in Operators, OpStep(o) PROVE DayInv' /\ EndInv'
  <2>1. ~Dawn /\ UNCHANGED <<clockVars, late_users, dirVars>>
    BY <1>2, OpAfterDawn DEF OpStep
  <2> QED
    BY <2>1 DEF clockVars, dirVars, DayInv, EndInv, Dawn
<1>3. ASSUME NEW u \in Users, UtStep(u) PROVE DayInv' /\ EndInv'
  <2>1. ~Dawn /\ UNCHANGED <<clockVars, dirVars>> /\ late_users' >= late_users
    BY <1>3, UtAfterDawn DEF UtStep
  <2>2. late_users \in Nat /\ late_users' \in Nat /\ ExplodeMax \in Nat
    BY <1>3, TypeStep, ConfigAssumption DEF TypeOK, SharedTypeOK
  <2> QED
    BY <2>1, <2>2 DEF clockVars, dirVars, DayInv, EndInv, Dawn
<1>4. CASE DirStep
  BY <1>4, DirDayStep DEF DirStep
<1>5. CASE UNCHANGED vars
  BY <1>5 DEF vars, sharedVars, opVars, utVars, dirVars, DayInv, EndInv, Dawn
<1> QED
  BY <1>1, <1>2, <1>3, <1>4, <1>5 DEF Next

\* An explosion is never reported as a timeout: until the children are dead the count
\* of late users that caused it only grows (direttore.c:258, 412-415, 429).
THEOREM ExplosionCorrect == Spec => []ExplosionReported
<1>1. EndInv => ExplosionReported
  BY DEF EndInv, ExplosionReported, Exploded
<1> QED
  BY <1>1, TypeInit, TypeStep, DayInit, DayStep, PTL DEF Spec
-----------------------------------------------------------------------------
(* The length of the simulation.                                            *)
LengthInv ==
    /\ dirPc \in {"closing", "midnight"} => days_elapsed < SimDuration
    /\ dirPc \in {"minute", "newDay", "seats", "announce", "advance"}
          => days_elapsed <= SimDuration
    /\ SimDuration > 0 =>
          /\ dirPc = "advance" /\ days_elapsed = SimDuration => minutes_elapsed = 0
          /\ dirPc = "minute" /\ days_elapsed = SimDuration => current_minute = 1
          /\ dirPc \in {"terminate", "report", "done"} /\ days_elapsed = current_day
                => current_day = SimDuration /\ current_minute = 1

LEMMA LengthInit == Init => LengthInv
BY ConfigAssumption DEF Init, DirInit, SharedInit, LengthInv

LEMMA LengthStep == TypeOK /\ DayInv /\ LengthInv /\ [Next]_vars => LengthInv'
<1> SUFFICES ASSUME TypeOK, DayInv, LengthInv, [Next]_vars PROVE LengthInv'
  OBVIOUS
<1>1. CASE UNCHANGED <<dirVars, clockVars>>
  BY <1>1 DEF dirVars, clockVars, LengthInv
<1>2. CASE ErStep
  BY <1>1, <1>2 DEF ErStep, ErNext, clockVars
<1>3. ASSUME NEW o \in Operators, OpStep(o) PROVE LengthInv'
  BY <1>1, <1>3, OpAfterDawn DEF OpStep
<1>4. ASSUME NEW u \in Users, UtStep(u) PROVE LengthInv'
  BY <1>1, <1>4, UtAfterDawn DEF UtStep
<1>5. CASE DirStep
  <2> USE ConfigAssumption
      DEF LengthInv, DayInv, DirGoto, DirAt, clockVars, TypeOK, SharedTypeOK, DirTypeOK
  <2>1. CASE DirMinute
    BY <2>1 DEF DirMinute
  <2>2. CASE DirClosing
    BY <2>2 DEF DirClosing
  <2>3. CASE DirMidnight
    BY <2>3 DEF DirMidnight, sharedVars
  <2>4. CASE DirNewDay
    BY <2>4 DEF DirNewDay
  <2>5. CASE DirSeats \/ DirAnnounce
    BY <2>5 DEF DirSeats, DirAnnounce
  <2>6. CASE DirAdvance
    BY <2>6 DEF DirAdvance
  <2>7. CASE DirTerminate \/ DirReport
    BY <2>7 DEF DirTerminate, DirReport, sharedVars
  <2> QED
    BY <1>5, <2>1, <2>2, <2>3, <2>4, <2>5, <2>6, <2>7 DEF DirStep, DirNext
<1>6. CASE UNCHANGED vars
  BY <1>1, <1>6 DEF vars, sharedVars, clockVars, dirVars
<1> QED
  BY <1>2, <1>3, <1>4, <1>5, <1>6 DEF Next

\* README.md:166, 394 and 453 promise sim_duration days; the code lives one fewer.
\* The midnight that comes at once ends a day nobody has begun, and the loop ends a
\* minute into the day numbered sim_duration, with the others lived in between
\* (direttore.c:314, 395, 409-425).
OneDayShort ==
    /\ current_day = 0 => /\ \A o \in Operators : opPc[o] = "dayWait"
                          /\ \A u \in Users : utPc[u] = "dayWait"
    /\ dirPc = "done" /\ ~Exploded /\ SimDuration > 0 =>
          current_day = SimDuration /\ current_minute = 1

\* For every length but 0 the simulation that is not cut short by an explosion lives
\* one day fewer than its documents promise (direttore.c:314, 395, 409-425).
THEOREM OneDayShortCorrect == Spec => []OneDayShort
<1>1. DayInv /\ LengthInv => OneDayShort
  BY DEF DayInv, Dawn, LengthInv, OneDayShort, Exploded
<1> QED
  BY <1>1, TypeInit, TypeStep, DayInit, DayStep, LengthInit, LengthStep, PTL DEF Spec
-----------------------------------------------------------------------------
(* The first day's counters.                                                *)
Sits(u) == utPc[u] \in AtSeat
Works(o) == opPc[o] \in OnDuty \cup {"take"}

UserSeats ==
    /\ \A u \in Users : Sits(u) => seats[utSeat[u]].user_status = "OCCUPIED"
    /\ \A u, v \in Users : Sits(u) /\ Sits(v) /\ utSeat[u] = utSeat[v] => u = v
Attended ==
    \A i \in Seats : seats[i].user_status = "OCCUPIED" =>
        \E u \in Users : Sits(u) /\ utSeat[u] = i
OwnService ==
    \A o \in Operators : Works(o) => seats[opSeat[o]].service_id = opService[o]

SeatInv == current_day <= 1 => UserSeats /\ OwnService /\ (~ShiftOver => Attended)

StatusKept == \A i \in Seats : seats'[i].user_status = seats[i].user_status
ServicesKept == \A i \in Seats : seats'[i].service_id = seats[i].service_id

LEMMA SeatInit == Init => SeatInv
BY DEF Init, SharedInit, OpInit, UtInit, SeatInv, UserSeats, OwnService, Attended, Sits, Works,
   AtSeat, OnDuty, EmptySeat

\* Users see nothing of what operators do to a counter but its staff.
LEMMA UsersUntouched ==
    ASSUME TypeOK, UserSeats, Attended \/ ShiftOver, StatusKept,
           UNCHANGED <<utVars, current_minute>>
    PROVE  UserSeats' /\ (~ShiftOver' => Attended')
<1> USE DEF utVars, Sits, TypeOK, UtTypeOK
<1>1. UserSeats'
  BY DEF UserSeats, StatusKept
<1>2. ~ShiftOver' => Attended'
  BY DEF Attended, ShiftOver, StatusKept
<1> QED
  BY <1>1, <1>2

LEMMA OpTable ==
    ASSUME TypeOK, NEW o \in Operators, OpNext(o)
    PROVE  StatusKept /\ ServicesKept
<1> USE DEF TypeOK, SharedTypeOK, OpTypeOK, Seat, StatusKept, ServicesKept
<1>1. CASE UNCHANGED seats
  BY <1>1
<1>2. CASE \E i \in Seats : take_seat(o, i)
  BY <1>2 DEF take_seat
<1>3. CASE \E i \in Seats : release_seat(i)
  BY <1>3 DEF release_seat
<1>4. OpTake(o) => opSeat[o] \in Seats
  BY DEF OpTake, OpAt
<1>5. OpLeave(o) => opSeat[o] \in Seats
  BY DEF OpLeave, OpAt, OnDuty
<1> QED
  BY <1>1, <1>2, <1>3, <1>4, <1>5 DEF OpNext, OpDayStart, OpEnter, OpCanWorkToday, OpSeek,
     OpStationEvent, OpStationTimeout, OpTimedOut, OpScan, OpTake, did_poste_close, OpPoll,
     OpServe, OpLeave, OpSignal, seatVars, sharedVars

\* An operator takes a counter it has found to be of its service, before or after
\* a while.
LEMMA OpOwnService ==
    ASSUME TypeOK, OwnService, NEW o \in Operators, OpNext(o)
    PROVE  OwnService'
<1>1. ServicesKept
  BY OpTable
<1>2. UNCHANGED opService /\ \A p \in Operators \ {o} : opPc'[p] = opPc[p] /\ opSeat'[p] = opSeat[p]
  BY DEF OpNext, OpDayStart, OpEnter, OpCanWorkToday, OpSeek, OpStationEvent,
     OpStationTimeout, OpTimedOut, OpScan, OpTake, did_poste_close, OpPoll, OpServe, OpLeave,
     OpSignal, OpGoto, TypeOK, OpTypeOK
<1>3. \/ Works(o) /\ UNCHANGED opSeat
      \/ ~Works(o)'
      \/ opSeat'[o] \in Seats /\ Suits(o, opSeat'[o])
  <2> USE DEF Works, OnDuty, OpGoto, OpAt, TypeOK, OpTypeOK
  <2>1. CASE OpSeek(o)
    BY <2>1 DEF OpSeek, FirstSuiting
  <2>2. CASE OpScan(o)
    BY <2>2 DEF OpScan
  <2>3. CASE OpTake(o) \/ did_poste_close(o) \/ OpPoll(o) \/ OpServe(o)
    BY <2>3 DEF OpTake, did_poste_close, OpPoll, OpServe
  <2>4. CASE \/ OpDayStart(o) \/ OpEnter(o) \/ OpCanWorkToday(o) \/ OpStationEvent(o)
             \/ OpStationTimeout(o) \/ OpTimedOut(o) \/ OpLeave(o) \/ OpSignal(o)
    BY <2>4 DEF OpDayStart, OpEnter, OpCanWorkToday, OpStationEvent, OpStationTimeout,
       OpTimedOut, OpLeave, OpSignal
  <2> QED
    BY <2>1, <2>2, <2>3, <2>4 DEF OpNext
<1>4. \A p \in Operators : Works(p) => opSeat[p] \in Seats
  BY DEF Works, TypeOK, OpTypeOK
<1>5. ASSUME NEW p \in Operators, Works(p)'
      PROVE  seats'[opSeat'[p]].service_id = opService'[p]
  <2>1. CASE p = o
    BY <2>1, <1>1, <1>2, <1>3, <1>4, <1>5 DEF Suits, Offers, ServicesKept, OwnService
  <2>2. CASE p # o
    BY <2>2, <1>1, <1>2, <1>4, <1>5 DEF Works, ServicesKept, OwnService
  <2> QED
    BY <2>1, <2>2
<1> QED
  BY <1>5 DEF OwnService

\* A user's step is one of four: it stays where it is, at a counter or not; it goes
\* late and leaves the counter closed; it closes a counter that was open; it opens
\* its own.
Stays(u) == UNCHANGED seats /\ (Sits(u)' <=> Sits(u)) /\ (Sits(u) => utSeat'[u] = utSeat[u])
GoesLate(u) == UNCHANGED seats /\ ShiftOver /\ ~Sits(u)'
Claims(u, i) == /\ ~Sits(u) /\ Sits(u)' /\ utSeat'[u] = i
                /\ seats[i].user_status = "FREE"
                /\ seats' = [seats EXCEPT ![i].user_status = "OCCUPIED"]
Frees(u) == /\ Sits(u) /\ ~Sits(u)'
            /\ seats' = [seats EXCEPT ![utSeat[u]].user_status = "FREE"]

LEMMA UserMoves ==
    ASSUME TypeOK, NEW u \in Users, UtNext(u)
    PROVE  /\ Stays(u) \/ GoesLate(u) \/ Frees(u) \/ \E i \in Seats : Claims(u, i)
           /\ \A v \in Users \ {u} : (Sits(v)' <=> Sits(v)) /\ utSeat'[v] = utSeat[v]
<1> USE DEF Sits, AtSeat, UtGoto, UtAt, TypeOK, UtTypeOK
<1>1. CASE UtClaim(u)
  <2>1. ~Sits(u) /\ \A v \in Users \ {u} : (Sits(v)' <=> Sits(v)) /\ utSeat'[v] = utSeat[v]
    BY <1>1 DEF UtClaim
  <2>2. CASE /\ \A i \in utValid[u] : seats[i].user_status # "FREE"
             /\ UtGoto(u, "seatWait")
             /\ UNCHANGED <<seats, utSeat, utValid>>
    BY <2>1, <2>2 DEF Stays
  <2>3. ASSUME NEW i \in utValid[u],
               seats[i].user_status = "FREE",
               seats' = [seats EXCEPT ![i].user_status = "OCCUPIED"],
               utSeat' = [utSeat EXCEPT ![u] = i],
               UtGoto(u, "readOp")
        PROVE  \E j \in Seats : Claims(u, j)
    <3>1. i \in Seats
      <4>1. utValid[u] \in SUBSET Seats
        OBVIOUS
      <4> QED
        BY <4>1
    <3>2. Sits(u)' /\ utSeat'[u] = i
      BY <2>3
    <3> QED
      BY <3>1, <3>2, <2>1, <2>3 DEF Claims
  <2> QED
    BY <1>1, <2>1, <2>2, <2>3 DEF UtClaim
<1>2. CASE UtFree(u)
  BY <1>2 DEF UtFree, ServiceOver, Frees
<1>3. CASE UtServed(u)
  BY <1>3 DEF UtServed, sharedVars, Stays, GoesLate
<1>4. CASE UtReadOp(u) \/ UtPresent(u) \/ UtDone(u)
  BY <1>4 DEF UtReadOp, UtPresent, UtDone, sharedVars, seatVars, Stays
<1>5. CASE UtLook(u) \/ UtLate(u)
  BY <1>5 DEF UtLook, UtLate, ServiceOver, sharedVars, seatVars, Stays
<1>6. CASE \/ UtDayStart(u) \/ UtDecide(u) \/ UtEnter(u) \/ UtWalkIn(u) \/ UtNextService(u)
           \/ UtLateHome(u) \/ UtRequest(u) \/ UtTicket(u) \/ UtSeatWait(u)
  BY <1>6 DEF UtDayStart, UtDecide, PlanDay, UtEnter, UtWalkIn, UtNextService, UtLateHome,
     UtRequest, UtTicket, UtSeatWait, sharedVars, seatVars, Stays
<1> QED
  BY <1>1, <1>2, <1>3, <1>4, <1>5, <1>6 DEF UtNext

LEMMA UtSeats ==
    ASSUME TypeOK, UserSeats, ~ShiftOver => Attended, NEW u \in Users, UtNext(u),
           UNCHANGED current_minute
    PROVE  UserSeats' /\ (~ShiftOver' => Attended') /\ ServicesKept
<1>1. \A v \in Users \ {u} : (Sits(v)' <=> Sits(v)) /\ utSeat'[v] = utSeat[v]
  BY UserMoves
<1>2. \A v \in Users : Sits(v) => utSeat[v] \in Seats
  BY DEF Sits, TypeOK, UtTypeOK
<1>3. seats \in [Seats -> Seat]
  BY DEF TypeOK, SharedTypeOK
<1>4. ShiftOver' <=> ShiftOver
  BY DEF ShiftOver
<1>5. CASE Stays(u)
  <2>1. \A v \in Users : (Sits(v)' <=> Sits(v)) /\ (Sits(v) => utSeat'[v] = utSeat[v])
    BY <1>1, <1>5 DEF Stays
  <2> QED
    BY <2>1, <1>4, <1>5 DEF Stays, UserSeats, Attended, ServicesKept
<1>6. CASE GoesLate(u)
  <2>1. \A v \in Users : Sits(v)' => Sits(v) /\ utSeat'[v] = utSeat[v]
    BY <1>1, <1>6 DEF GoesLate
  <2> QED
    BY <2>1, <1>4, <1>6 DEF GoesLate, UserSeats, ServicesKept
<1>7. CASE Frees(u)
  <2>1. /\ utSeat[u] \in Seats
        /\ \A i \in Seats : seats'[i].user_status
                              = IF i = utSeat[u] THEN "FREE" ELSE seats[i].user_status
        /\ ServicesKept
    BY <1>2, <1>3, <1>7 DEF Frees, ServicesKept, Seat
  <2>2. \A v \in Users : Sits(v)' <=> Sits(v) /\ v # u
    BY <1>1, <1>7 DEF Frees
  <2>3. \A v \in Users : Sits(v)' => utSeat'[v] = utSeat[v] /\ utSeat[v] # utSeat[u]
    BY <2>2, <1>1, <1>7 DEF Frees, UserSeats
  <2>4. UserSeats'
    BY <2>1, <2>2, <2>3, <1>2 DEF UserSeats
  <2>5. ~ShiftOver' => Attended'
    <3> SUFFICES ASSUME ~ShiftOver, NEW i \in Seats, seats'[i].user_status = "OCCUPIED"
                 PROVE  \E v \in Users : Sits(v)' /\ utSeat'[v] = i
      BY <1>4 DEF Attended
    <3>1. i # utSeat[u] /\ seats[i].user_status = "OCCUPIED"
      BY <2>1
    <3>2. PICK v \in Users : Sits(v) /\ utSeat[v] = i
      BY <3>1 DEF Attended
    <3>3. Sits(v)' /\ utSeat'[v] = i
      BY <3>1, <3>2, <2>2, <1>1
    <3> QED
      BY <3>3
  <2> QED
    BY <2>1, <2>4, <2>5
<1>8. ASSUME NEW i \in Seats, Claims(u, i)
      PROVE  UserSeats' /\ (~ShiftOver' => Attended') /\ ServicesKept
  <2>1. /\ \A j \in Seats : seats'[j].user_status
                              = IF j = i THEN "OCCUPIED" ELSE seats[j].user_status
        /\ ServicesKept
    BY <1>3, <1>8 DEF Claims, ServicesKept, Seat
  <2>2. Sits(u)' /\ utSeat'[u] = i /\ ~Sits(u)
    BY <1>8 DEF Claims
  <2>3. \A v \in Users \ {u} : Sits(v) => utSeat[v] # i
    BY <1>8 DEF Claims, UserSeats
  <2>4. \A v \in Users \ {u} : Sits(v)' => Sits(v) /\ utSeat'[v] = utSeat[v] /\ utSeat[v] # i
    BY <1>1, <2>3
  <2>5. \A v \in Users : Sits(v)' => seats'[utSeat'[v]].user_status = "OCCUPIED"
    BY <2>1, <2>2, <2>4, <1>2 DEF UserSeats
  <2>6. \A v, w \in Users : Sits(v)' /\ Sits(w)' /\ utSeat'[v] = utSeat'[w] => v = w
    BY <2>2, <2>4 DEF UserSeats
  <2>7. UserSeats'
    BY <2>5, <2>6 DEF UserSeats
  <2>8. ~ShiftOver' => Attended'
    <3> SUFFICES ASSUME ~ShiftOver, NEW j \in Seats, seats'[j].user_status = "OCCUPIED"
                 PROVE  \E v \in Users : Sits(v)' /\ utSeat'[v] = j
      BY <1>4 DEF Attended
    <3>1. CASE j = i
      BY <3>1, <2>2
    <3>2. CASE j # i
      <4>1. PICK v \in Users : Sits(v) /\ utSeat[v] = j
        BY <3>2, <2>1 DEF Attended
      <4>2. Sits(v)' /\ utSeat'[v] = j
        BY <4>1, <2>2, <1>1
      <4> QED
        BY <4>2
    <3> QED
      BY <3>1, <3>2
  <2> QED
    BY <2>1, <2>7, <2>8
<1> QED
  BY <1>5, <1>6, <1>7, <1>8, UserMoves
-----------------------------------------------------------------------------
\* Midnight clears the table before anybody has a day to sit through; the clock only
\* goes forward on the first day.
LEMMA DirSeatStep ==
    ASSUME TypeOK, DayInv, DayInv', SeatInv, DirNext, UNCHANGED <<opVars, utVars>>
    PROVE  SeatInv'
<1> USE DEF opVars, utVars
<1>1. CASE DirSeats
  <2>1. current_day <= 1 => Dawn
    BY <1>1 DEF DirSeats, DirAt, Dawn, TypeOK, SharedTypeOK
  <2>2. UNCHANGED <<current_day, current_minute>>
    BY <1>1 DEF DirSeats, clockVars
  <2>3. \A i \in Seats : seats'[i].user_status = "FREE"
    BY <1>1 DEF DirSeats, EmptySeat
  <2> QED
    BY <2>1, <2>2, <2>3 DEF DayInv, SeatInv, UserSeats, OwnService, Attended, Sits, Works, AtSeat,
       OnDuty
<1>2. CASE ~DirSeats
  <2>1. UNCHANGED seats
    BY <1>2 DEF DirNext, DirMinute, DirClosing, DirMidnight, DirNewDay, DirAnnounce, DirAdvance,
       DirTerminate, DirReport, seatVars, sharedVars
  <2>2. current_day' <= 1 => current_day <= 1
    BY <1>2 DEF DirNext, DirMinute, DirClosing, DirMidnight, DirNewDay, DirAnnounce, DirAdvance,
       DirTerminate, DirReport, DirAt, clockVars, sharedVars, DayInv, TypeOK, SharedTypeOK
  <2>3. current_day' <= 1 /\ ~ShiftOver' => ~ShiftOver
    <3>1. UNCHANGED current_minute \/ DirAdvance
      BY <1>2 DEF DirNext, DirMinute, DirClosing, DirMidnight, DirNewDay, DirAnnounce,
         DirTerminate, DirReport, clockVars, sharedVars
    <3>2. CASE DirAdvance
      BY <3>2, <2>2, ConfigAssumption
         DEF DirAdvance, DayInv, ShiftOver, TypeOK, SharedTypeOK, DirTypeOK
    <3> QED
      BY <3>1, <3>2 DEF ShiftOver
  <2> QED
    BY <2>1, <2>2, <2>3 DEF SeatInv, UserSeats, OwnService, Attended, Sits, Works
<1> QED
  BY <1>1, <1>2

LEMMA SeatStep == TypeOK /\ DayInv /\ DayInv' /\ SeatInv /\ [Next]_vars => SeatInv'
<1> SUFFICES ASSUME TypeOK, DayInv, DayInv', SeatInv, [Next]_vars PROVE SeatInv'
  OBVIOUS
<1>1. CASE UNCHANGED <<seats, current_day, current_minute, opVars, utVars>>
  BY <1>1 DEF opVars, utVars, SeatInv, UserSeats, OwnService, Attended, Sits, Works, ShiftOver
<1>2. CASE ErStep
  BY <1>1, <1>2 DEF ErStep, ErNext
<1>3. ASSUME NEW o \in Operators, OpStep(o) PROVE SeatInv'
  <2>1. OpNext(o) /\ UNCHANGED utVars
    BY <1>3 DEF OpStep
  <2>2. UNCHANGED <<current_day, current_minute>>
    BY <2>1, OpAfterDawn DEF clockVars
  <2>3. StatusKept
    BY <2>1, OpTable
  <2>4. CASE current_day <= 1
    <3>1. OwnService'
      BY <2>1, <2>4, OpOwnService DEF SeatInv
    <3>2. UserSeats' /\ (~ShiftOver' => Attended')
      BY <2>1, <2>2, <2>3, <2>4, UsersUntouched DEF SeatInv
    <3> QED
      BY <3>1, <3>2 DEF SeatInv
  <2> QED
    BY <2>2, <2>4 DEF SeatInv
<1>4. ASSUME NEW u \in Users, UtStep(u) PROVE SeatInv'
  <2>1. UtNext(u) /\ UNCHANGED opVars
    BY <1>4 DEF UtStep
  <2>2. UNCHANGED <<current_day, current_minute>>
    BY <2>1, UtAfterDawn DEF clockVars
  <2>3. CASE current_day <= 1
    <3>1. UserSeats' /\ (~ShiftOver' => Attended') /\ ServicesKept
      BY <2>1, <2>2, <2>3, UtSeats DEF SeatInv
    <3>2. OwnService'
      <4>1. \A o \in Operators : Works(o) => opSeat[o] \in Seats
        BY DEF Works, TypeOK, OpTypeOK
      <4> QED
        BY <4>1, <2>1, <2>3, <3>1 DEF opVars, SeatInv, OwnService, Works, ServicesKept
    <3> QED
      BY <3>1, <3>2 DEF SeatInv
  <2> QED
    BY <2>2, <2>3 DEF SeatInv
<1>5. CASE DirStep
  BY <1>5, DirSeatStep DEF DirStep
<1>6. CASE UNCHANGED vars
  BY <1>1, <1>6 DEF vars, sharedVars
<1> QED
  BY <1>2, <1>3, <1>4, <1>5, <1>6 DEF Next

LEMMA SeatInvariant == Spec => []SeatInv
<1>1. Init => TypeOK /\ DayInv /\ EndInv /\ SeatInv
  BY TypeInit, DayInit, SeatInit
<1> QED
  BY <1>1, TypeStep, DayStep, SeatStep, PTL DEF Spec

\* Until the second day is set up, two users are never at one counter, however many
\* counters and users there are (utente.c:212-231, 297-310).
THEOREM OneUserPerSeatCorrect == Spec => []FirstDayOneUserPerSeat
<1>1. SeatInv => FirstDayOneUserPerSeat
  BY DEF SeatInv, UserSeats, Sits, FirstDayOneUserPerSeat
<1> QED
  BY <1>1, SeatInvariant, PTL

\* Until the first closing hour a counter closed to users has one at it
\* (utente.c:212-231, 297-310).
THEOREM HeldCounterCorrect == Spec => []FirstDayHeldCounterHasUser
<1>1. SeatInv => FirstDayHeldCounterHasUser
  BY DEF SeatInv, Attended, Sits, FirstDayHeldCounterHasUser
<1> QED
  BY <1>1, SeatInvariant, PTL

\* Until the second day is set up an operator at work offers the service its counter
\* is for, also one that found the counter without the lock after waiting.
FirstDayOwnService ==
    current_day <= 1 =>
        \A o \in Operators : opPc[o] \in OnDuty => seats[opSeat[o]].service_id = opService[o]

\* However many operators there are, and however they wait for one another's counters,
\* on the first day each works at one of its service (operatore.c:174-181, 212-218,
\* 253-258).
THEOREM OwnServiceCorrect == Spec => []FirstDayOwnService
<1>1. SeatInv => FirstDayOwnService
  BY DEF SeatInv, OwnService, Works, FirstDayOwnService
<1> QED
  BY <1>1, SeatInvariant, PTL
-----------------------------------------------------------------------------
(* can_work_today on the first day: the counters it has gone past are of    *)
(* another service, and remain so.                                          *)
Passed(o) == \A i \in 0 .. (opSeat[o] - 1) : i \in Seats => ~Offers(o, i)
PassedInv == current_day <= 1 => \A o \in Operators : opPc[o] = "arrived" => Passed(o)

LEMMA PassedInit == Init => PassedInv
BY DEF Init, OpInit, PassedInv

\* Whoever takes a step, an operator on its way past the counters goes on by one, goes
\* home after the last, or finds its own.
LEMMA OpPassed ==
    ASSUME TypeOK, NEW o \in Operators, OpNext(o), NEW p \in Operators,
           opPc[p] = "arrived" => Passed(p)
    PROVE  /\ opPc'[p] = "arrived" => Passed(p)'
           /\ opPc[p] = "arrived" /\ opPc'[p] = "dayWait" =>
                 \A i \in Seats : seats[i].service_id # opService[p]
<1>1. ServicesKept /\ UNCHANGED opService
  BY OpTable DEF OpNext, OpDayStart, OpEnter, OpCanWorkToday, OpSeek, OpStationEvent,
     OpStationTimeout, OpTimedOut, OpScan, OpTake, did_poste_close, OpPoll, OpServe, OpLeave,
     OpSignal
<1>2. /\ opPc \in [Operators -> OpPcs] /\ opSeat \in [Operators -> (0 .. NumSeats) \cup {NoSeat}]
      /\ opPc[p] = "arrived" => opSeat[p] \in 0 .. NumSeats
      /\ NumSeats \in Nat /\ NoSeat \in Int
  BY ConfigAssumption DEF TypeOK, OpTypeOK, NoSeat
<1>3. CASE p # o
  <2>1. opPc'[p] = opPc[p] /\ opSeat'[p] = opSeat[p]
    BY <1>2, <1>3 DEF OpNext, OpDayStart, OpEnter, OpCanWorkToday, OpSeek, OpStationEvent,
       OpStationTimeout, OpTimedOut, OpScan, OpTake, did_poste_close, OpPoll, OpServe,
       OpLeave, OpSignal, OpGoto
  <2> QED
    BY <1>1, <2>1 DEF Passed, Offers, ServicesKept
<1>4. CASE p = o /\ OpCanWorkToday(o)
  <2>1. CASE opSeat[o] \in Seats /\ Offers(o, opSeat[o])
    BY <1>2, <1>4, <2>1 DEF OpCanWorkToday, OpGoto, OpAt
  <2>2. CASE opSeat[o] \in Seats /\ ~Offers(o, opSeat[o])
    <3>1. opSeat'[o] = opSeat[o] + 1 /\ opPc' = opPc /\ opPc[o] = "arrived"
      BY <1>2, <1>4, <2>2 DEF OpCanWorkToday, OpAt
    <3>2. \A i \in 0 .. opSeat[o] : i \in Seats => ~Offers(o, i)
      BY <1>2, <1>4, <2>2, <3>1 DEF Passed
    <3>3. \A i \in 0 .. (opSeat'[o] - 1) : i \in 0 .. opSeat[o]
      BY <1>2, <3>1
    <3>4. Passed(o)'
      BY <1>1, <3>2, <3>3 DEF Passed, Offers, ServicesKept
    <3> QED
      BY <1>4, <3>1, <3>4
  <2>3. CASE opSeat[o] \notin Seats
    <3>1. opPc[o] = "arrived" /\ opPc'[o] = "dayWait" /\ opSeat[o] = NumSeats
      BY <1>2, <1>4, <2>3 DEF OpCanWorkToday, OpGoto, OpAt, Seats
    <3>2. \A i \in Seats : ~Offers(o, i)
      BY <1>2, <1>4, <3>1 DEF Passed, Seats
    <3> QED
      BY <1>4, <3>1, <3>2 DEF Offers
  <2> QED
    BY <2>1, <2>2, <2>3
<1>5. CASE p = o /\ OpEnter(o)
  <2>1. opSeat'[o] = 0 /\ opPc[o] = "openWait"
    BY <1>2, <1>5 DEF OpEnter, OpAt
  <2>2. Passed(o)'
    BY <2>1 DEF Passed
  <2> QED
    BY <1>5, <2>1, <2>2
<1>6. CASE p = o /\ ~OpCanWorkToday(o) /\ ~OpEnter(o)
  <2>1. opPc[o] # "arrived" /\ opPc'[o] # "arrived"
    BY <1>2, <1>6 DEF OpNext, OpDayStart, OpSeek, OpStationEvent, OpStationTimeout,
       OpTimedOut, OpScan, OpTake, did_poste_close, OpPoll, OpServe, OpLeave, OpSignal,
       OpGoto, OpAt
  <2> QED
    BY <1>6, <2>1
<1> QED
  BY <1>3, <1>4, <1>5, <1>6

\* The steps that are not an operator's move nobody past a counter.
LEMMA OthersPassed ==
    ASSUME TypeOK, DayInv, DayInv', PassedInv, [Next]_vars,
           \A o \in Operators : ~OpStep(o)
    PROVE  PassedInv' /\ UNCHANGED opPc
<1>1. UNCHANGED opVars
  BY DEF Next, ErStep, UtStep, DirStep, vars
<1>2. CASE current_day' <= 1 /\ ServicesKept
  <2>1. current_day <= 1
    <3>1. UNCHANGED current_day \/ DirNewDay
      BY OpAfterDawn, UtAfterDawn DEF Next, ErStep, ErNext, UtStep, DirStep, DirNext, DirMinute,
         DirClosing, DirMidnight, DirSeats, DirAnnounce, DirAdvance, DirTerminate, DirReport,
         clockVars, sharedVars, vars
    <3> QED
      BY <1>2, <3>1 DEF DirNewDay, DirAt, DayInv, TypeOK, SharedTypeOK
  <2> QED
    BY <1>1, <1>2, <2>1 DEF opVars, PassedInv, Passed, Offers, ServicesKept
<1>3. CASE current_day' <= 1 /\ ~ServicesKept
  <2>1. DirSeats
    <3>1. ASSUME NEW u \in Users, UtStep(u) PROVE ServicesKept
      <4>1. UtNext(u) /\ seats \in [Seats -> Seat]
        BY <3>1 DEF UtStep, TypeOK, SharedTypeOK
      <4>2. Stays(u) \/ GoesLate(u) \/ Frees(u) \/ \E i \in Seats : Claims(u, i)
        BY <4>1, UserMoves
      <4> QED
        BY <4>1, <4>2 DEF Stays, GoesLate, Frees, Claims, ServicesKept, Seat
    <3>2. UNCHANGED seats => ServicesKept
      BY DEF ServicesKept
    <3> QED
      BY <1>3, <3>1, <3>2 DEF Next, ErStep, ErNext, DirStep, DirNext, DirMinute, DirClosing,
         DirMidnight, DirNewDay, DirAnnounce, DirAdvance, DirTerminate, DirReport, seatVars,
         sharedVars, vars
  <2>2. Dawn'
    BY <1>3, <2>1 DEF DirSeats, DirAt, DirGoto, clockVars, Dawn, TypeOK, SharedTypeOK
  <2> QED
    BY <1>1, <2>2 DEF DayInv, PassedInv, opVars
<1>4. CASE ~(current_day' <= 1)
  BY <1>1, <1>4 DEF PassedInv, opVars
<1> QED
  BY <1>1, <1>2, <1>3, <1>4 DEF opVars

LEMMA PassedStep ==
    TypeOK /\ DayInv /\ DayInv' /\ PassedInv /\ [Next]_vars =>
        /\ PassedInv'
        /\ current_day <= 1 =>
              \A o \in Operators : opPc[o] = "arrived" /\ opPc'[o] = "dayWait" =>
                  \A i \in Seats : seats[i].service_id # opService[o]
<1> SUFFICES ASSUME TypeOK, DayInv, DayInv', PassedInv, [Next]_vars
             PROVE  /\ PassedInv'
                    /\ current_day <= 1 =>
                          \A p \in Operators : opPc[p] = "arrived" /\ opPc'[p] = "dayWait" =>
                              \A i \in Seats : seats[i].service_id # opService[p]
  OBVIOUS
<1>1. CASE \A o \in Operators : ~OpStep(o)
  BY <1>1, OthersPassed
<1>2. ASSUME NEW o \in Operators, OpStep(o)
      PROVE  /\ PassedInv'
             /\ current_day <= 1 =>
                   \A p \in Operators : opPc[p] = "arrived" /\ opPc'[p] = "dayWait" =>
                       \A i \in Seats : seats[i].service_id # opService[p]
  <2>1. OpNext(o)
    BY <1>2 DEF OpStep
  <2>2. UNCHANGED current_day
    BY <2>1, OpAfterDawn DEF clockVars
  <2>3. ASSUME current_day <= 1, NEW p \in Operators
        PROVE  /\ opPc'[p] = "arrived" => Passed(p)'
               /\ opPc[p] = "arrived" /\ opPc'[p] = "dayWait" =>
                     \A i \in Seats : seats[i].service_id # opService[p]
    <3>1. opPc[p] = "arrived" => Passed(p)
      BY <2>3 DEF PassedInv
    <3> QED
      BY <2>1, <3>1, OpPassed
  <2> QED
    BY <2>2, <2>3 DEF PassedInv
<1> QED
  BY <1>1, <1>2

\* On the first day can_work_today sends nobody home that has a counter, however long
\* it takes to go through them (operatore.c:185-191).
THEOREM SentHomeCorrect == Spec => FirstDaySentHomeRightly
<1>1. TypeOK /\ DayInv /\ DayInv' /\ PassedInv /\ [Next]_vars =>
         [current_day <= 1 =>
             \A o \in Operators : opPc[o] = "arrived" /\ opPc'[o] = "dayWait" =>
                 \A i \in Seats : seats[i].service_id # opService[o]]_vars
  BY PassedStep
<1>2. TypeOK /\ DayInv /\ DayInv' /\ PassedInv /\ [Next]_vars => PassedInv'
  BY PassedStep
<1> QED
  BY <1>1, <1>2, TypeInit, TypeStep, DayInit, DayStep, PassedInit, PTL
     DEF Spec, FirstDaySentHomeRightly
-----------------------------------------------------------------------------
LEMMA CountFact ==
    ASSUME NEW P, IsFiniteSet(P), NEW S, NEW R, S \subseteq P
    PROVE  /\ IsFiniteSet(S) /\ Cardinality(S) \in Nat
           /\ R \subseteq S => Cardinality(R) \in Nat /\ Cardinality(R) <= Cardinality(S)
           /\ \A x : R \subseteq S \cup {x} => /\ Cardinality(R) \in Nat
                                           /\ Cardinality(R) <= Cardinality(S) + 1
           /\ \A x \in S : R \subseteq S \ {x} => /\ Cardinality(R) \in Nat
                                             /\ Cardinality(R) + 1 <= Cardinality(S)
<1>1. IsFiniteSet(S) /\ Cardinality(S) \in Nat
  BY FS_Subset, FS_CardinalityType
<1>2. R \subseteq S => Cardinality(R) \in Nat /\ Cardinality(R) <= Cardinality(S)
  BY <1>1, FS_Subset, FS_CardinalityType
<1>3. ASSUME NEW x, R \subseteq S \cup {x}
      PROVE  Cardinality(R) \in Nat /\ Cardinality(R) <= Cardinality(S) + 1
  <2> DEFINE Q == S \cup {x}
  <2>1. /\ IsFiniteSet(Q)
        /\ Cardinality(Q) = Cardinality(S) \/ Cardinality(Q) = Cardinality(S) + 1
    BY <1>1, FS_AddElement
  <2>2. Cardinality(R) <= Cardinality(Q) /\ Cardinality(R) \in Nat
    BY <1>3, <2>1, FS_Subset, FS_CardinalityType
  <2> QED
    BY <1>1, <2>1, <2>2
<1>4. ASSUME NEW x \in S, R \subseteq S \ {x}
      PROVE  Cardinality(R) \in Nat /\ Cardinality(R) + 1 <= Cardinality(S)
  <2> DEFINE Q == S \ {x}
  <2>1. IsFiniteSet(Q) /\ Cardinality(Q) = Cardinality(S) - 1
    BY <1>1, FS_RemoveElement
  <2>2. Cardinality(R) <= Cardinality(Q) /\ Cardinality(R) \in Nat
    BY <1>4, <2>1, FS_Subset, FS_CardinalityType
  <2> QED
    BY <1>1, <2>1, <2>2
<1> QED
  BY <1>1, <1>2, <1>3, <1>4

-----------------------------------------------------------------------------
(* The first day's hours.  Its tokens are counted: each operator's round    *)
(* and each user's begins with one new-day token, and no operator is sent   *)
(* home by a closing token without one fewer being left.                    *)
Before(h, pcs) == minutes_elapsed < h \/ (minutes_elapsed = h /\ dirPc \in pcs)
Ended == {"terminate", "report", "done"}

Begun == {u \in Users : begun[u] = 1}
Rounds == {o \in Operators : InRound(o)}

Outside == /\ \A o \in Operators : opPc[o] \in {"dayWait", "openWait"}
           /\ \A u \in Users : utPc[u] \in {"dayWait", "decide", "openWait"}

ClosingTokens == close_poste_event + dirPosts
                    + IF Before(CloseMinute, {"minute"} \cup Ended)
                      THEN Cardinality(Operators) ELSE 0

HoursInv ==
    /\ Dawn => \A u \in Users : begun[u] = 0
    /\ current_day <= 1 =>
          /\ current_minute = minutes_elapsed
          /\ dirPc # "closing" => dirPosts = 0
          /\ dirPosts > 0 => minutes_elapsed = CloseMinute
          /\ Before(OpenMinute, {"minute"}) => open_poste_event = 0 /\ Outside
          /\ Before(CloseMinute, {"minute"}) => close_poste_event = 0
          /\ CloseMinute > 0 =>
                day_update_event + Cardinality(Begun) + Cardinality(Rounds)
                    <= Cardinality(Users) + ClosingTokens

LEMMA HoursInit == Init => HoursInv
<1> SUFFICES ASSUME Init PROVE HoursInv
  OBVIOUS
<1>1. Begun = {} /\ Rounds = {}
  BY DEF Init, SharedInit, OpInit, Begun, Rounds, InRound, Processes
<1>2. Cardinality(Begun) = 0 /\ Cardinality(Rounds) = 0
  BY <1>1, FS_EmptySet
<1>3. Cardinality(Users) \in Nat /\ Cardinality(Operators) \in Nat
  BY PidAssumption, FS_CardinalityType
<1>4. Outside /\ \A u \in Users : begun[u] = 0
  BY DEF Init, SharedInit, OpInit, UtInit, Outside, Processes
<1>5. /\ dirPosts = 0 /\ minutes_elapsed = 0 /\ current_minute = 0 /\ dirPc = "minute"
      /\ open_poste_event = 0 /\ close_poste_event = 0 /\ day_update_event = 0
  BY DEF Init, SharedInit, DirInit
<1>6. 0 <= Cardinality(Users) + ClosingTokens
  BY <1>3, <1>5 DEF ClosingTokens
<1> QED
  BY <1>2, <1>4, <1>5, <1>6 DEF HoursInv

LEMMA PeopleCount ==
    /\ IsFiniteSet(Operators) /\ IsFiniteSet(Users)
    /\ Cardinality(Operators) \in Nat /\ Cardinality(Users) \in Nat
    /\ Begun \subseteq Users /\ Rounds \subseteq Operators
    /\ Cardinality(Begun) \in Nat /\ Cardinality(Rounds) \in Nat
<1>1. Begun \subseteq Users /\ Rounds \subseteq Operators
  BY DEF Begun, Rounds
<1> QED
  BY <1>1, PidAssumption, FS_CardinalityType, FS_Subset

\* What an operator's step does to the tokens and to the rounds under way.
LEMMA OpTokens ==
    ASSUME TypeOK, NEW o \in Operators, OpNext(o)
    PROVE  /\ \A u \in Users : begun'[u] = begun[u]
           /\ \A p \in Operators \ {o} : opPc'[p] = opPc[p]
           /\ opPc[o] \in {"dayWait", "openWait"} /\ open_poste_event = 0 =>
                 opPc'[o] \in {"dayWait", "openWait"}
           /\ open_poste_event = 0 => open_poste_event' = 0
           /\ close_poste_event = 0 => close_poste_event' = 0
           /\ \/ /\ day_update_event' = day_update_event - 1
                 /\ close_poste_event' = close_poste_event
                 /\ Rounds' \subseteq Rounds \cup {o}
              \/ /\ UNCHANGED <<day_update_event, close_poste_event>>
                 /\ Rounds' \subseteq Rounds
              \/ /\ UNCHANGED day_update_event
                 /\ close_poste_event' = close_poste_event - 1
                 /\ o \in Rounds /\ Rounds' \subseteq Rounds \ {o}
<1>1. /\ opPc \in [Operators -> OpPcs] /\ begun \in [Processes -> Nat]
      /\ open_poste_event \in Nat /\ close_poste_event \in Nat /\ day_update_event \in Nat
  BY DEF TypeOK, SharedTypeOK, OpTypeOK
<1>2. \A u \in Users : begun'[u] = begun[u]
  <2>1. begun' = begun \/ begun' = [begun EXCEPT ![o] = current_day]
    BY DEF OpNext, OpDayStart, OpEnter, OpCanWorkToday, OpSeek, OpStationEvent,
       OpStationTimeout, OpTimedOut, OpScan, OpTake, did_poste_close, OpPoll, OpServe, OpLeave,
       OpSignal, sharedVars
  <2> QED
    BY <1>1, <2>1, PidAssumption DEF Processes
<1>3. \A p \in Operators \ {o} : opPc'[p] = opPc[p]
  BY <1>1 DEF OpNext, OpDayStart, OpEnter, OpCanWorkToday, OpSeek, OpStationEvent,
     OpStationTimeout, OpTimedOut, OpScan, OpTake, did_poste_close, OpPoll, OpServe, OpLeave,
     OpSignal, OpGoto
<1>4. Rounds' \subseteq Rounds \cup {o} /\ (~InRound(o)' => Rounds' \subseteq Rounds \ {o})
  BY <1>3 DEF Rounds, InRound
<1>5. CASE OpDayStart(o)
  BY <1>1, <1>2, <1>3, <1>4, <1>5 DEF OpDayStart, OpGoto, OpAt, sem_wait
<1>6. CASE OpTimedOut(o) \/ did_poste_close(o)
  <2>1. InRound(o) /\ UNCHANGED <<day_update_event, open_poste_event>>
    BY <1>6 DEF OpTimedOut, did_poste_close, OpAt, InRound
  <2>2. Rounds' \subseteq Rounds
    BY <1>4, <2>1 DEF Rounds
  <2>3. opPc[o] \notin {"dayWait", "openWait"}
    BY <1>6 DEF OpTimedOut, did_poste_close, OpAt
  <2>4. \/ UNCHANGED close_poste_event
        \/ close_poste_event > 0 /\ close_poste_event' = close_poste_event - 1 /\ ~InRound(o)'
    BY <1>1, <1>6 DEF OpTimedOut, did_poste_close, sem_wait, OpGoto, InRound
  <2> QED
    BY <1>1, <1>2, <1>3, <1>4, <2>1, <2>2, <2>3, <2>4 DEF Rounds
<1>7. CASE ~OpDayStart(o) /\ ~OpTimedOut(o) /\ ~did_poste_close(o)
  <2>1. UNCHANGED <<day_update_event, close_poste_event>>
    BY <1>7 DEF OpNext, OpEnter, OpCanWorkToday, OpSeek, OpStationEvent, OpStationTimeout,
       OpScan, OpTake, OpPoll, OpServe, OpLeave, OpSignal, sharedVars
  <2>2. open_poste_event = 0 => UNCHANGED open_poste_event
    BY <1>7 DEF OpNext, OpEnter, OpCanWorkToday, OpSeek, OpStationEvent, OpStationTimeout,
       OpScan, OpTake, OpPoll, OpServe, OpLeave, OpSignal, sharedVars, sem_wait
  <2>3. InRound(o) \/ ~InRound(o)'
    BY <1>1, <1>7 DEF OpNext, OpEnter, OpCanWorkToday, OpSeek, OpStationEvent,
       OpStationTimeout, OpScan, OpTake, OpPoll, OpServe, OpLeave, OpSignal, OpAt, OpGoto,
       InRound
  <2>4. Rounds' \subseteq Rounds
    BY <1>4, <2>3 DEF Rounds
  <2>5. ~(opPc[o] \in {"dayWait", "openWait"} /\ open_poste_event = 0)
    BY <1>1, <1>7 DEF OpNext, OpEnter, OpCanWorkToday, OpSeek, OpStationEvent,
       OpStationTimeout, OpScan, OpTake, OpPoll, OpServe, OpLeave, OpSignal, OpAt, sem_wait
  <2> QED
    BY <1>2, <1>3, <2>1, <2>2, <2>4, <2>5
<1> QED
  BY <1>5, <1>6, <1>7

\* And a user's: its round is begun with a token.
LEMMA UtTokens ==
    ASSUME TypeOK, NEW u \in Users, UtNext(u)
    PROVE  /\ UNCHANGED close_poste_event
           /\ \A v \in Users \ {u} : utPc'[v] = utPc[v]
           /\ utPc[u] \in {"dayWait", "decide", "openWait"} /\ open_poste_event = 0 =>
                 utPc'[u] \in {"dayWait", "decide", "openWait"}
           /\ open_poste_event = 0 => open_poste_event' = 0
           /\ \/ /\ day_update_event' = day_update_event - 1
                 /\ Begun' \subseteq Begun \cup {u}
              \/ UNCHANGED day_update_event /\ Begun' \subseteq Begun
<1>1. /\ utPc \in [Users -> UtPcs] /\ begun \in [Processes -> Nat] /\ u \in Processes
      /\ open_poste_event \in Nat /\ close_poste_event \in Nat /\ day_update_event \in Nat
  BY DEF TypeOK, SharedTypeOK, UtTypeOK, Processes
<1>2. UNCHANGED close_poste_event
  BY DEF UtNext, UtDayStart, UtDecide, UtEnter, UtWalkIn, UtNextService, UtLateHome,
     UtRequest, UtTicket, UtLook, UtClaim, UtSeatWait, UtReadOp, UtPresent, UtDone, UtServed,
     UtLate, UtFree, sharedVars
<1>3. \A v \in Users \ {u} : utPc'[v] = utPc[v]
  BY <1>1 DEF UtNext, UtDayStart, UtDecide, PlanDay, UtEnter, UtWalkIn, UtNextService,
     UtLateHome, UtRequest, UtTicket, UtLook, UtClaim, UtSeatWait, UtReadOp, UtPresent, UtDone,
     UtServed, UtLate, UtFree, ServiceOver, UtGoto
<1>4. CASE UtDayStart(u)
  <2>1. /\ day_update_event' = day_update_event - 1 /\ UNCHANGED open_poste_event
        /\ begun' = [begun EXCEPT ![u] = current_day] /\ utPc'[u] = "decide"
    BY <1>1, <1>4 DEF UtDayStart, sem_wait, UtGoto
  <2>2. Begun' \subseteq Begun \cup {u}
    BY <1>1, <2>1 DEF Begun, Processes
  <2> QED
    BY <1>2, <1>3, <2>1, <2>2
<1>5. CASE UtDecide(u)
  BY <1>1, <1>2, <1>3, <1>5 DEF UtDecide, PlanDay, UtGoto, UtAt, sharedVars, Begun
<1>6. CASE ~UtDayStart(u) /\ ~UtDecide(u)
  <2>1. UNCHANGED <<day_update_event, begun>>
    BY <1>6 DEF UtNext, UtEnter, UtWalkIn, UtNextService, UtLateHome, UtRequest, UtTicket,
       UtLook, UtClaim, UtSeatWait, UtReadOp, UtPresent, UtDone, UtServed, UtLate, UtFree,
       sharedVars
  <2>2. open_poste_event = 0 => UNCHANGED open_poste_event
    BY <1>6 DEF UtNext, UtEnter, UtWalkIn, UtNextService, UtLateHome, UtRequest, UtTicket,
       UtLook, UtClaim, UtSeatWait, UtReadOp, UtPresent, UtDone, UtServed, UtLate, UtFree,
       sharedVars, sem_wait
  <2>3. ~(utPc[u] \in {"dayWait", "decide", "openWait"} /\ open_poste_event = 0)
    BY <1>1, <1>6 DEF UtNext, UtEnter, UtWalkIn, UtNextService, UtLateHome, UtRequest,
       UtTicket, UtLook, UtClaim, UtSeatWait, UtReadOp, UtPresent, UtDone, UtServed, UtLate,
       UtFree, UtAt, sem_wait
  <2> QED
    BY <1>2, <1>3, <2>1, <2>2, <2>3 DEF Begun
<1> QED
  BY <1>4, <1>5, <1>6

\* A step of a process, which the clock does not see.
LEMMA ProcessHours ==
    ASSUME TypeOK, TypeOK', HoursInv, ~Dawn, UNCHANGED <<clockVars, dirVars>>,
           open_poste_event = 0 /\ Outside => open_poste_event' = 0 /\ Outside',
           close_poste_event = 0 => close_poste_event' = 0,
           day_update_event' + Cardinality(Begun') + Cardinality(Rounds') - close_poste_event'
              <= day_update_event + Cardinality(Begun) + Cardinality(Rounds)
                    - close_poste_event,
           Cardinality(Begun') \in Nat, Cardinality(Rounds') \in Nat
    PROVE  HoursInv'
<1>1. /\ UNCHANGED <<current_day, current_minute, dirPc, minutes_elapsed, dirPosts>>
      /\ ~Dawn'
  BY DEF clockVars, dirVars, Dawn
<1>2. \A h : \A pcs : Before(h, pcs)' <=> Before(h, pcs)
  BY <1>1 DEF Before
<1>3. /\ close_poste_event \in Nat /\ close_poste_event' \in Nat /\ dirPosts \in Nat
      /\ day_update_event \in Nat /\ day_update_event' \in Nat
      /\ Cardinality(Operators) \in Nat /\ Cardinality(Users) \in Nat
      /\ Cardinality(Begun) \in Nat /\ Cardinality(Rounds) \in Nat
  BY PeopleCount DEF TypeOK, SharedTypeOK, DirTypeOK
<1>4. ClosingTokens' = ClosingTokens + close_poste_event' - close_poste_event
      /\ ClosingTokens \in Nat
  BY <1>1, <1>2, <1>3 DEF ClosingTokens
<1>5. CASE current_day <= 1
  <2>1. CloseMinute > 0 =>
           day_update_event + Cardinality(Begun) + Cardinality(Rounds)
              <= Cardinality(Users) + ClosingTokens
    BY <1>5 DEF HoursInv
  <2>2. CloseMinute > 0 =>
           day_update_event' + Cardinality(Begun') + Cardinality(Rounds')
              <= Cardinality(Users) + ClosingTokens'
    BY <1>3, <1>4, <2>1
  <2> QED
    BY <1>1, <1>2, <1>5, <2>2 DEF HoursInv
<1> QED
  BY <1>1, <1>5 DEF HoursInv

\* The director's step: the people's part of the count is as it was.
LEMMA DirHours ==
    ASSUME TypeOK, TypeOK', DayInv, HoursInv, DirNext, UNCHANGED <<opVars, utVars>>
    PROVE  HoursInv'
<1>1. UNCHANGED begun
  BY DEF DirNext, DirMinute, DirClosing, DirMidnight, DirNewDay, DirSeats, DirAnnounce,
     DirAdvance, DirTerminate, DirReport, sharedVars
<1>2. Begun' = Begun /\ Rounds' = Rounds /\ (Outside' <=> Outside)
  BY <1>1 DEF opVars, utVars, Begun, Rounds, InRound, Outside
<1>3. /\ close_poste_event \in Nat /\ dirPosts \in Nat /\ day_update_event \in Nat
      /\ minutes_elapsed \in Nat /\ current_day \in Nat /\ OpenMinute \in Nat
      /\ CloseMinute \in Nat /\ Cardinality(Operators) \in Nat /\ Cardinality(Users) \in Nat
      /\ Cardinality(Begun) \in Nat /\ Cardinality(Rounds) \in Nat /\ open_poste_event \in Nat
  BY PeopleCount, ConfigAssumption DEF TypeOK, SharedTypeOK, DirTypeOK
<1>4. Dawn' => Dawn
  BY <1>3 DEF DirNext, DirMinute, DirClosing, DirMidnight, DirNewDay, DirSeats, DirAnnounce,
     DirAdvance, DirTerminate, DirReport, DirAt, DirGoto, sharedVars, clockVars, Dawn, DayInv
<1>5. Dawn' => \A u \in Users : begun'[u] = 0
  BY <1>1, <1>4 DEF HoursInv
<1> DEFINE N == day_update_event + Cardinality(Begun) + Cardinality(Rounds)
<1>6. SUFFICES ASSUME current_day' <= 1
               PROVE  /\ current_minute' = minutes_elapsed'
                      /\ dirPc' # "closing" => dirPosts' = 0
                      /\ dirPosts' > 0 => minutes_elapsed' = CloseMinute
                      /\ Before(OpenMinute, {"minute"})' => open_poste_event' = 0 /\ Outside'
                      /\ Before(CloseMinute, {"minute"})' => close_poste_event' = 0
                      /\ CloseMinute > 0 =>
                            day_update_event' + Cardinality(Begun) + Cardinality(Rounds)
                                <= Cardinality(Users) + ClosingTokens'
  BY <1>2, <1>5 DEF HoursInv
<1>7. current_day <= 1
  BY <1>3, <1>6 DEF DirNext, DirMinute, DirClosing, DirMidnight, DirNewDay, DirSeats,
     DirAnnounce, DirAdvance, DirTerminate, DirReport, DirAt, sharedVars, clockVars, DayInv
<1>8. /\ current_minute = minutes_elapsed
      /\ dirPc # "closing" => dirPosts = 0
      /\ dirPosts > 0 => minutes_elapsed = CloseMinute
      /\ Before(OpenMinute, {"minute"}) => open_poste_event = 0 /\ Outside
      /\ Before(CloseMinute, {"minute"}) => close_poste_event = 0
      /\ CloseMinute > 0 => N <= Cardinality(Users) + ClosingTokens
  BY <1>7 DEF HoursInv
<1> USE <1>2, <1>3, <1>8 DEF DirAt, DirGoto, clockVars, Before, Ended, ClosingTokens
<1>9. CASE DirMinute
  <2>1. CASE days_elapsed >= SimDuration /\ dirPc' = "terminate"
             /\ UNCHANGED <<open_poste_event, dirPosts>>
    BY <1>9, <2>1 DEF DirMinute
  <2>2. CASE /\ open_poste_event' = IF AtHour(OpenMinute)
                                    THEN open_poste_event + Cardinality(Operators)
                                                          + Cardinality(Users)
                                    ELSE open_poste_event
             /\ dirPosts' = IF AtHour(CloseMinute) THEN Cardinality(Operators) ELSE 0
             /\ dirPc' = "closing"
    BY <1>9, <2>2 DEF DirMinute, AtHour
  <2> QED
    BY <1>9, <2>1, <2>2 DEF DirMinute
<1>10. CASE DirClosing
  BY <1>10 DEF DirClosing, sem_post
<1>11. CASE DirMidnight \/ DirTerminate \/ DirReport
  BY <1>11 DEF DirMidnight, DirTerminate, DirReport, sharedVars
<1>12. CASE DirNewDay
  BY <1>12 DEF DirNewDay
<1>13. CASE DirSeats
  BY <1>13 DEF DirSeats
<1>14. CASE DirAnnounce
  <2>1. Dawn
    BY <1>7, <1>14 DEF DirAnnounce, Dawn
  <2>2. Begun = {} /\ Rounds = {}
    BY <2>1 DEF HoursInv, DayInv, Begun, Rounds, InRound
  <2>3. Cardinality(Begun) = 0 /\ Cardinality(Rounds) = 0
    BY <2>2, FS_EmptySet
  <2>4. day_update_event = 0 /\ minutes_elapsed = 0 /\ minutes_elapsed' = 0
    BY <1>14, <2>1 DEF DirAnnounce, DayInv
  <2> QED
    BY <1>14, <2>3, <2>4 DEF DirAnnounce
<1>15. CASE DirAdvance
  BY <1>15 DEF DirAdvance
<1> QED
  BY <1>9, <1>10, <1>11, <1>12, <1>13, <1>14, <1>15 DEF DirNext

LEMMA HoursStep ==
    TypeOK /\ TypeOK' /\ DayInv /\ HoursInv /\ [Next]_vars => HoursInv'
<1> SUFFICES ASSUME TypeOK, TypeOK', DayInv, HoursInv, [Next]_vars PROVE HoursInv'
  OBVIOUS
<1>0. /\ close_poste_event \in Nat /\ close_poste_event' \in Nat
      /\ day_update_event \in Nat /\ day_update_event' \in Nat
      /\ opPc \in [Operators -> OpPcs] /\ utPc \in [Users -> UtPcs]
  BY DEF TypeOK, SharedTypeOK, OpTypeOK, UtTypeOK
<1>1. CASE UNCHANGED <<sharedVars, opPc, utPc, dirVars>>
  BY <1>1 DEF sharedVars, clockVars, dirVars, HoursInv, Dawn, Before, Begun, Rounds, InRound, Outside,
     ClosingTokens
<1>2. CASE ErStep
  BY <1>2 DEF ErStep, ErNext, opVars, utVars, dirVars, clockVars, HoursInv, Dawn, Before,
     Begun, Rounds, InRound, Outside, ClosingTokens
<1>3. ASSUME NEW o \in Operators, OpStep(o) PROVE HoursInv'
  <2>1. OpNext(o) /\ UNCHANGED <<utPc, dirVars>>
    BY <1>3 DEF OpStep, utVars
  <2>2. ~Dawn /\ UNCHANGED clockVars
    BY <2>1, OpAfterDawn
  <2>3. Begun' = Begun
    BY <2>1, OpTokens DEF Begun
  <2>4. open_poste_event = 0 /\ Outside => open_poste_event' = 0 /\ Outside'
    BY <2>1, OpTokens DEF Outside
  <2>5. close_poste_event = 0 => close_poste_event' = 0
    BY <2>1, OpTokens
  <2>6. /\ Cardinality(Begun) \in Nat /\ Cardinality(Rounds) \in Nat
        /\ IsFiniteSet(Operators) /\ Rounds \subseteq Operators
    BY PeopleCount
  <2>7. /\ Cardinality(Rounds') \in Nat
        /\ day_update_event' + Cardinality(Rounds') - close_poste_event'
              <= day_update_event + Cardinality(Rounds) - close_poste_event
    <3>1. CASE /\ day_update_event' = day_update_event - 1
               /\ close_poste_event' = close_poste_event
               /\ Rounds' \subseteq Rounds \cup {o}
      <4>1. /\ Cardinality(Rounds') \in Nat
            /\ Cardinality(Rounds') <= Cardinality(Rounds) + 1
        BY <2>6, <3>1, CountFact
      <4> QED
        BY <1>0, <2>6, <3>1, <4>1
    <3>2. CASE /\ UNCHANGED <<day_update_event, close_poste_event>>
               /\ Rounds' \subseteq Rounds
      <4>1. Cardinality(Rounds') \in Nat /\ Cardinality(Rounds') <= Cardinality(Rounds)
        BY <2>6, <3>2, CountFact
      <4> QED
        BY <1>0, <2>6, <3>2, <4>1
    <3>3. CASE /\ UNCHANGED day_update_event
               /\ close_poste_event' = close_poste_event - 1
               /\ o \in Rounds /\ Rounds' \subseteq Rounds \ {o}
      <4>1. /\ Cardinality(Rounds') \in Nat
            /\ Cardinality(Rounds') + 1 <= Cardinality(Rounds)
        BY <2>6, <3>3, CountFact
      <4> QED
        BY <1>0, <2>6, <3>3, <4>1
    <3> QED
      BY <2>1, <3>1, <3>2, <3>3, OpTokens
  <2>8. day_update_event' + Cardinality(Begun') + Cardinality(Rounds') - close_poste_event'
           <= day_update_event + Cardinality(Begun) + Cardinality(Rounds) - close_poste_event
    BY <1>0, <2>3, <2>6, <2>7
  <2> QED
    BY <2>1, <2>2, <2>3, <2>4, <2>5, <2>6, <2>7, <2>8, ProcessHours
<1>4. ASSUME NEW u \in Users, UtStep(u) PROVE HoursInv'
  <2>1. UtNext(u) /\ UNCHANGED <<opPc, dirVars>>
    BY <1>4 DEF UtStep, opVars
  <2>2. ~Dawn /\ UNCHANGED clockVars
    BY <2>1, UtAfterDawn
  <2>3. Rounds' = Rounds
    BY <2>1 DEF Rounds, InRound
  <2>4. open_poste_event = 0 /\ Outside => open_poste_event' = 0 /\ Outside'
    BY <2>1, UtTokens DEF Outside
  <2>5. close_poste_event' = close_poste_event
    BY <2>1, UtTokens
  <2>6. /\ Cardinality(Begun) \in Nat /\ Cardinality(Rounds) \in Nat
        /\ IsFiniteSet(Users) /\ Begun \subseteq Users
    BY PeopleCount
  <2>7. /\ Cardinality(Begun') \in Nat
        /\ day_update_event' + Cardinality(Begun') <= day_update_event + Cardinality(Begun)
    <3>1. CASE /\ day_update_event' = day_update_event - 1
               /\ Begun' \subseteq Begun \cup {u}
      <4>1. /\ Cardinality(Begun') \in Nat
            /\ Cardinality(Begun') <= Cardinality(Begun) + 1
        BY <2>6, <3>1, CountFact
      <4> QED
        BY <1>0, <2>6, <3>1, <4>1
    <3>2. CASE UNCHANGED day_update_event /\ Begun' \subseteq Begun
      <4>1. Cardinality(Begun') \in Nat /\ Cardinality(Begun') <= Cardinality(Begun)
        BY <2>6, <3>2, CountFact
      <4> QED
        BY <1>0, <2>6, <3>2, <4>1
    <3> QED
      BY <2>1, <3>1, <3>2, UtTokens
  <2>8. day_update_event' + Cardinality(Begun') + Cardinality(Rounds') - close_poste_event'
           <= day_update_event + Cardinality(Begun) + Cardinality(Rounds) - close_poste_event
    BY <1>0, <2>3, <2>5, <2>6, <2>7
  <2> QED
    BY <2>1, <2>2, <2>3, <2>4, <2>5, <2>6, <2>7, <2>8, ProcessHours
<1>5. CASE DirStep
  BY <1>5, DirHours DEF DirStep
<1>6. CASE UNCHANGED vars
  BY <1>1, <1>6 DEF vars, opVars, utVars
<1> QED
  BY <1>2, <1>3, <1>4, <1>5, <1>6 DEF Next

LEMMA HoursInvariant == Spec => [](TypeOK /\ DayInv /\ HoursInv)
<1>1. Init => TypeOK /\ DayInv /\ EndInv /\ HoursInv
  BY TypeInit, DayInit, HoursInit
<1> QED
  BY <1>1, TypeStep, DayStep, HoursStep, PTL DEF Spec

\* On the first day nobody is let in before the opening hour, whatever the hours, and
\* however many processes wait for it (direttore.c:396-401).
THEOREM OpensOnTimeCorrect == Spec => []FirstDayOpensOnTime
<1>1. TypeOK /\ HoursInv => FirstDayOpensOnTime
  BY ConfigAssumption DEF HoursInv, Before, Outside, FirstDayOpensOnTime
<1> QED
  BY <1>1, HoursInvariant, PTL

\* On the first day no token sends an operator home before the closing hour
\* (direttore.c:403-407, operatore.c:194-196, 264).
THEOREM ShiftsLastCorrect == Spec => FirstDayShiftsLast
<1>1. TypeOK /\ TypeOK' /\ HoursInv /\ [Next]_vars =>
         [current_day <= 1 /\ close_poste_event' < close_poste_event
             => current_minute >= CloseMinute]_vars
  <2> SUFFICES ASSUME TypeOK, TypeOK', HoursInv, current_day <= 1,
                      close_poste_event' < close_poste_event
               PROVE  current_minute >= CloseMinute
    OBVIOUS
  <2>1. close_poste_event \in Nat /\ close_poste_event' \in Nat /\ minutes_elapsed \in Nat
        /\ CloseMinute \in Nat
    BY ConfigAssumption DEF TypeOK, SharedTypeOK, DirTypeOK
  <2>2. close_poste_event # 0
    BY <2>1
  <2>3. ~(minutes_elapsed < CloseMinute) /\ current_minute = minutes_elapsed
    BY <2>2 DEF HoursInv, Before
  <2> QED
    BY <2>1, <2>3
<1> QED
  BY <1>1, HoursInvariant, PTL DEF Spec, FirstDayShiftsLast

\* After the first closing hour, and once every user has begun the day, there is a
\* closing token for every operator that has not gone home, however many operators
\* and users there are (direttore.c:397-407, operatore.c:205-207, 264, 393).
THEOREM TokensSufficeCorrect == Spec => []FirstDayTokensSuffice
<1>1. TypeOK /\ DayInv /\ HoursInv => FirstDayTokensSuffice
  <2> SUFFICES ASSUME TypeOK, DayInv, HoursInv, AfterFirstClosing
               PROVE  Cardinality(Rounds) <= close_poste_event
    BY DEF FirstDayTokensSuffice, Rounds
  <2>1. /\ current_minute = minutes_elapsed
        /\ dirPosts > 0 => minutes_elapsed = CloseMinute
        /\ day_update_event + Cardinality(Begun) + Cardinality(Rounds)
              <= Cardinality(Users) + ClosingTokens
    BY DEF HoursInv, AfterFirstClosing
  <2>2. /\ minutes_elapsed \in Nat /\ dirPosts \in Nat /\ close_poste_event \in Nat
        /\ day_update_event \in Nat /\ CloseMinute \in Nat
        /\ Cardinality(Users) \in Nat /\ Cardinality(Rounds) \in Nat
    BY PeopleCount, ConfigAssumption DEF TypeOK, SharedTypeOK, DirTypeOK
  <2>3. ClosingTokens = close_poste_event
    BY <2>1, <2>2 DEF ClosingTokens, Before, AfterFirstClosing
  <2>4. Begun = Users
    BY DEF Begun, AfterFirstClosing
  <2> QED
    BY <2>1, <2>2, <2>3, <2>4
<1> QED
  BY <1>1, HoursInvariant, PTL
-----------------------------------------------------------------------------
(* The late users of the day.  Nobody has begun a day that is not yet set   *)
(* up, so the day's first count finds no one to count.                      *)
Late == {u \in Users : utBeenLate[u] /\ begun[u] = current_day /\ utPc[u] # "decide"}
LateInv == /\ \A p \in Processes : begun[p] <= current_day
           /\ Cardinality(Late) <= late_users

LEMMA LateFinite ==
    ASSUME NEW S, NEW R, S \subseteq Users
    PROVE  /\ IsFiniteSet(S) /\ Cardinality(S) \in Nat
           /\ R \subseteq S => Cardinality(R) <= Cardinality(S)
           /\ \A u \in Users : R \subseteq S \cup {u} => Cardinality(R) <= Cardinality(S) + 1
BY CountFact, PidAssumption

LEMMA LateInit == Init => LateInv
<1> SUFFICES ASSUME Init PROVE LateInv
  OBVIOUS
<1>1. Late = {}
  BY DEF Init, UtInit, Late
<1> QED
  BY <1>1, FS_EmptySet DEF Init, SharedInit, LateInv

\* Nobody new is late.
LEMMA NoneLate ==
    ASSUME LateInv, UNCHANGED <<current_day, late_users>>,
           \A p \in Processes : begun'[p] \in {begun[p], current_day}, TypeOK,
           Late' \subseteq Late
    PROVE  LateInv'
<1>1. Cardinality(Late') <= Cardinality(Late) /\ Cardinality(Late) \in Nat
  BY LateFinite DEF Late
<1>2. Cardinality(Late') \in Nat
  BY LateFinite DEF Late
<1>3. \A p \in Processes : begun'[p] <= current_day'
  BY DEF LateInv, TypeOK, SharedTypeOK
<1>4. late_users \in Nat
  BY DEF TypeOK, SharedTypeOK
<1> QED
  BY <1>1, <1>2, <1>3, <1>4 DEF LateInv

LEMMA OpLate ==
    ASSUME TypeOK, DayInv, LateInv, NEW o \in Operators, OpNext(o), UNCHANGED utVars
    PROVE  LateInv'
<1>1. UNCHANGED <<current_day, late_users>>
  BY OpAfterDawn DEF clockVars
<1>2. begun' = begun \/ begun' = [begun EXCEPT ![o] = current_day]
  BY DEF OpNext, OpDayStart, OpEnter, OpCanWorkToday, OpSeek, OpStationEvent,
     OpStationTimeout, OpTimedOut, OpScan, OpTake, did_poste_close, OpPoll, OpServe, OpLeave,
     OpSignal, sharedVars
<1>3. \A p \in Processes : begun'[p] \in {begun[p], current_day}
  BY <1>2 DEF TypeOK, SharedTypeOK
<1>4. \A u \in Users : begun'[u] = begun[u]
  BY <1>2, PidAssumption DEF TypeOK, SharedTypeOK, Processes
<1>5. Late' \subseteq Late
  BY <1>1, <1>4 DEF Late, utVars
<1> QED
  BY <1>1, <1>3, <1>5, NoneLate

LEMMA UtLateStep ==
    ASSUME TypeOK, DayInv, LateInv, NEW u \in Users, UtNext(u)
    PROVE  LateInv'
<1>1. /\ utPc \in [Users -> UtPcs] /\ utBeenLate \in [Users -> BOOLEAN]
      /\ begun \in [Processes -> Nat] /\ u \in Processes
      /\ late_users \in Nat /\ current_day \in Nat /\ current_day' = current_day
  BY UtAfterDawn DEF TypeOK, SharedTypeOK, UtTypeOK, Processes, clockVars
<1>2. \A v \in Users \ {u} :
         utPc'[v] = utPc[v] /\ utBeenLate'[v] = utBeenLate[v] /\ begun'[v] = begun[v]
  <2>1. \E l \in UtPcs : utPc' = [utPc EXCEPT ![u] = l]
    BY <1>1 DEF UtNext, UtDayStart, UtDecide, PlanDay, UtEnter, UtWalkIn, UtNextService,
       UtLateHome, UtRequest, UtTicket, UtLook, UtClaim, UtSeatWait, UtReadOp, UtPresent,
       UtDone, UtServed, UtLate, UtFree, ServiceOver, UtGoto, UtPcs
  <2>2. utBeenLate' = utBeenLate \/ \E b \in BOOLEAN : utBeenLate' = [utBeenLate EXCEPT ![u] = b]
    BY DEF UtNext, UtDayStart, UtDecide, UtEnter, UtWalkIn, UtNextService,
       UtLateHome, UtRequest, UtTicket, UtLook, UtClaim, UtSeatWait, UtReadOp, UtPresent,
       UtDone, UtServed, UtLate, UtFree, handle_late_users
  <2>3. begun' = begun \/ begun' = [begun EXCEPT ![u] = current_day]
    BY DEF UtNext, UtDayStart, UtDecide, UtEnter, UtWalkIn, UtNextService,
       UtLateHome, UtRequest, UtTicket, UtLook, UtClaim, UtSeatWait, UtReadOp, UtPresent,
       UtDone, UtServed, UtLate, UtFree, sharedVars
  <2>4. Users \subseteq Processes
    BY DEF Processes
  <2> QED
    BY <1>1, <2>1, <2>2, <2>3, <2>4
<1>3. Late' \subseteq Late \cup {u}
  BY <1>1, <1>2 DEF Late
<1>4. CASE UtDayStart(u)
  <2>1. utPc'[u] = "decide" /\ begun' = [begun EXCEPT ![u] = current_day]
        /\ late_users' = late_users
    BY <1>1, <1>4 DEF UtDayStart, UtGoto
  <2>2. Late' \subseteq Late
    BY <1>3, <2>1 DEF Late
  <2> QED
    BY <1>1, <2>1, <2>2, NoneLate
<1>5. CASE UtDecide(u)
  <2>1. utBeenLate'[u] = FALSE /\ begun' = begun /\ late_users' = late_users
    BY <1>1, <1>5 DEF UtDecide, sharedVars
  <2>2. Late' \subseteq Late
    BY <1>3, <2>1 DEF Late
  <2> QED
    BY <1>1, <2>1, <2>2, NoneLate
<1>6. CASE UtLateHome(u) \/ UtLate(u)
  <2>1. utPc[u] \in {"lateHome", "late"} /\ handle_late_users(u) /\ begun' = begun
    BY <1>6 DEF UtLateHome, UtLate, UtAt
  <2>2. CASE utBeenLate[u]
    <3>1. late_users' = late_users
      BY <2>1, <2>2 DEF handle_late_users
    <3>2. Late' \subseteq Late
      BY <1>1, <1>3, <2>1, <2>2 DEF Late
    <3> QED
      BY <1>1, <2>1, <3>1, <3>2, NoneLate
  <2>3. CASE ~utBeenLate[u]
    <3>1. late_users' = late_users + 1
      BY <2>1, <2>3 DEF handle_late_users
    <3>2. /\ Cardinality(Late') <= Cardinality(Late) + 1 /\ Cardinality(Late) \in Nat
          /\ Cardinality(Late') \in Nat
      BY <1>3, LateFinite DEF Late
    <3> QED
      BY <1>1, <2>1, <3>1, <3>2 DEF LateInv
  <2> QED
    BY <2>2, <2>3
<1>7. CASE ~(UtDayStart(u) \/ UtDecide(u) \/ UtLateHome(u) \/ UtLate(u))
  <2>1. UNCHANGED <<begun, late_users, utBeenLate>>
    BY <1>7 DEF UtNext, UtEnter, UtWalkIn, UtNextService, UtRequest, UtTicket, UtLook,
       UtClaim, UtSeatWait, UtReadOp, UtPresent, UtDone, UtServed, UtFree, sharedVars
  <2>2. utPc[u] # "decide"
    BY <1>7 DEF UtNext, UtEnter, UtWalkIn, UtNextService, UtRequest, UtTicket, UtLook,
       UtClaim, UtSeatWait, UtReadOp, UtPresent, UtDone, UtServed, UtFree, UtAt
  <2>3. Late' \subseteq Late
    BY <1>1, <1>3, <2>1, <2>2 DEF Late
  <2> QED
    BY <1>1, <2>1, <2>3, NoneLate
<1> QED
  BY <1>4, <1>5, <1>6, <1>7

\* At midnight the count starts again, for a day that nobody has begun.
LEMMA DirLate ==
    ASSUME TypeOK, DayInv, LateInv, DirNext, UNCHANGED utVars
    PROVE  LateInv'
<1>1. begun' = begun /\ begun \in [Processes -> Nat] /\ current_day \in Nat
  BY DEF DirNext, DirMinute, DirClosing, DirMidnight, DirNewDay, DirSeats,
     DirAnnounce, DirAdvance, DirTerminate, DirReport, sharedVars, TypeOK, SharedTypeOK
<1>2. CASE DirNewDay
  <2>1. current_day' = current_day + 1 /\ late_users' = 0
    BY <1>2 DEF DirNewDay, DirAt, DayInv
  <2>2. \A p \in Processes : begun[p] < current_day'
    BY <1>1, <2>1 DEF LateInv
  <2>3. Late' = {}
    <3>1. \A u \in Users : begun'[u] # current_day'
      <4>1. \A p \in Processes : begun[p] \in Nat /\ current_day' \in Nat
        BY <1>1, <2>1
      <4> QED
        BY <1>1, <2>2, <4>1 DEF Processes
    <3> QED
      BY <3>1 DEF Late
  <2> QED
    BY <1>1, <2>1, <2>2, <2>3, FS_EmptySet DEF LateInv
<1>3. CASE UNCHANGED <<current_day, late_users>>
  BY <1>1, <1>3, NoneLate DEF Late, utVars
<1> QED
  BY <1>2, <1>3 DEF DirNext, DirMinute, DirClosing, DirMidnight, DirSeats, DirAnnounce,
     DirAdvance, DirTerminate, DirReport, sharedVars, clockVars

LEMMA LateStep == TypeOK /\ DayInv /\ LateInv /\ [Next]_vars => LateInv'
<1> SUFFICES ASSUME TypeOK, DayInv, LateInv, [Next]_vars PROVE LateInv'
  OBVIOUS
<1>1. CASE UNCHANGED <<utVars, begun, current_day, late_users>>
  BY <1>1, NoneLate DEF Late, utVars
<1>2. CASE ErStep
  BY <1>1, <1>2 DEF ErStep, ErNext
<1>3. ASSUME NEW o \in Operators, OpStep(o) PROVE LateInv'
  BY <1>3, OpLate DEF OpStep
<1>4. ASSUME NEW u \in Users, UtStep(u) PROVE LateInv'
  BY <1>4, UtLateStep DEF UtStep
<1>5. CASE DirStep
  BY <1>5, DirLate DEF DirStep
<1>6. CASE UNCHANGED vars
  BY <1>1, <1>6 DEF vars, sharedVars
<1> QED
  BY <1>2, <1>3, <1>4, <1>5, <1>6 DEF Next

\* Nobody who is late in a day's round goes uncounted, however many users there are
\* (utente.c:172-189, 376, direttore.c:159-162, 412).
THEOREM LateCountedCorrect == Spec => []LateAreCounted
<1>1. LateInv => LateAreCounted
  BY DEF LateInv, LateAreCounted, Late
<1> QED
  BY <1>1, TypeInit, TypeStep, DayInit, DayStep, LateInit, LateStep, PTL DEF Spec
=============================================================================
