----------------------------- MODULE PosteProofs -----------------------------
(***************************************************************************)
(* Invariants of the simulation for every number of operators, users and   *)
(* counters and every configuration: the types, and who the table of       *)
(* counters says is at work.                                               *)
(***************************************************************************)
EXTENDS Poste, DataLemmas

-----------------------------------------------------------------------------
(* Types.                                                                   *)

\* A pid is a natural number, and 0 is nobody's.
LEMMA PidFacts ==
    /\ \A p \in Processes : p \in Nat /\ p # 0
    /\ \A o \in Operators : o \in Processes /\ o \notin Users
    /\ \A u \in Users : u \in Processes /\ u \notin Operators
    /\ Cardinality(Operators) \in Nat /\ Cardinality(Users) \in Nat
BY PidAssumption, FS_CardinalityType DEF Processes

\* Sending a well-formed message keeps the queue well-formed, and receiving one
\* yields a well-formed message and keeps the rest so (msg_queue.c:10-30).
LEMMA SendType ==
    ASSUME queue \in Seq(Message), NEW m \in Message, mq_send(m)
    PROVE  queue' \in Seq(Message)
BY DEF mq_send

LEMMA ReceiveType ==
    ASSUME queue \in Seq(Message), NEW t, NEW i, mq_receive(t, i)
    PROVE  queue[i] \in Message /\ queue' \in Seq(Message)
BY RemoveAtProperties, ElementOfSeq DEF mq_receive, IsFirst

\* Taking and releasing a counter keep the table of counters well-formed
\* (operatore.c:31-50).
LEMMA TakeSeatType ==
    ASSUME seats \in [Seats -> Seat], NEW o \in Operators, NEW i \in Seats,
           take_seat(o, i)
    PROVE  seats' \in [Seats -> Seat]
BY DEF take_seat, Seat, SeatStatus

LEMMA ReleaseSeatType ==
    ASSUME seats \in [Seats -> Seat], NEW i \in Seats, release_seat(i)
    PROVE  seats' \in [Seats -> Seat]
BY DEF release_seat, Seat, SeatStatus

\* The operators' steps keep every variable in its type (operatore.c).
LEMMA OpTypeStep ==
    ASSUME SharedTypeOK, OpTypeOK, NEW o \in Operators, OpNext(o)
    PROVE  SharedTypeOK' /\ OpTypeOK'
<1> USE PidFacts, ConfigAssumption
<1>1. CASE OpDayStart(o)
  <2>1. SharedTypeOK'
    BY <1>1 DEF SharedTypeOK, OpDayStart, sem_wait, seatVars, clockVars
  <2>2. OpTypeOK'
    BY <1>1 DEF OpTypeOK, OpDayStart, OpGoto, OpAt, OpPcs, OnDuty
  <2> QED
    BY <2>1, <2>2
<1>2. CASE OpEnter(o)
  <2>1. SharedTypeOK'
    BY <1>2 DEF SharedTypeOK, OpEnter, sem_wait, seatVars, clockVars
  <2>2. OpTypeOK'
    BY <1>2 DEF OpTypeOK, OpEnter, OpGoto, OpAt, OpPcs, OnDuty
  <2> QED
    BY <2>1, <2>2
<1>3. CASE OpCanWorkToday(o)
  <2>1. SharedTypeOK'
    BY <1>3 DEF SharedTypeOK, OpCanWorkToday, sharedVars, seatVars, clockVars
  <2>2. OpTypeOK'
    BY <1>3 DEF OpTypeOK, OpCanWorkToday, OpGoto, OpAt, OpPcs, OnDuty, Seats, NoSeat
  <2> QED
    BY <2>1, <2>2
<1>4. CASE OpSeek(o)
  <2>1. CASE \E i \in Seats : /\ take_seat(o, i)
                             /\ opSeat' = [opSeat EXCEPT ![o] = i]
                             /\ OpGoto(o, "closed?")
    <3> PICK i \in Seats : /\ take_seat(o, i)
                          /\ opSeat' = [opSeat EXCEPT ![o] = i]
                          /\ OpGoto(o, "closed?")
      BY <2>1
    <3>1. seats' \in [Seats -> Seat]
      BY TakeSeatType DEF SharedTypeOK
    <3>2. SharedTypeOK'
      BY <1>4, <3>1 DEF SharedTypeOK, OpSeek, clockVars
    <3>3. OpTypeOK'
      BY <1>4 DEF OpTypeOK, OpSeek, OpGoto, OpAt, OpPcs, OnDuty, Seats
    <3> QED
      BY <3>2, <3>3
  <2>2. CASE OpGoto(o, "waitSeat") /\ UNCHANGED <<seats, opSeat>>
    <3>1. SharedTypeOK'
      BY <1>4, <2>2 DEF SharedTypeOK, OpSeek, clockVars
    <3>2. OpTypeOK'
      BY <1>4, <2>2 DEF OpTypeOK, OpSeek, OpGoto, OpAt, OpPcs, OnDuty
    <3> QED
      BY <3>1, <3>2
  <2> QED
    BY <1>4, <2>1, <2>2 DEF OpSeek
<1>5. CASE OpStationEvent(o)
  <2>1. SharedTypeOK'
    BY <1>5 DEF SharedTypeOK, OpStationEvent, sem_wait, seatVars, clockVars
  <2>2. OpTypeOK'
    BY <1>5 DEF OpTypeOK, OpStationEvent, OpGoto, OpAt, OpPcs, OnDuty
  <2> QED
    BY <2>1, <2>2
<1>6. CASE OpStationTimeout(o)
  <2>1. SharedTypeOK'
    BY <1>6 DEF SharedTypeOK, OpStationTimeout, sharedVars, seatVars, clockVars
  <2>2. OpTypeOK'
    BY <1>6 DEF OpTypeOK, OpStationTimeout, OpGoto, OpAt, OpPcs, OnDuty
  <2> QED
    BY <2>1, <2>2
<1>7. CASE OpTimedOut(o)
  <2>1. SharedTypeOK'
    BY <1>7 DEF SharedTypeOK, OpTimedOut, sem_wait, seatVars, clockVars
  <2>2. OpTypeOK'
    BY <1>7 DEF OpTypeOK, OpTimedOut, OpGoto, OpAt, OpPcs, OnDuty
  <2> QED
    BY <2>1, <2>2
<1>8. CASE OpScan(o)
  <2>1. SharedTypeOK'
    BY <1>8 DEF SharedTypeOK, OpScan, sem_post, seatVars, clockVars
  <2>2. OpTypeOK'
    BY <1>8 DEF OpTypeOK, OpScan, OpGoto, OpAt, OpPcs, OnDuty, Seats, NoSeat
  <2> QED
    BY <2>1, <2>2
<1>9. CASE OpTake(o)
  <2>1. seats' \in [Seats -> Seat]
    BY <1>9, TakeSeatType DEF SharedTypeOK, OpTypeOK, OpTake, OpAt
  <2>2. SharedTypeOK'
    BY <1>9, <2>1 DEF SharedTypeOK, OpTake, clockVars
  <2>3. OpTypeOK'
    BY <1>9 DEF OpTypeOK, OpTake, OpGoto, OpAt, OpPcs, OnDuty
  <2> QED
    BY <2>2, <2>3
<1>10. CASE did_poste_close(o)
  <2>1. SharedTypeOK'
    BY <1>10 DEF SharedTypeOK, did_poste_close, sem_wait, seatVars, clockVars
  <2>2. OpTypeOK'
    BY <1>10 DEF OpTypeOK, did_poste_close, OpGoto, OpAt, OpPcs, OnDuty
  <2> QED
    BY <2>1, <2>2
<1>11. CASE OpPoll(o)
  <2>1. CASE \E i \in 1 .. Len(queue) :
                /\ mq_receive(ServiceRequestType(o), i)
                /\ opCust' = [opCust EXCEPT ![o] = queue[i].pid]
                /\ opTicket' = [opTicket EXCEPT ![o] = queue[i].ticket]
                /\ OpGoto(o, "serve")
    <3> PICK i \in 1 .. Len(queue) :
                /\ mq_receive(ServiceRequestType(o), i)
                /\ opCust' = [opCust EXCEPT ![o] = queue[i].pid]
                /\ opTicket' = [opTicket EXCEPT ![o] = queue[i].ticket]
                /\ OpGoto(o, "serve")
      BY <2>1
    <3>1. queue[i] \in Message /\ queue' \in Seq(Message)
      BY ReceiveType DEF SharedTypeOK
    <3>2. SharedTypeOK'
      BY <1>11, <3>1 DEF SharedTypeOK, OpPoll, seatVars, clockVars
    <3>3. OpTypeOK'
      BY <1>11, <3>1 DEF OpTypeOK, OpPoll, OpGoto, OpAt, OpPcs, OnDuty, Message
    <3> QED
      BY <3>2, <3>3
  <2>2. CASE OpGoto(o, "closed?") /\ UNCHANGED <<queue, opCust, opTicket>>
    <3>1. SharedTypeOK'
      BY <1>11, <2>2 DEF SharedTypeOK, OpPoll, seatVars, clockVars
    <3>2. OpTypeOK'
      BY <1>11, <2>2 DEF OpTypeOK, OpPoll, OpGoto, OpAt, OpPcs, OnDuty
    <3> QED
      BY <3>1, <3>2
  <2> QED
    BY <1>11, <2>1, <2>2 DEF OpPoll
<1>12. CASE OpServe(o)
  <2>0. opCust[o] \in Nat /\ opTicket[o] \in Nat \cup {NoTicket} /\ o \in Processes
    BY DEF OpTypeOK
  <2>1. ServiceDone(o, opCust[o], opTicket[o]) \in Message
    BY <2>0 DEF ServiceDone, Message, Kinds
  <2>2. queue' \in Seq(Message)
    BY <1>12, <2>1, SendType DEF SharedTypeOK, OpServe
  <2>3. SharedTypeOK'
    BY <1>12, <2>2 DEF SharedTypeOK, OpServe, seatVars, clockVars
  <2>4. OpTypeOK'
    BY <1>12 DEF OpTypeOK, OpServe, OpGoto, OpAt, OpPcs, OnDuty, NoTicket
  <2> QED
    BY <2>3, <2>4
<1>13. CASE OpLeave(o)
  <2>1. seats' \in [Seats -> Seat]
    BY <1>13, ReleaseSeatType DEF SharedTypeOK, OpTypeOK, OpLeave, OpAt, OnDuty
  <2>2. SharedTypeOK'
    BY <1>13, <2>1 DEF SharedTypeOK, OpLeave, clockVars
  <2>3. OpTypeOK'
    BY <1>13 DEF OpTypeOK, OpLeave, OpGoto, OpAt, OpPcs, OnDuty
  <2> QED
    BY <2>2, <2>3
<1>14. CASE OpSignal(o)
  <2>1. SharedTypeOK'
    BY <1>14 DEF SharedTypeOK, OpSignal, sem_post, seatVars, clockVars
  <2>2. OpTypeOK'
    BY <1>14 DEF OpTypeOK, OpSignal, OpGoto, OpAt, OpPcs, OnDuty
  <2> QED
    BY <2>1, <2>2
<1> QED
  BY <1>1, <1>2, <1>3, <1>4, <1>5, <1>6, <1>7, <1>8, <1>9, <1>10, <1>11, <1>12,
     <1>13, <1>14
     DEF OpNext

\* A late user stays one of two things, and a service that is over leaves its user
\* well-formed (utente.c:172-189, 234-311).
LEMMA LateType ==
    ASSUME utBeenLate \in [Users -> BOOLEAN], NEW u \in Users, handle_late_users(u)
    PROVE  utBeenLate' \in [Users -> BOOLEAN]
BY DEF handle_late_users

LEMMA ServiceOverType ==
    ASSUME UtTypeOK, NEW u \in Users, utLeft[u] > 0, ServiceOver(u), UNCHANGED utWalk,
           utBeenLate' \in [Users -> BOOLEAN]
    PROVE  UtTypeOK'
<1> USE DEF UtTypeOK, ServiceOver, UtGoto
<1>1. utPc' \in [Users -> UtPcs] /\ utPc'[u] = "next"
  BY DEF UtPcs
<1>2. utLeft' \in [Users -> Nat]
  OBVIOUS
<1>3. utTicket' \in [Users -> Nat \cup {NoTicket}]
  OBVIOUS
<1>4. utValid' \in [Users -> SUBSET Seats] /\ utSeat' \in [Users -> Seats \cup {NoSeat}]
  OBVIOUS
<1>5. utOp' \in [Users -> Operators \cup {0}]
  OBVIOUS
<1>6. ASSUME NEW v \in Users
      PROVE  /\ utPc'[v] \in AtSeat => utSeat'[v] \in Seats
             /\ utPc'[v] \in Ticketed \cup {"request", "awaitTicket"} => utLeft'[v] > 0
  <2>1. CASE v = u
    BY <2>1, <1>1 DEF AtSeat, Ticketed
  <2>2. CASE v # u
    BY <2>2
  <2> QED
    BY <2>1, <2>2
<1> QED
  BY <1>1, <1>2, <1>3, <1>4, <1>5, <1>6

\* The users' steps keep every variable in its type (utente.c).
LEMMA UtTypeStep ==
    ASSUME SharedTypeOK, UtTypeOK, NEW u \in Users, UtNext(u)
    PROVE  SharedTypeOK' /\ UtTypeOK'
<1> USE PidFacts, ConfigAssumption
<1>1. CASE UtDayStart(u)
  <2>1. SharedTypeOK'
    BY <1>1 DEF SharedTypeOK, UtDayStart, sem_wait, seatVars, clockVars
  <2>2. UtTypeOK'
    BY <1>1 DEF UtTypeOK, UtDayStart, UtGoto, UtAt, UtPcs, AtSeat, Ticketed
  <2> QED
    BY <2>1, <2>2
<1>2. CASE UtEnter(u)
  <2>1. SharedTypeOK'
    BY <1>2 DEF SharedTypeOK, UtEnter, sem_wait, seatVars, clockVars
  <2>2. UtTypeOK'
    BY <1>2 DEF UtTypeOK, UtEnter, UtGoto, UtAt, UtPcs, AtSeat, Ticketed
  <2> QED
    BY <2>1, <2>2
<1>3. CASE UtWalkIn(u)
  <2>1. SharedTypeOK'
    BY <1>3 DEF SharedTypeOK, UtWalkIn, sharedVars, seatVars, clockVars
  <2>2. UtTypeOK'
    BY <1>3 DEF UtTypeOK, UtWalkIn, UtGoto, UtAt, UtPcs, AtSeat, Ticketed
  <2> QED
    BY <2>1, <2>2
<1>4. CASE UtNextService(u)
  <2>1. SharedTypeOK'
    BY <1>4 DEF SharedTypeOK, UtNextService, sharedVars, seatVars, clockVars
  <2>2. UtTypeOK'
    BY <1>4 DEF UtTypeOK, UtNextService, UtGoto, UtAt, UtPcs, AtSeat, Ticketed
  <2> QED
    BY <2>1, <2>2
<1>5. CASE UtRequest(u)
  <2>1. TicketRequest(u) \in Message
    BY DEF TicketRequest, TicketRequestType, Message, Kinds
  <2>2. queue' \in Seq(Message)
    BY <1>5, <2>1, SendType DEF SharedTypeOK, UtRequest
  <2>3. SharedTypeOK'
    BY <1>5, <2>2 DEF SharedTypeOK, UtRequest, seatVars, clockVars
  <2>4. UtTypeOK'
    BY <1>5 DEF UtTypeOK, UtRequest, UtGoto, UtAt, UtPcs, AtSeat, Ticketed
  <2> QED
    BY <2>3, <2>4
<1>6. CASE UtTicket(u)
  <2> PICK i \in 1 .. Len(queue) : /\ mq_receive(u, i)
                                  /\ utTicket' = [utTicket EXCEPT ![u] = queue[i].ticket]
    BY <1>6 DEF UtTicket
  <2>1. queue[i] \in Message /\ queue' \in Seq(Message)
    BY ReceiveType DEF SharedTypeOK
  <2>2. SharedTypeOK'
    BY <1>6, <2>1 DEF SharedTypeOK, UtTicket, seatVars, clockVars
  <2>3. UtTypeOK'
    BY <1>6, <2>1 DEF UtTypeOK, UtTicket, UtGoto, UtAt, UtPcs, AtSeat, Ticketed, Message
  <2> QED
    BY <2>2, <2>3
<1>7. CASE UtLook(u)
  <2>1. SharedTypeOK'
    BY <1>7 DEF SharedTypeOK, UtLook, sharedVars
  <2>2. CASE ServiceOver(u)
    BY <1>7, <2>1, <2>2 DEF UtTypeOK, UtLook, UtGoto, UtAt, UtPcs, AtSeat, Ticketed,
       ServiceOver, NoTicket, NoSeat
  <2>3. CASE \E s \in Services :
                /\ utValid' = [utValid EXCEPT ![u] =
                                 {i \in Seats : /\ seats[i].service_id = s
                                               /\ seats[i].operator_status = "OCCUPIED"}]
                /\ UtGoto(u, "claim")
                /\ UNCHANGED <<utLeft, utTicket, utSeat, utOp>>
    BY <1>7, <2>1, <2>3 DEF UtTypeOK, UtLook, UtGoto, UtAt, UtPcs, AtSeat, Ticketed
  <2> QED
    BY <1>7, <2>2, <2>3 DEF UtLook
<1>8. CASE UtClaim(u)
  <2>1. CASE \E i \in utValid[u] :
                /\ seats' = [seats EXCEPT ![i].user_status = "OCCUPIED"]
                /\ utSeat' = [utSeat EXCEPT ![u] = i]
                /\ utValid' = [utValid EXCEPT ![u] = {}]
                /\ UtGoto(u, "readOp")
    <3> PICK i \in utValid[u] :
                /\ seats' = [seats EXCEPT ![i].user_status = "OCCUPIED"]
                /\ utSeat' = [utSeat EXCEPT ![u] = i]
                /\ utValid' = [utValid EXCEPT ![u] = {}]
                /\ UtGoto(u, "readOp")
      BY <2>1
    <3>1. i \in Seats
      BY DEF UtTypeOK
    <3>2. seats' \in [Seats -> Seat]
      BY <3>1 DEF SharedTypeOK, Seat, SeatStatus
    <3>3. SharedTypeOK'
      BY <1>8, <3>2 DEF SharedTypeOK, UtClaim, clockVars
    <3>4. UtTypeOK'
      BY <1>8, <3>1 DEF UtTypeOK, UtClaim, UtGoto, UtAt, UtPcs, AtSeat, Ticketed
    <3> QED
      BY <3>3, <3>4
  <2>2. CASE UtGoto(u, "seatWait") /\ UNCHANGED <<seats, utSeat, utValid>>
    <3>1. SharedTypeOK'
      BY <1>8, <2>2 DEF SharedTypeOK, UtClaim, clockVars
    <3>2. UtTypeOK'
      BY <1>8, <2>2 DEF UtTypeOK, UtClaim, UtGoto, UtAt, UtPcs, AtSeat, Ticketed
    <3> QED
      BY <3>1, <3>2
  <2> QED
    BY <1>8, <2>1, <2>2 DEF UtClaim
<1>9. CASE UtSeatWait(u)
  <2>1. SharedTypeOK'
    BY <1>9 DEF SharedTypeOK, UtSeatWait, sharedVars, seatVars, clockVars
  <2>2. UtTypeOK'
    BY <1>9 DEF UtTypeOK, UtSeatWait, UtGoto, UtAt, UtPcs, AtSeat, Ticketed
  <2> QED
    BY <2>1, <2>2
<1>10. CASE UtReadOp(u)
  <2>1. SharedTypeOK'
    BY <1>10 DEF SharedTypeOK, UtReadOp, sharedVars, seatVars, clockVars
  <2>2. UtTypeOK'
    BY <1>10 DEF UtTypeOK, UtReadOp, UtGoto, UtAt, UtPcs, AtSeat, Ticketed,
       SharedTypeOK, Seat
  <2> QED
    BY <2>1, <2>2
<1>11. CASE UtPresent(u)
  <2>0. /\ utOp[u] \in Nat /\ utTicket[u] \in Nat \cup {NoTicket}
        /\ u \in Processes /\ ServiceRequestType(utOp[u]) \in Nat
    BY DEF UtTypeOK, ServiceRequestType
  <2>1. ServiceRequest(u, utOp[u], utTicket[u]) \in Message
    BY <2>0 DEF ServiceRequest, Message, Kinds
  <2>2. queue' \in Seq(Message)
    BY <1>11, <2>1, SendType DEF SharedTypeOK, UtPresent
  <2>3. SharedTypeOK'
    BY <1>11, <2>2 DEF SharedTypeOK, UtPresent, seatVars, clockVars
  <2>4. UtTypeOK'
    BY <1>11 DEF UtTypeOK, UtPresent, UtGoto, UtAt, UtPcs, AtSeat, Ticketed
  <2> QED
    BY <2>3, <2>4
<1>12. CASE UtDone(u)
  <2>1. queue' \in Seq(Message)
    BY <1>12, ReceiveType DEF SharedTypeOK, UtDone
  <2>2. SharedTypeOK'
    BY <1>12, <2>1 DEF SharedTypeOK, UtDone, seatVars, clockVars
  <2>3. UtTypeOK'
    BY <1>12 DEF UtTypeOK, UtDone, UtGoto, UtAt, UtPcs, AtSeat, Ticketed
  <2> QED
    BY <2>2, <2>3
<1>13. CASE UtFree(u)
  <2>1. utSeat[u] \in Seats
    BY <1>13 DEF UtTypeOK, UtFree, UtAt, AtSeat
  <2>2. seats' \in [Seats -> Seat]
    BY <1>13, <2>1 DEF SharedTypeOK, UtFree, Seat, SeatStatus
  <2>3. SharedTypeOK'
    BY <1>13, <2>2 DEF SharedTypeOK, UtFree, clockVars
  <2>4. UtTypeOK'
    BY <1>13 DEF UtTypeOK, UtFree, UtGoto, UtAt, UtPcs, AtSeat, Ticketed, ServiceOver,
       NoTicket, NoSeat
  <2> QED
    BY <2>3, <2>4
<1>14. CASE UtDecide(u)
  <2>1. SharedTypeOK'
    BY <1>14 DEF SharedTypeOK, UtDecide, sharedVars, seatVars, clockVars
  <2>2. utBeenLate' \in [Users -> BOOLEAN]
    BY <1>14 DEF UtTypeOK, UtDecide
  <2>3. CASE PlanDay(u)
    <3>1. \A n \in 1 .. MaxRequests : WalkInTimes(n) \subseteq Nat
      BY DEF WalkInTimes
    <3> QED
      BY <1>14, <2>1, <2>2, <2>3, <3>1
         DEF UtTypeOK, UtDecide, PlanDay, UtGoto, UtAt, UtPcs, AtSeat, Ticketed
  <2>4. CASE UtGoto(u, "dayWait") /\ UNCHANGED <<utLeft, utWalk>>
    BY <1>14, <2>1, <2>2, <2>4 DEF UtTypeOK, UtDecide, UtGoto, UtAt, UtPcs, AtSeat, Ticketed
  <2> QED
    BY <1>14, <2>3, <2>4 DEF UtDecide
<1>15. CASE UtLateHome(u)
  <2>1. SharedTypeOK'
    BY <1>15 DEF SharedTypeOK, UtLateHome, handle_late_users, seatVars, clockVars
  <2>2. utBeenLate' \in [Users -> BOOLEAN]
    BY <1>15, LateType DEF UtTypeOK, UtLateHome
  <2>3. UtTypeOK'
    BY <1>15, <2>2 DEF UtTypeOK, UtLateHome, UtGoto, UtAt, UtPcs, AtSeat, Ticketed
  <2> QED
    BY <2>1, <2>3
<1>16. CASE UtServed(u)
  <2>1. SharedTypeOK'
    BY <1>16 DEF SharedTypeOK, UtServed, sharedVars, seatVars, clockVars
  <2>2. UtTypeOK'
    BY <1>16 DEF UtTypeOK, UtServed, UtGoto, UtAt, UtPcs, AtSeat, Ticketed
  <2> QED
    BY <2>1, <2>2
<1>17. CASE UtLate(u)
  <2>1. SharedTypeOK'
    BY <1>17 DEF SharedTypeOK, UtLate, handle_late_users, seatVars, clockVars
  <2>2. utLeft[u] > 0
    BY <1>17 DEF UtTypeOK, UtLate, UtAt, Ticketed
  <2>3. utBeenLate' \in [Users -> BOOLEAN]
    BY <1>17, LateType DEF UtTypeOK, UtLate
  <2>4. UtTypeOK'
    BY <1>17, <2>2, <2>3, ServiceOverType DEF UtLate
  <2> QED
    BY <2>1, <2>4
<1> QED
  BY <1>1, <1>2, <1>3, <1>4, <1>5, <1>6, <1>7, <1>8, <1>9, <1>10, <1>11, <1>12,
     <1>13, <1>14, <1>15, <1>16, <1>17
     DEF UtNext

\* The director's steps keep every variable in its type (direttore.c:391-438).
LEMMA DirTypeStep ==
    ASSUME SharedTypeOK, DirTypeOK, DirNext
    PROVE  SharedTypeOK' /\ DirTypeOK'
<1> USE PidFacts, ConfigAssumption
<1>1. CASE DirMinute
  <2>1. SharedTypeOK'
    BY <1>1 DEF SharedTypeOK, DirMinute, AtHour, seatVars, clockVars
  <2>2. DirTypeOK'
    BY <1>1 DEF DirTypeOK, DirMinute, DirGoto, DirAt, DirPcs
  <2> QED
    BY <2>1, <2>2
<1>2. CASE DirClosing
  <2>1. SharedTypeOK'
    BY <1>2 DEF SharedTypeOK, DirClosing, sem_post, seatVars, clockVars
  <2>2. DirTypeOK'
    BY <1>2 DEF DirTypeOK, DirClosing, DirGoto, DirAt, DirPcs
  <2> QED
    BY <2>1, <2>2
<1>3. CASE DirMidnight
  <2>1. SharedTypeOK'
    BY <1>3 DEF SharedTypeOK, DirMidnight, sharedVars, seatVars, clockVars
  <2>2. DirTypeOK'
    BY <1>3 DEF DirTypeOK, DirMidnight, DirGoto, DirAt, DirPcs
  <2> QED
    BY <2>1, <2>2
<1>4. CASE DirNewDay
  <2>1. SharedTypeOK'
    BY <1>4 DEF SharedTypeOK, DirNewDay, DirTypeOK, seatVars, clockVars
  <2>2. DirTypeOK'
    BY <1>4 DEF DirTypeOK, DirNewDay, DirGoto, DirAt, DirPcs
  <2> QED
    BY <2>1, <2>2
<1>5. CASE DirSeats
  <2>1. seats' \in [Seats -> Seat]
    BY <1>5 DEF DirSeats, EmptySeat, Seat, SeatStatus
  <2>2. SharedTypeOK'
    BY <1>5, <2>1 DEF SharedTypeOK, DirSeats, clockVars
  <2>3. DirTypeOK'
    BY <1>5 DEF DirTypeOK, DirSeats, DirGoto, DirAt, DirPcs
  <2> QED
    BY <2>2, <2>3
<1>6. CASE DirAnnounce
  <2>1. SharedTypeOK'
    BY <1>6 DEF SharedTypeOK, DirAnnounce, seatVars, clockVars
  <2>2. DirTypeOK'
    BY <1>6 DEF DirTypeOK, DirAnnounce, DirGoto, DirAt, DirPcs
  <2> QED
    BY <2>1, <2>2
<1>7. CASE DirAdvance
  <2>1. SharedTypeOK'
    BY <1>7 DEF SharedTypeOK, DirAdvance, DirTypeOK, seatVars, clockVars
  <2>2. DirTypeOK'
    BY <1>7 DEF DirTypeOK, DirAdvance, DirGoto, DirAt, DirPcs
  <2> QED
    BY <2>1, <2>2
<1>8. CASE DirTerminate
  <2>1. SharedTypeOK'
    BY <1>8 DEF SharedTypeOK, DirTerminate, sharedVars, seatVars, clockVars
  <2>2. DirTypeOK'
    BY <1>8 DEF DirTypeOK, DirTerminate, DirGoto, DirAt, DirPcs
  <2> QED
    BY <2>1, <2>2
<1>9. CASE DirReport
  <2>1. SharedTypeOK'
    BY <1>9 DEF SharedTypeOK, DirReport, sharedVars, seatVars, clockVars
  <2>2. DirTypeOK'
    BY <1>9 DEF DirTypeOK, DirReport, DirGoto, DirAt, DirPcs, ExitModes
  <2> QED
    BY <2>1, <2>2
<1> QED
  BY <1>1, <1>2, <1>3, <1>4, <1>5, <1>6, <1>7, <1>8, <1>9 DEF DirNext

\* So do the dispenser's (erogatore_ticket.c:34-54).
LEMMA ErTypeStep ==
    ASSUME SharedTypeOK, ErTypeOK, ErNext
    PROVE  SharedTypeOK' /\ ErTypeOK'
<1> USE PidFacts
<1>1. CASE ErReceive
  <2> PICK i \in 1 .. Len(queue) : mq_receive(TicketRequestType, i) /\ erReq' = queue[i].pid
    BY <1>1 DEF ErReceive
  <2>1. queue[i] \in Message /\ queue' \in Seq(Message)
    BY ReceiveType DEF SharedTypeOK
  <2>2. SharedTypeOK'
    BY <2>1 DEF SharedTypeOK, ErNext
  <2>3. ErTypeOK'
    BY <1>1, <2>1 DEF ErTypeOK, ErReceive, Message
  <2> QED
    BY <2>2, <2>3
<1>2. CASE ErReply
  <2>1. TicketResponse(erReq, ticket_counter) \in Message
    BY DEF TicketResponse, Message, Kinds, ErTypeOK
  <2>2. queue' \in Seq(Message)
    BY <1>2, <2>1, SendType DEF SharedTypeOK, ErReply
  <2>3. SharedTypeOK'
    BY <2>2 DEF SharedTypeOK, ErNext
  <2>4. ErTypeOK'
    BY <1>2 DEF ErTypeOK, ErReply
  <2> QED
    BY <2>3, <2>4
<1> QED
  BY <1>1, <1>2 DEF ErNext

\* A process's private variables are its own: nobody else's step changes them.
LEMMA PrivateTypes ==
    /\ ErTypeOK /\ UNCHANGED erVars => ErTypeOK'
    /\ OpTypeOK /\ UNCHANGED opVars => OpTypeOK'
    /\ UtTypeOK /\ UNCHANGED utVars => UtTypeOK'
    /\ DirTypeOK /\ UNCHANGED dirVars => DirTypeOK'
    /\ SharedTypeOK /\ UNCHANGED sharedVars => SharedTypeOK'
<1>1. ErTypeOK /\ UNCHANGED erVars => ErTypeOK'
  BY DEF ErTypeOK, erVars
<1>2. OpTypeOK /\ UNCHANGED opVars => OpTypeOK'
  BY DEF OpTypeOK, opVars
<1>3. UtTypeOK /\ UNCHANGED utVars => UtTypeOK'
  BY DEF UtTypeOK, utVars
<1>4. DirTypeOK /\ UNCHANGED dirVars => DirTypeOK'
  BY DEF DirTypeOK, dirVars
<1>5. SharedTypeOK /\ UNCHANGED sharedVars => SharedTypeOK'
  BY DEF SharedTypeOK, sharedVars
<1> QED
  BY <1>1, <1>2, <1>3, <1>4, <1>5

LEMMA TypeInit == Init => TypeOK
<1> SUFFICES ASSUME Init PROVE TypeOK
  OBVIOUS
<1> USE PidFacts, ConfigAssumption DEF Init
<1>1. SharedTypeOK
  BY DEF SharedInit, SharedTypeOK, EmptySeat, Seat, SeatStatus, Services
<1>2. ErTypeOK
  BY DEF ErInit, ErTypeOK
<1>3. OpTypeOK
  BY DEF OpInit, OpTypeOK, OpPcs, OnDuty, NoSeat, NoTicket
<1>4. UtTypeOK
  BY DEF UtInit, UtTypeOK, UtPcs, AtSeat, Ticketed, NoSeat, NoTicket
<1>5. DirTypeOK
  BY DEF DirInit, DirTypeOK, DirPcs, ExitModes
<1> QED
  BY <1>1, <1>2, <1>3, <1>4, <1>5 DEF TypeOK

LEMMA TypeStep == TypeOK /\ [Next]_vars => TypeOK'
<1> SUFFICES ASSUME TypeOK, [Next]_vars PROVE TypeOK'
  OBVIOUS
<1> USE PrivateTypes DEF TypeOK
<1>1. CASE ErStep
  BY <1>1, ErTypeStep DEF ErStep
<1>2. ASSUME NEW o \in Operators, OpStep(o) PROVE TypeOK'
  BY <1>2, OpTypeStep DEF OpStep
<1>3. ASSUME NEW u \in Users, UtStep(u) PROVE TypeOK'
  BY <1>3, UtTypeStep DEF UtStep
<1>4. CASE DirStep
  BY <1>4, DirTypeStep DEF DirStep
<1>5. CASE UNCHANGED vars
  BY <1>5 DEF vars
<1> QED
  BY <1>1, <1>2, <1>3, <1>4, <1>5 DEF Next

\* Every variable keeps its type in every reachable state: in particular no index
\* outside the table of counters is ever used, and no user's count of services
\* left runs below zero (operatore.c:174-181, utente.c:326-338).
THEOREM TypeCorrect == Spec => []TypeOK
  BY TypeInit, TypeStep, PTL DEF Spec
-----------------------------------------------------------------------------
(* Who the table of counters says is at work, and who is.  The invariant   *)
(* is inductive with the types alone: an operator's entry is written when  *)
(* it takes the counter and wiped when it leaves, when another operator    *)
(* leaves or takes the same counter, and at midnight; wiping is harmless.  *)
CounterInv == RegisteredIsPresent /\ StaffedHasPid

LEMMA CounterInit == Init => CounterInv
BY DEF Init, SharedInit, EmptySeat, CounterInv, RegisteredIsPresent, StaffedHasPid

\* Steps that do not touch the table: whoever is on duty stays on duty at the
\* same counter.
QuietFor(o) ==
    /\ opPc' \in [Operators -> OpPcs]
    /\ UNCHANGED seats
    /\ \A p \in Operators \ {o} : opPc'[p] = opPc[p] /\ opSeat'[p] = opSeat[p]
    /\ opPc[o] \in OnDuty => opPc'[o] \in OnDuty /\ opSeat'[o] = opSeat[o]

LEMMA QuietStep ==
    ASSUME TypeOK, CounterInv, NEW o \in Operators, QuietFor(o)
    PROVE  CounterInv'
<1>1. StaffedHasPid'
  BY DEF CounterInv, StaffedHasPid, QuietFor
<1>2. ASSUME NEW i \in Seats, seats'[i].operator_process # 0
      PROVE  /\ opPc'[seats'[i].operator_process] \in OnDuty
             /\ opSeat'[seats'[i].operator_process] = i
  <2> DEFINE p == seats[i].operator_process
  <2>1. p \in Operators
    BY <1>2 DEF TypeOK, SharedTypeOK, Seat, QuietFor
  <2>2. opPc[p] \in OnDuty /\ opSeat[p] = i
    BY <1>2 DEF CounterInv, RegisteredIsPresent, QuietFor
  <2>3. seats'[i].operator_process = p
    BY DEF QuietFor
  <2> HIDE DEF p
  <2> QED
    BY <2>1, <2>2, <2>3 DEF QuietFor
<1> QED
  BY <1>1, <1>2 DEF CounterInv, RegisteredIsPresent

\* An operator that was not on duty takes a counter, whoever is registered there.
LEMMA TakeStep ==
    ASSUME TypeOK, CounterInv, NEW o \in Operators, NEW i \in Seats,
           opPc[o] \notin OnDuty, take_seat(o, i), OpGoto(o, "closed?"),
           opSeat' = [opSeat EXCEPT ![o] = i]
    PROVE  CounterInv'
<1> USE PidFacts
<1>1. StaffedHasPid'
  BY DEF CounterInv, StaffedHasPid, take_seat, TypeOK, SharedTypeOK, Seat
<1>2. ASSUME NEW j \in Seats, seats'[j].operator_process # 0
      PROVE  /\ opPc'[seats'[j].operator_process] \in OnDuty
             /\ opSeat'[seats'[j].operator_process] = j
  <2>1. CASE j = i
    <3>1. seats'[j].operator_process = o
      BY <2>1 DEF take_seat, TypeOK, SharedTypeOK, Seat
    <3> QED
      BY <3>1, <2>1 DEF OpGoto, OnDuty, TypeOK, OpTypeOK
  <2>2. CASE j # i
    <3> DEFINE p == seats[j].operator_process
    <3>1. seats'[j].operator_process = p
      BY <2>2 DEF take_seat, TypeOK, SharedTypeOK, Seat
    <3>2. p \in Operators /\ opPc[p] \in OnDuty /\ opSeat[p] = j
      BY <1>2, <3>1 DEF CounterInv, RegisteredIsPresent, TypeOK, SharedTypeOK, Seat
    <3> HIDE DEF p
    <3>3. p # o
      BY <3>2
    <3> QED
      BY <3>1, <3>2, <3>3 DEF OpGoto, TypeOK, OpTypeOK
  <2> QED
    BY <2>1, <2>2
<1> QED
  BY <1>1, <1>2 DEF CounterInv, RegisteredIsPresent

\* An operator leaves: its own entry goes with it, and possibly another's.
LEMMA LeaveStep ==
    ASSUME TypeOK, CounterInv, NEW o \in Operators, OpLeave(o)
    PROVE  CounterInv'
<1> USE PidFacts
<1> DEFINE i == opSeat[o]
<1>0. i \in Seats
  BY DEF OpLeave, OpAt, OnDuty, TypeOK, OpTypeOK
<1>1. StaffedHasPid'
  BY <1>0 DEF CounterInv, StaffedHasPid, OpLeave, release_seat, TypeOK, SharedTypeOK, Seat
<1>2. ASSUME NEW j \in Seats, seats'[j].operator_process # 0
      PROVE  /\ opPc'[seats'[j].operator_process] \in OnDuty
             /\ opSeat'[seats'[j].operator_process] = j
  <2> DEFINE p == seats[j].operator_process
  <2>1. j # i /\ seats'[j].operator_process = p
    BY <1>0, <1>2 DEF OpLeave, release_seat, TypeOK, SharedTypeOK, Seat
  <2>2. p \in Operators /\ opPc[p] \in OnDuty /\ opSeat[p] = j
    BY <1>2, <2>1 DEF CounterInv, RegisteredIsPresent, TypeOK, SharedTypeOK, Seat
  <2> HIDE DEF p
  <2>3. p # o
    BY <2>1, <2>2
  <2> QED
    BY <2>1, <2>2, <2>3 DEF OpLeave, OpGoto, TypeOK, OpTypeOK
<1> QED
  BY <1>1, <1>2 DEF CounterInv, RegisteredIsPresent

\* A user that sits down or gets up changes only user_status.
LEMMA UserStep ==
    ASSUME TypeOK, CounterInv, UNCHANGED opVars, NEW i \in Seats, NEW s \in SeatStatus,
           seats' = [seats EXCEPT ![i].user_status = s]
    PROVE  CounterInv'
BY DEF CounterInv, RegisteredIsPresent, StaffedHasPid, TypeOK, SharedTypeOK, Seat, opVars

LEMMA TableUnchanged ==
    ASSUME CounterInv, UNCHANGED <<seats, opVars>>
    PROVE  CounterInv'
BY DEF CounterInv, RegisteredIsPresent, StaffedHasPid, opVars

LEMMA OpCounterStep ==
    ASSUME TypeOK, CounterInv, NEW o \in Operators, OpNext(o)
    PROVE  CounterInv'
<1> USE DEF OpAt, OnDuty
<1>1. CASE OpSeek(o)
  <2>1. CASE UNCHANGED <<seats, opSeat>> /\ OpGoto(o, "waitSeat")
    <3>1. QuietFor(o)
      BY <1>1, <2>1 DEF OpSeek, QuietFor, OpGoto, OpPcs, TypeOK, OpTypeOK
    <3> QED
      BY <3>1, QuietStep
  <2>2. CASE \E i \in Seats : /\ take_seat(o, i)
                             /\ opSeat' = [opSeat EXCEPT ![o] = i]
                             /\ OpGoto(o, "closed?")
    BY <1>1, <2>2, TakeStep DEF OpSeek
  <2> QED
    BY <1>1, <2>1, <2>2 DEF OpSeek
<1>2. CASE OpTake(o)
  <2>1. opSeat[o] \in Seats /\ opSeat' = [opSeat EXCEPT ![o] = opSeat[o]]
    BY <1>2 DEF OpTake, TypeOK, OpTypeOK
  <2> QED
    BY <1>2, <2>1, TakeStep DEF OpTake
<1>3. CASE OpLeave(o)
  BY <1>3, LeaveStep
<1>4. CASE \/ OpDayStart(o) \/ OpEnter(o) \/ OpCanWorkToday(o)
           \/ OpStationEvent(o) \/ OpStationTimeout(o) \/ OpTimedOut(o) \/ OpScan(o)
           \/ did_poste_close(o) \/ OpPoll(o) \/ OpServe(o) \/ OpSignal(o)
  <2>1. opPc' \in [Operators -> OpPcs]
    BY OpTypeStep DEF TypeOK, OpTypeOK
  <2>2. UNCHANGED seats
    BY <1>4 DEF OpDayStart, OpEnter, OpCanWorkToday, OpStationEvent, OpStationTimeout,
       OpTimedOut, OpScan, did_poste_close, OpPoll, OpServe, OpSignal, seatVars, sharedVars
  <2>3. \A p \in Operators \ {o} : opPc'[p] = opPc[p] /\ opSeat'[p] = opSeat[p]
    BY <1>4 DEF OpDayStart, OpEnter, OpCanWorkToday, OpStationEvent, OpStationTimeout,
       OpTimedOut, OpScan, did_poste_close, OpPoll, OpServe, OpSignal, OpGoto, TypeOK, OpTypeOK
  <2>4. opPc[o] \in OnDuty => opPc'[o] \in OnDuty /\ opSeat'[o] = opSeat[o]
    BY <1>4 DEF OpDayStart, OpEnter, OpCanWorkToday, OpStationEvent, OpStationTimeout,
       OpTimedOut, OpScan, did_poste_close, OpPoll, OpServe, OpSignal, OpGoto, TypeOK, OpTypeOK
  <2>5. QuietFor(o)
    BY <2>1, <2>2, <2>3, <2>4 DEF QuietFor
  <2> QED
    BY <2>5, QuietStep
<1> QED
  BY <1>1, <1>2, <1>3, <1>4 DEF OpNext

LEMMA CounterStep == TypeOK /\ CounterInv /\ [Next]_vars => CounterInv'
<1> SUFFICES ASSUME TypeOK, CounterInv, [Next]_vars PROVE CounterInv'
  OBVIOUS
<1>1. CASE ErStep
  BY <1>1, TableUnchanged DEF ErStep, ErNext
<1>2. ASSUME NEW o \in Operators, OpStep(o) PROVE CounterInv'
  BY <1>2, OpCounterStep DEF OpStep
<1>3. ASSUME NEW u \in Users, UtStep(u) PROVE CounterInv'
  <2>1. UNCHANGED opVars /\ UtNext(u)
    BY <1>3 DEF UtStep
  <2>2. CASE UtClaim(u)
    <3>1. CASE UNCHANGED seats
      BY <2>1, <3>1, TableUnchanged
    <3>2. CASE \E i \in utValid[u] : seats' = [seats EXCEPT ![i].user_status = "OCCUPIED"]
      BY <2>1, <3>2, UserStep DEF TypeOK, UtTypeOK, SeatStatus
    <3> QED
      BY <2>2, <3>1, <3>2 DEF UtClaim
  <2>3. CASE UtFree(u)
    BY <2>1, <2>3, UserStep DEF UtFree, UtAt, AtSeat, TypeOK, UtTypeOK, SeatStatus
  <2>4. CASE UNCHANGED seats
    BY <2>1, <2>4, TableUnchanged
  <2> QED
    BY <2>1, <2>2, <2>3, <2>4 DEF UtNext, UtDayStart, UtDecide, UtEnter, UtWalkIn,
       UtNextService, UtLateHome, UtRequest, UtTicket, UtLook, UtSeatWait, UtReadOp,
       UtPresent, UtDone, UtServed, UtLate, seatVars, sharedVars
<1>4. CASE DirStep
  <2>1. UNCHANGED opVars /\ DirNext
    BY <1>4 DEF DirStep
  <2>2. CASE DirSeats
    BY <2>2 DEF DirSeats, EmptySeat, CounterInv, RegisteredIsPresent, StaffedHasPid
  <2>3. CASE UNCHANGED seats
    BY <2>1, <2>3, TableUnchanged
  <2> QED
    BY <2>1, <2>2, <2>3 DEF DirNext, DirMinute, DirClosing, DirMidnight, DirNewDay,
       DirAnnounce, DirAdvance, DirTerminate, DirReport, seatVars, sharedVars
<1>5. CASE UNCHANGED vars
  BY <1>5, TableUnchanged DEF vars, sharedVars
<1> QED
  BY <1>1, <1>2, <1>3, <1>4, <1>5 DEF Next

\* The pid found in a counter is that of an operator at work at that counter, at
\* every moment of every run, although two operators may share a counter
\* (operatore.c:31-50, 253-258, direttore.c:167-176).
THEOREM RegisteredCorrect == Spec => []RegisteredIsPresent
<1>1. CounterInv => RegisteredIsPresent
  BY DEF CounterInv
<1> QED
  BY <1>1, TypeInit, TypeStep, CounterInit, CounterStep, PTL DEF Spec

\* A counter shown as staffed has the pid of its operator, and one that is not has
\* none (operatore.c:31-50, direttore.c:167-176, utente.c:199-203).
THEOREM StaffedCorrect == Spec => []StaffedHasPid
<1>1. CounterInv => StaffedHasPid
  BY DEF CounterInv
<1> QED
  BY <1>1, TypeInit, TypeStep, CounterInit, CounterStep, PTL DEF Spec
=============================================================================
