----------------------------- MODULE TicketProofs -----------------------------
(***************************************************************************)
(* Tickets, and the promise of Servizio.  Tickets held by users and those  *)
(* under way in the queue are all different and below the dispenser's      *)
(* counter.  A user gets its ticket from a message that is one, which is   *)
(* where the theorems about messages come in: types alone do not tell a    *)
(* ticket from the end of a service.  They also say which answer is whose, *)
(* and so that each step of the simulation is at most one the users were   *)
(* promised.                                                               *)
(***************************************************************************)
EXTENDS MessageProofs, PosteServizio

HasTicket(u) == utPc[u] \in Ticketed
Response(i) == i \in Positions /\ queue[i].kind = "ticket_response"

ResponsesDiffer == \A i, j \in Positions :
    Response(i) /\ Response(j) /\ queue[i].ticket = queue[j].ticket => i = j

TicketInv ==
    /\ \A u \in Users : HasTicket(u) => utTicket[u] \in 0 .. (ticket_counter - 1)
    /\ \A u, v \in Users : HasTicket(u) /\ HasTicket(v) /\ utTicket[u] = utTicket[v] => u = v
    /\ \A i \in Positions : Response(i) => queue[i].ticket \in 0 .. (ticket_counter - 1)
    /\ \A i \in Positions, u \in Users : Response(i) /\ HasTicket(u) => queue[i].ticket # utTicket[u]
    /\ ResponsesDiffer
-----------------------------------------------------------------------------
LEMMA TicketInit == Init => TicketInv
BY DEF Init, SharedInit, UtInit, TicketInv, ResponsesDiffer, HasTicket, Response, Ticketed, AtSeat,
   Positions

\* Nobody gets a ticket.
NoNewHolders == \A u \in Users : HasTicket(u)' => HasTicket(u) /\ utTicket'[u] = utTicket[u]
OldResponses == \A j \in Positions' : queue'[j].kind = "ticket_response" =>
                    \E k \in Positions : queue'[j] = queue[k]

LEMMA KeptTickets ==
    ASSUME TicketInv, UNCHANGED ticket_counter, NoNewHolders, OldResponses, ResponsesDiffer'
    PROVE  TicketInv'
BY DEF TicketInv, NoNewHolders, OldResponses, HasTicket, Response

LEMMA QueueKept ==
    ASSUME TicketInv, UNCHANGED queue
    PROVE  OldResponses /\ ResponsesDiffer'
BY DEF TicketInv, OldResponses, ResponsesDiffer, Response, Positions

LEMMA QueueReceived ==
    ASSUME TypeOK, TicketInv, NEW t, NEW i, mq_receive(t, i)
    PROVE  OldResponses /\ ResponsesDiffer'
<1>1. /\ \A j \in Positions' : /\ Before(i, j) \in Positions \ {i}
                               /\ queue'[j] = queue[Before(i, j)]
      /\ \A j, k \in Positions' : Before(i, j) = Before(i, k) => j = k
  BY ReceivePositions
<1>2. OldResponses
  BY <1>1 DEF OldResponses
<1>3. ResponsesDiffer'
  BY <1>1 DEF TicketInv, ResponsesDiffer, Response
<1> QED
  BY <1>2, <1>3

LEMMA QueueSent ==
    ASSUME TypeOK, TicketInv, NEW m, mq_send(m), m.kind # "ticket_response"
    PROVE  OldResponses /\ ResponsesDiffer'
<1>1. /\ Len(queue) \in Nat /\ Len(queue') = Len(queue) + 1
      /\ queue'[Len(queue) + 1] = m
      /\ \A j \in 1 .. Len(queue) : queue'[j] = queue[j]
  BY SendPositions
<1>2. \A j \in Positions' : queue'[j].kind = "ticket_response" =>
         j \in Positions /\ queue'[j] = queue[j]
  BY <1>1 DEF Positions
<1> QED
  BY <1>2 DEF TicketInv, OldResponses, ResponsesDiffer, Response
-----------------------------------------------------------------------------
LEMMA ErTickets ==
    ASSUME TypeOK, TicketInv, ErNext, UNCHANGED utVars
    PROVE  TicketInv'
<1>0. NoNewHolders
  BY DEF NoNewHolders, HasTicket, utVars
<1>1. CASE ErReceive
  BY <1>0, <1>1, QueueReceived, KeptTickets DEF ErReceive
<1>2. CASE ErReply
  <2>1. /\ Len(queue) \in Nat /\ Len(queue') = Len(queue) + 1
        /\ queue'[Len(queue) + 1] = TicketResponse(erReq, ticket_counter)
        /\ \A j \in 1 .. Len(queue) : queue'[j] = queue[j]
    BY <1>2, SendPositions DEF ErReply
  <2>2. ticket_counter' = ticket_counter + 1 /\ ticket_counter \in Nat
    BY <1>2 DEF ErReply, TypeOK, ErTypeOK
  <2>3. \A j \in Positions' : \/ j \in Positions /\ queue'[j] = queue[j]
                              \/ j = Len(queue) + 1 /\ queue'[j].ticket = ticket_counter
    BY <2>1 DEF Positions, TicketResponse
  <2>4. \A u \in Users : HasTicket(u)' <=> HasTicket(u)
    BY DEF HasTicket, utVars
  <2>5. \A i \in Positions : Response(i) => queue[i].ticket \in 0 .. (ticket_counter - 1)
    BY DEF TicketInv
  <2>6. ASSUME NEW j \in Positions', Response(j)'
        PROVE  /\ queue'[j].ticket \in 0 .. (ticket_counter' - 1)
               /\ \A u \in Users : HasTicket(u)' => queue'[j].ticket # utTicket'[u]
    BY <2>2, <2>3, <2>4, <2>5, <2>6 DEF TicketInv, Response, utVars
  <2>7. ResponsesDiffer'
    BY <2>2, <2>3, <2>5 DEF TicketInv, ResponsesDiffer, Response
  <2>8. \A u \in Users : HasTicket(u)' => utTicket'[u] \in 0 .. (ticket_counter' - 1)
    BY <2>2, <2>4 DEF TicketInv, utVars
  <2>9. \A u, v \in Users : HasTicket(u)' /\ HasTicket(v)' /\ utTicket'[u] = utTicket'[v] => u = v
    BY <2>4 DEF TicketInv, utVars
  <2> QED
    BY <2>6, <2>7, <2>8, <2>9 DEF TicketInv
<1> QED
  BY <1>1, <1>2 DEF ErNext

LEMMA OpTickets ==
    ASSUME TypeOK, TicketInv, NEW o \in Operators, OpNext(o), UNCHANGED <<erVars, utVars>>
    PROVE  TicketInv'
<1>0. NoNewHolders /\ UNCHANGED ticket_counter
  BY DEF NoNewHolders, HasTicket, utVars, erVars
<1>1. CASE OpPoll(o)
  <2>1. OldResponses /\ ResponsesDiffer'
    BY <1>1, QueueReceived, QueueKept DEF OpPoll
  <2> QED
    BY <1>0, <2>1, KeptTickets
<1>2. CASE OpServe(o)
  <2>1. OldResponses /\ ResponsesDiffer'
    BY <1>2, QueueSent DEF OpServe, ServiceDone
  <2> QED
    BY <1>0, <2>1, KeptTickets
<1>3. CASE UNCHANGED queue
  BY <1>0, <1>3, QueueKept, KeptTickets
<1> QED
  BY <1>1, <1>2, <1>3 DEF OpNext, OpDayStart, OpEnter, OpCanWorkToday, OpSeek, OpStationEvent,
     OpStationTimeout, OpTimedOut, OpScan, OpTake, did_poste_close, OpLeave, OpSignal, sharedVars

\* The only way to a ticket is to receive one.
LEMMA UtTickets ==
    ASSUME DistinctTypes, TypeOK, MsgInv, TicketInv, NEW u \in Users, UtNext(u),
           UNCHANGED erVars
    PROVE  TicketInv'
<1>0. UNCHANGED ticket_counter
  BY DEF erVars
<1>1. CASE UtTicket(u)
  <2>1. PICK i : mq_receive(u, i) /\ utTicket' = [utTicket EXCEPT ![u] = queue[i].ticket]
    BY <1>1 DEF UtTicket
  <2>2. utPc[u] = "awaitTicket" /\ utPc' = [utPc EXCEPT ![u] = "look"]
    BY <1>1 DEF UtTicket, UtAt, UtGoto
  <2>3. /\ i \in Positions /\ queue[i].mtype = u
        /\ \A j \in Positions' : /\ Before(i, j) \in Positions \ {i}
                                 /\ queue'[j] = queue[Before(i, j)]
    BY <2>1, ReceivePositions
  <2>4. Response(i)
    <3>1. queue[i].kind \in {"ticket_response", "service_done"} /\ Subject(queue[i]) = u
      BY <2>3, KindOfType DEF MsgInv
    <3>2. Belongs(queue[i])
      BY <2>3 DEF MsgInv, RepliesMatch
    <3> QED
      BY <2>2, <2>3, <3>1, <3>2 DEF Belongs, Response
  <2>5. ~HasTicket(u) /\ HasTicket(u)' /\ utTicket'[u] = queue[i].ticket
    BY <2>1, <2>2 DEF HasTicket, Ticketed, AtSeat, TypeOK, UtTypeOK
  <2>6. \A v \in Users \ {u} : (HasTicket(v)' <=> HasTicket(v)) /\ utTicket'[v] = utTicket[v]
    BY <2>1, <2>2 DEF HasTicket, TypeOK, UtTypeOK
  <2>7. OldResponses /\ ResponsesDiffer'
    BY <2>1, QueueReceived
  <2>8. ASSUME NEW j \in Positions', Response(j)'
        PROVE  /\ queue'[j].ticket \in 0 .. (ticket_counter - 1)
               /\ \A v \in Users : HasTicket(v)' => queue'[j].ticket # utTicket'[v]
    <3> DEFINE k == Before(i, j)
    <3>1. k \in Positions /\ k # i /\ Response(k) /\ queue'[j] = queue[k]
      BY <2>3, <2>8 DEF Response
    <3> HIDE DEF k
    <3>2. queue[k].ticket # queue[i].ticket
      BY <2>3, <2>4, <3>1 DEF TicketInv, ResponsesDiffer
    <3> QED
      BY <3>1, <3>2, <2>5, <2>6 DEF TicketInv
  <2>9. \A v \in Users : HasTicket(v)' => utTicket'[v] \in 0 .. (ticket_counter - 1)
    BY <2>3, <2>4, <2>5, <2>6 DEF TicketInv
  <2>10. \A v, w \in Users : HasTicket(v)' /\ HasTicket(w)' /\ utTicket'[v] = utTicket'[w] => v = w
    BY <2>3, <2>4, <2>5, <2>6 DEF TicketInv
  <2> QED
    BY <1>0, <2>7, <2>8, <2>9, <2>10 DEF TicketInv
<1>2. CASE ~UtTicket(u)
  <2>1. NoNewHolders
    BY <1>2 DEF UtNext, UtDayStart, UtDecide, PlanDay, UtEnter, UtWalkIn, UtNextService,
       UtLateHome, UtRequest, UtLook, UtClaim, UtSeatWait, UtReadOp, UtPresent, UtDone,
       UtServed, UtLate, UtFree, ServiceOver, UtGoto, UtAt, NoNewHolders, HasTicket, Ticketed,
       AtSeat, TypeOK, UtTypeOK
  <2>2. CASE UtRequest(u)
    BY <2>2, QueueSent, <1>0, <2>1, KeptTickets DEF UtRequest, TicketRequest
  <2>3. CASE UtPresent(u)
    BY <2>3, QueueSent, <1>0, <2>1, KeptTickets DEF UtPresent, ServiceRequest
  <2>4. CASE UtDone(u)
    BY <2>4, QueueReceived, <1>0, <2>1, KeptTickets DEF UtDone
  <2>5. CASE UNCHANGED queue
    BY <2>5, QueueKept, <1>0, <2>1, KeptTickets
  <2> QED
    BY <1>2, <2>2, <2>3, <2>4, <2>5 DEF UtNext, UtDayStart, UtDecide, UtEnter, UtWalkIn,
       UtNextService, UtLateHome, UtLook, UtClaim, UtSeatWait, UtReadOp, UtServed, UtLate,
       UtFree, sharedVars
<1> QED
  BY <1>1, <1>2

LEMMA TicketStep ==
    DistinctTypes /\ TypeOK /\ MsgInv /\ TicketInv /\ [Next]_vars => TicketInv'
<1> SUFFICES ASSUME DistinctTypes, TypeOK, MsgInv, TicketInv, [Next]_vars PROVE TicketInv'
  OBVIOUS
<1>1. CASE UNCHANGED <<queue, utVars, erVars>>
  BY <1>1, QueueKept, KeptTickets DEF NoNewHolders, HasTicket, utVars, erVars
<1>2. CASE ErStep
  BY <1>2, ErTickets DEF ErStep
<1>3. ASSUME NEW o \in Operators, OpStep(o) PROVE TicketInv'
  BY <1>3, OpTickets DEF OpStep
<1>4. ASSUME NEW u \in Users, UtStep(u) PROVE TicketInv'
  BY <1>4, UtTickets DEF UtStep
<1>5. CASE DirStep
  <2>1. UNCHANGED queue
    BY <1>5 DEF DirStep, DirNext, DirMinute, DirClosing, DirMidnight, DirNewDay, DirSeats,
       DirAnnounce, DirAdvance, DirTerminate, DirReport, sharedVars
  <2> QED
    BY <1>1, <1>5, <2>1 DEF DirStep
<1>6. CASE UNCHANGED vars
  BY <1>1, <1>6 DEF vars, sharedVars
<1> QED
  BY <1>2, <1>3, <1>4, <1>5, <1>6 DEF Next

\* No two users ever hold the same ticket, however many there are and however often
\* they ask (erogatore_ticket.c:45-53).
THEOREM TicketsCorrect ==
    ASSUME DistinctTypes
    PROVE  Spec => []TicketsUnique
<1>1. TicketInv => TicketsUnique
  BY DEF TicketInv, TicketsUnique, HasTicket, Response
<1>2. TypeOK /\ MsgInv /\ [Next]_vars => MsgInv'
  BY MsgStep
<1>3. TypeOK /\ MsgInv /\ TicketInv /\ [Next]_vars => TicketInv'
  BY TicketStep
<1> QED
  BY <1>1, <1>2, <1>3, MsgInit, TicketInit, TypeCorrect, PTL DEF Spec
-----------------------------------------------------------------------------
(* The promise.  What a user sees of its request is its own program counter *)
(* and the answer in the queue.                                             *)

\* A counter is held only from the claim to the end of the service.
Unseated == \A u \in Users : utPc[u] \notin AtSeat \cup {"late"} => utSeat[u] = NoSeat

Tells(m, u, kind) == m.kind = kind /\ Subject(m) = u
Answers == {"ticket_response", "service_done"}

\* An answer is for one who waits for it, and gives it its number.
View(u) ==
    /\ \A i \in Positions : Tells(queue[i], u, "ticket_response") =>
          utPc[u] = "awaitTicket" /\ TicketOf(u) = queue[i].ticket
    /\ \A i \in Positions : Tells(queue[i], u, "service_done") => utPc[u] = "awaitDone"
    /\ (\A i \in Positions : ~Tells(queue[i], u, "ticket_response")) => TicketOf(u) = utTicket[u]
Views == \A u \in Users : View(u)

LEMMA UnseatedInit == Init => Unseated
BY DEF Init, UtInit, Unseated

LEMMA UnseatedStep == TypeOK /\ Unseated /\ [Next]_vars => Unseated'
<1> SUFFICES ASSUME TypeOK, Unseated, [Next]_vars PROVE Unseated'
  OBVIOUS
<1>1. CASE UNCHANGED utVars
  BY <1>1 DEF Unseated, utVars
<1>2. ASSUME NEW u \in Users, UtNext(u) PROVE Unseated'
  <2>1. /\ utPc \in [Users -> UtPcs] /\ utSeat \in [Users -> Seats \cup {NoSeat}]
        /\ Unseated
    BY DEF TypeOK, UtTypeOK
  <2>2. \A v \in Users \ {u} : utPc'[v] = utPc[v] /\ utSeat'[v] = utSeat[v]
    BY <1>2, <2>1 DEF UtNext, UtDayStart, UtDecide, PlanDay, UtEnter, UtWalkIn, UtNextService,
       UtLateHome, UtRequest, UtTicket, UtLook, UtClaim, UtSeatWait, UtReadOp, UtPresent,
       UtDone, UtServed, UtLate, UtFree, ServiceOver, UtGoto
  <2>3. utPc'[u] \notin AtSeat \cup {"late"} => utSeat'[u] = NoSeat
    BY <1>2, <2>1 DEF UtNext, UtDayStart, UtDecide, PlanDay, UtEnter, UtWalkIn, UtNextService,
       UtLateHome, UtRequest, UtTicket, UtLook, UtClaim, UtSeatWait, UtReadOp, UtPresent,
       UtDone, UtServed, UtLate, UtFree, ServiceOver, UtGoto, UtAt, Unseated, AtSeat
  <2> QED
    BY <2>1, <2>2, <2>3 DEF Unseated
<1> QED
  BY <1>1, <1>2 DEF Next, ErStep, OpStep, UtStep, DirStep, vars

LEMMA ViewsHold == TypeOK /\ MsgInv => Views
<1> SUFFICES ASSUME TypeOK, MsgInv, NEW u \in Users PROVE View(u)
  BY DEF Views
<1>1. /\ \A i \in Positions : Belongs(queue[i])
      /\ \A i, j \in Positions : Subject(queue[i]) = Subject(queue[j]) => i = j
      /\ \A i \in Positions, o \in Operators : Serving(o) => Subject(queue[i]) # opCust[o]
      /\ \A o \in Operators : Serving(o) =>
            utPc[opCust[o]] = "awaitDone" /\ opTicket[o] = utTicket[opCust[o]]
  BY DEF MsgInv, RepliesMatch, OneMessagePerUser
<1>2. \A n \in Copies(u) :
         \/ \E i \in Positions : /\ Subject(queue[i]) = u /\ queue[i].kind # "ticket_request"
                                 /\ n = queue[i].ticket
         \/ \E o \in Operators : Serving(o) /\ opCust[o] = u /\ n = opTicket[o]
  BY DEF Copies
<1>3. \A i \in Positions : queue[i].kind \in Kinds
  <2>1. \A i \in Positions : queue[i] \in Message
    BY ElementOfSeq DEF Positions, TypeOK, SharedTypeOK
  <2> QED
    BY <2>1 DEF Message
<1>4. ASSUME NEW i \in Positions, Tells(queue[i], u, "ticket_response")
      PROVE  utPc[u] = "awaitTicket" /\ TicketOf(u) = queue[i].ticket
  <2>1. utPc[u] = "awaitTicket" /\ Subject(queue[i]) = u
    BY <1>1, <1>4 DEF Belongs, Tells
  <2>2. queue[i].ticket \in Copies(u)
    BY <1>4 DEF Copies, Tells
  <2>3. \A n \in Copies(u) : n = queue[i].ticket
    BY <1>1, <1>2, <2>1
  <2> QED
    BY <2>1, <2>2, <2>3 DEF TicketOf
<1>5. ASSUME NEW i \in Positions, Tells(queue[i], u, "service_done")
      PROVE  utPc[u] = "awaitDone"
  BY <1>1, <1>5 DEF Belongs, Tells
<1>6. ASSUME \A i \in Positions : ~Tells(queue[i], u, "ticket_response")
      PROVE  TicketOf(u) = utTicket[u]
  <2>1. ASSUME NEW i \in Positions, Subject(queue[i]) = u, queue[i].kind # "ticket_request"
        PROVE  queue[i].ticket = utTicket[u]
    BY <1>1, <1>3, <1>6, <2>1 DEF Belongs, Tells, Kinds
  <2>2. \A n \in Copies(u) : n = utTicket[u]
    BY <1>1, <1>2, <2>1
  <2>3. CASE Copies(u) = {}
    BY <2>3 DEF TicketOf
  <2>4. CASE Copies(u) # {}
    BY <2>2, <2>4 DEF TicketOf
  <2> QED
    BY <2>3, <2>4
<1> QED
  BY <1>4, <1>5, <1>6 DEF View

\* The answers about v in the queue stay.
AnswersKept(v) ==
    \A kind \in Answers :
       /\ \A i \in Positions : Tells(queue[i], v, kind) => \E j \in Positions' : queue'[j] = queue[i]
       /\ \A j \in Positions' : Tells(queue'[j], v, kind) => \E i \in Positions : queue'[j] = queue[i]

LEMMA AnswersStay ==
    ASSUME TypeOK, NEW v,
           \/ UNCHANGED queue
           \/ \E m : mq_send(m) /\ (Subject(m) # v \/ m.kind \notin Answers)
           \/ \E t, i : mq_receive(t, i) /\ (Subject(queue[i]) # v \/ queue[i].kind \notin Answers)
    PROVE  AnswersKept(v)
<1>1. CASE UNCHANGED queue
  BY <1>1 DEF AnswersKept, Positions
<1>2. ASSUME NEW m, mq_send(m), Subject(m) # v \/ m.kind \notin Answers
      PROVE  AnswersKept(v)
  <2>1. /\ Positions' = Positions \cup {Len(queue) + 1} /\ queue'[Len(queue) + 1] = m
        /\ \A j \in Positions : queue'[j] = queue[j]
    BY <1>2, SendPositions DEF Positions
  <2> QED
    BY <1>2, <2>1 DEF AnswersKept, Tells
<1>3. ASSUME NEW t, NEW i, mq_receive(t, i),
             Subject(queue[i]) # v \/ queue[i].kind \notin Answers
      PROVE  AnswersKept(v)
  <2>1. /\ \A j \in Positions' : Before(i, j) \in Positions \ {i} /\ queue'[j] = queue[Before(i, j)]
        /\ \A k \in Positions \ {i} : \E j \in Positions' : Before(i, j) = k
    BY <1>3, ReceivePositions
  <2>2. \A k \in Positions \ {i} : \E j \in Positions' : queue'[j] = queue[k]
    BY <2>1
  <2>3. \A j \in Positions' : \E k \in Positions : queue'[j] = queue[k]
    BY <2>1
  <2> QED
    BY <1>3, <2>2, <2>3 DEF AnswersKept, Tells
<1> QED
  BY <1>1, <1>2, <1>3

LEMMA SameView ==
    ASSUME Views, Views', NEW v \in Users, AnswersKept(v)
    PROVE  /\ \A kind \in Answers : Holds(v, kind)' <=> Holds(v, kind)
           /\ utTicket'[v] = utTicket[v] => TicketOf(v)' = TicketOf(v)
           /\ utPc'[v] = utPc[v] /\ utSeat'[v] = utSeat[v] => PhaseOf(v)' = PhaseOf(v)
<1>1. \A kind \in Answers : Holds(v, kind)' <=> Holds(v, kind)
  BY DEF AnswersKept, Holds, Tells, Subject
<1>2. ASSUME utTicket'[v] = utTicket[v] PROVE TicketOf(v)' = TicketOf(v)
  <2>1. /\ View(v)
        /\ \A j \in Positions' : Tells(queue'[j], v, "ticket_response") =>
              TicketOf(v)' = queue'[j].ticket
        /\ (\A j \in Positions' : ~Tells(queue'[j], v, "ticket_response"))
              => TicketOf(v)' = utTicket'[v]
    BY DEF Views, View, Tells, Subject
  <2>2. CASE \E i \in Positions : Tells(queue[i], v, "ticket_response")
    BY <2>1, <2>2 DEF View, AnswersKept, Answers
  <2>3. CASE \A i \in Positions : ~Tells(queue[i], v, "ticket_response")
    BY <1>2, <2>1, <2>3 DEF View, AnswersKept, Answers
  <2> QED
    BY <2>2, <2>3
<1>3. utPc'[v] = utPc[v] /\ utSeat'[v] = utSeat[v] => PhaseOf(v)' = PhaseOf(v)
  BY <1>1 DEF PhaseOf, Answers
<1> QED
  BY <1>1, <1>2, <1>3

Phase == [u \in Users |-> PhaseOf(u)]
Ticket == [u \in Users |-> TicketOf(u)]

LEMMA PromiseVars ==
    UNCHANGED <<Phase, Ticket, ticket_counter, Running>> => UNCHANGED Promise!vars
BY DEF Phase, Ticket, Promise!vars

\* A step after which the others are where they were.
OthersStay(u) == \A v \in Users \ {u} : PhaseOf(v)' = PhaseOf(v) /\ TicketOf(v)' = TicketOf(v)

LEMMA Changed ==
    ASSUME NEW u \in Users, OthersStay(u)
    PROVE  /\ Phase' = [Phase EXCEPT ![u] = PhaseOf(u)']
           /\ Ticket' = [Ticket EXCEPT ![u] = TicketOf(u)']
           /\ PhaseOf(u)' = PhaseOf(u) => Phase' = Phase
           /\ TicketOf(u)' = TicketOf(u) => Ticket' = Ticket
BY DEF OthersStay, Phase, Ticket

LEMMA StutterFact ==
    ASSUME NEW u \in Users, OthersStay(u), PhaseOf(u)' = PhaseOf(u), TicketOf(u)' = TicketOf(u),
           UNCHANGED <<ticket_counter, Running>>
    PROVE  UNCHANGED Promise!vars
BY Changed, PromiseVars

LEMMA MovesFact ==
    ASSUME Running, NEW u \in Users, OthersStay(u), NEW from, NEW to,
           PhaseOf(u) = from, PhaseOf(u)' = to
    PROVE  /\ Promise!Moves(u, from, to)
           /\ TicketOf(u)' = TicketOf(u) => UNCHANGED Ticket
BY Changed DEF Promise!Moves, Phase

LEMMA GoesFact ==
    ASSUME Running, NEW u \in Users, OthersStay(u), NEW from,
           PhaseOf(u) = from, PhaseOf(u)' = "away", TicketOf(u)' = NoTicket,
           UNCHANGED <<ticket_counter, Running>>
    PROVE  Promise!Goes(u, from)
<1>1. Promise!Moves(u, from, "away")
  BY MovesFact
<1>2. Ticket' = [Ticket EXCEPT ![u] = NoTicket]
  BY Changed
<1> QED
  BY <1>1, <1>2 DEF Promise!Goes, Ticket

\* A step that no user notices.
LEMMA Unnoticed ==
    ASSUME Views, Views', UNCHANGED <<utVars, ticket_counter, Running>>,
           \A v \in Users : AnswersKept(v)
    PROVE  UNCHANGED Promise!vars
<1>1. \A v \in Users : PhaseOf(v)' = PhaseOf(v) /\ TicketOf(v)' = TicketOf(v)
  BY SameView DEF utVars
<1>2. Phase' = Phase /\ Ticket' = Ticket
  BY <1>1 DEF Phase, Ticket
<1> QED
  BY <1>2, PromiseVars
-----------------------------------------------------------------------------
LEMMA ErPromise ==
    ASSUME DistinctTypes, TypeOK, MsgInv, Views, Views', Running, ErNext, UNCHANGED <<utVars, Running>>
    PROVE  UNCHANGED Promise!vars \/ \E u \in Users : Promise!Issue(u)
<1>1. CASE ErReceive
  <2>1. PICK i : mq_receive(TicketRequestType, i)
    BY <1>1 DEF ErReceive
  <2>2. queue[i].kind = "ticket_request"
    BY <2>1, ReceivePositions, KindOfType DEF MsgInv
  <2>3. \A v \in Users : AnswersKept(v)
    BY <2>1, <2>2, AnswersStay DEF Answers
  <2> QED
    BY <1>1, <2>3, Unnoticed DEF ErReceive
<1>2. CASE ErReply
  <2>0. PICK u \in Users : u = erReq
    BY <1>2 DEF ErReply, MsgInv, RepliesMatch
  <2> DEFINE m == TicketResponse(u, ticket_counter)
             n == Len(queue) + 1
  <2>1. mq_send(m) /\ erReq # 0 /\ ticket_counter' = ticket_counter + 1
    BY <1>2, <2>0 DEF ErReply
  <2>2. /\ utPc[u] = "awaitTicket"
        /\ \A i \in Positions : Subject(queue[i]) # u
    BY <2>0, <2>1 DEF MsgInv, RepliesMatch, OneMessagePerUser
  <2>3. Subject(m) = u /\ m.kind = "ticket_response" /\ m.ticket = ticket_counter
    BY DEF TicketResponse, Subject
  <2>4. n \in Positions' /\ queue'[n] = m
    BY <2>1, SendPositions DEF Positions
  <2> HIDE DEF m, n
  <2>5. OthersStay(u)
    <3>1. ASSUME NEW v \in Users \ {u} PROVE AnswersKept(v)
      BY <2>1, <2>3, AnswersStay
    <3> QED
      BY <3>1, SameView DEF OthersStay, utVars
  <2>6. PhaseOf(u) = "asking"
    BY <2>2 DEF PhaseOf, Holds
  <2>7. PhaseOf(u)' = "holding"
    <3>1. Holds(u, "ticket_response")'
      BY <2>3, <2>4 DEF Holds, Subject
    <3> QED
      BY <2>2, <3>1 DEF PhaseOf, utVars
  <2>8. TicketOf(u)' = ticket_counter
    <3>1. Tells(queue'[n], u, "ticket_response")
      BY <2>3, <2>4 DEF Tells
    <3>2. \A j \in Positions' : Tells(queue'[j], u, "ticket_response") =>
             TicketOf(u)' = queue'[j].ticket
      BY <2>2 DEF Views, View, Tells, Subject
    <3> QED
      BY <2>3, <2>4, <3>1, <3>2
  <2>9. Promise!Moves(u, "asking", "holding")
    BY <2>2, <2>5, <2>6, <2>7, MovesFact
  <2>10. Ticket' = [Ticket EXCEPT ![u] = ticket_counter]
    BY <2>2, <2>5, <2>8, Changed
  <2>11. Promise!Issue(u)
    BY <2>1, <2>9, <2>10 DEF Promise!Issue, Ticket
  <2> QED
    BY <2>2, <2>11
<1> QED
  BY <1>1, <1>2 DEF ErNext

LEMMA OpPromise ==
    ASSUME DistinctTypes, TypeOK, MsgInv, Views, Views', Running, NEW o \in Operators, OpNext(o),
           UNCHANGED <<utVars, ticket_counter, Running>>
    PROVE  UNCHANGED Promise!vars \/ \E u \in Users : Promise!Serve(u)
<1>1. CASE OpPoll(o)
  <2>1. CASE UNCHANGED queue
    BY <2>1, AnswersStay, Unnoticed
  <2>2. CASE \E i : mq_receive(ServiceRequestType(o), i)
    <3>1. PICK i : mq_receive(ServiceRequestType(o), i)
      BY <2>2
    <3>2. queue[i].kind = "service_request"
      BY <3>1, ReceivePositions, KindOfType DEF MsgInv
    <3>3. \A v \in Users : AnswersKept(v)
      BY <3>1, <3>2, AnswersStay DEF Answers
    <3> QED
      BY <3>3, Unnoticed
  <2> QED
    BY <1>1, <2>1, <2>2 DEF OpPoll
<1>2. CASE OpServe(o)
  <2>0. Serving(o)
    BY <1>2 DEF OpServe, OpAt, Serving
  <2>1. PICK u \in Users : u = opCust[o]
    BY <2>0 DEF MsgInv, RepliesMatch
  <2> DEFINE m == ServiceDone(o, u, opTicket[o])
             n == Len(queue) + 1
  <2>2. /\ mq_send(m) /\ utPc[u] = "awaitDone"
        /\ \A i \in Positions : Subject(queue[i]) # u
    BY <1>2, <2>0, <2>1 DEF OpServe, MsgInv, RepliesMatch, OneMessagePerUser
  <2>3. Subject(m) = u /\ m.kind = "service_done"
    BY DEF ServiceDone, Subject
  <2>4. n \in Positions' /\ queue'[n] = m
    BY <2>2, SendPositions DEF Positions
  <2> HIDE DEF m, n
  <2>5. OthersStay(u)
    <3>1. ASSUME NEW v \in Users \ {u} PROVE AnswersKept(v)
      BY <2>2, <2>3, AnswersStay
    <3> QED
      BY <3>1, SameView DEF OthersStay, utVars
  <2>6. PhaseOf(u) = "presented"
    BY <2>2 DEF PhaseOf, Holds
  <2>7. PhaseOf(u)' = "served"
    <3>1. Holds(u, "service_done")'
      BY <2>3, <2>4 DEF Holds, Subject
    <3> QED
      BY <2>2, <3>1 DEF PhaseOf, utVars
  <2>8. TicketOf(u)' = TicketOf(u)
    <3>1. TicketOf(u) = utTicket[u]
      BY <2>2 DEF Views, View, Tells
    <3>2. \A j \in Positions' : ~Tells(queue'[j], u, "ticket_response")
      BY <2>2 DEF Views, View, Tells, Subject, utVars
    <3>3. TicketOf(u)' = utTicket'[u]
      BY <2>2, <3>2 DEF Views, View, Tells, Subject
    <3> QED
      BY <3>1, <3>3 DEF utVars
  <2>9. Promise!Moves(u, "presented", "served") /\ UNCHANGED Ticket
    BY <2>2, <2>5, <2>6, <2>7, <2>8, MovesFact
  <2>10. Promise!Serve(u)
    BY <2>9 DEF Promise!Serve, Ticket
  <2> QED
    BY <2>2, <2>10
<1>3. CASE UNCHANGED queue
  BY <1>3, AnswersStay, Unnoticed
<1> QED
  BY <1>1, <1>2, <1>3 DEF OpNext, OpDayStart, OpEnter, OpCanWorkToday, OpSeek, OpStationEvent,
     OpStationTimeout, OpTimedOut, OpScan, OpTake, did_poste_close, OpLeave, OpSignal, sharedVars

\* The other users notice nothing of a user's step.
LEMMA UtOthers ==
    ASSUME DistinctTypes, TypeOK, MsgInv, Views, Views', NEW u \in Users, UtNext(u)
    PROVE  OthersStay(u)
<1> SUFFICES ASSUME NEW v \in Users \ {u}
             PROVE  PhaseOf(v)' = PhaseOf(v) /\ TicketOf(v)' = TicketOf(v)
  BY DEF OthersStay
<1>1. utPc'[v] = utPc[v] /\ utSeat'[v] = utSeat[v] /\ utTicket'[v] = utTicket[v]
  BY DEF UtNext, UtDayStart, UtDecide, PlanDay, UtEnter, UtWalkIn, UtNextService,
     UtLateHome, UtRequest, UtTicket, UtLook, UtClaim, UtSeatWait, UtReadOp, UtPresent,
     UtDone, UtServed, UtLate, UtFree, ServiceOver, UtGoto, TypeOK, UtTypeOK
<1>2. AnswersKept(v)
  <2>1. CASE UtRequest(u)
    BY <2>1, AnswersStay DEF UtRequest, TicketRequest, Subject
  <2>2. CASE UtPresent(u)
    BY <2>2, AnswersStay DEF UtPresent, ServiceRequest, Subject
  <2>3. CASE UtTicket(u) \/ UtDone(u)
    <3>1. PICK i : mq_receive(u, i)
      BY <2>3 DEF UtTicket, UtDone
    <3>2. Subject(queue[i]) = u
      BY <3>1, ReceivePositions, KindOfType DEF MsgInv
    <3> QED
      BY <3>1, <3>2, AnswersStay
  <2>4. CASE UNCHANGED queue
    BY <2>4, AnswersStay
  <2> QED
    BY <2>1, <2>2, <2>3, <2>4 DEF UtNext, UtDayStart, UtDecide, UtEnter, UtWalkIn,
       UtNextService, UtLateHome, UtLook, UtClaim, UtSeatWait, UtReadOp, UtServed, UtLate,
       UtFree, sharedVars
<1> QED
  BY <1>1, <1>2, SameView

\* Without an answer in the queue the ticket is the user's own.
LEMMA OwnTicket ==
    ASSUME Views, NEW u \in Users, utPc[u] # "awaitTicket"
    PROVE  TicketOf(u) = utTicket[u]
BY DEF Views, View

LEMMA OwnTicketNext ==
    ASSUME Views', NEW u \in Users, utPc'[u] # "awaitTicket"
    PROVE  TicketOf(u)' = utTicket'[u]
<1>1. View(u)'
  BY DEF Views
<1> QED
  BY <1>1 DEF View

LEMMA UtPromise ==
    ASSUME DistinctTypes, TypeOK, TypeOK', MsgInv, Views, Views', Unseated, Unseated', Running,
           NEW u \in Users, UtNext(u), UNCHANGED <<ticket_counter, Running>>
    PROVE  \/ UNCHANGED Promise!vars
           \/ Promise!Ask(u) \/ Promise!Present(u) \/ Promise!GiveUp(u) \/ Promise!Leave(u)
<1>1. OthersStay(u)
  BY UtOthers
<1>2. /\ utPc \in [Users -> UtPcs] /\ utSeat \in [Users -> Seats \cup {NoSeat}]
      /\ utTicket \in [Users -> Nat \cup {NoTicket}]
  BY DEF TypeOK, UtTypeOK
<1>3. ASSUME PhaseOf(u)' = PhaseOf(u), utTicket'[u] = utTicket[u],
             utPc[u] # "awaitTicket", utPc'[u] # "awaitTicket"
      PROVE  UNCHANGED Promise!vars
  BY <1>1, <1>3, OwnTicket, OwnTicketNext, StutterFact
<1>4. ASSUME ServiceOver(u), utPc[u] # "awaitTicket"
      PROVE  \A from : PhaseOf(u) = from => Promise!Goes(u, from)
  <2>1. utPc'[u] = "next" /\ utTicket'[u] = NoTicket
    BY <1>2, <1>4 DEF ServiceOver, UtGoto
  <2>2. PhaseOf(u)' = "away" /\ TicketOf(u)' = NoTicket
    BY <2>1, OwnTicketNext DEF PhaseOf
  <2> QED
    BY <1>1, <2>2, GoesFact
<1>5. CASE \/ UtDayStart(u) \/ UtDecide(u) \/ UtEnter(u) \/ UtWalkIn(u) \/ UtNextService(u)
           \/ UtLateHome(u)
  <2>1. /\ utPc[u] \in {"dayWait", "decide", "openWait", "walkIn", "next", "lateHome"}
        /\ utPc'[u] \in {"dayWait", "decide", "openWait", "walkIn", "next", "lateHome", "request"}
        /\ UNCHANGED utTicket
    BY <1>2, <1>5 DEF UtDayStart, UtDecide, PlanDay, UtEnter, UtWalkIn, UtNextService,
       UtLateHome, UtGoto, UtAt
  <2>2. PhaseOf(u) = "away" /\ PhaseOf(u)' = "away"
    BY <2>1 DEF PhaseOf
  <2> QED
    BY <1>3, <2>1, <2>2
<1>6. CASE UtRequest(u)
  <2>1. /\ utPc[u] = "request" /\ utPc'[u] = "awaitTicket" /\ UNCHANGED utTicket
        /\ mq_send(TicketRequest(u))
    BY <1>2, <1>6 DEF UtRequest, UtGoto, UtAt
  <2>2. AnswersKept(u)
    BY <2>1, AnswersStay DEF TicketRequest, Answers
  <2>3. ~Holds(u, "ticket_response")
    BY <2>1 DEF Views, View, Holds, Tells
  <2>4. ~Holds(u, "ticket_response")' /\ TicketOf(u)' = TicketOf(u)
    BY <2>1, <2>2, <2>3, SameView DEF Answers
  <2>5. PhaseOf(u) = "away" /\ PhaseOf(u)' = "asking"
    BY <2>1, <2>4 DEF PhaseOf
  <2>6. Promise!Moves(u, "away", "asking") /\ UNCHANGED Ticket
    BY <1>1, <2>4, <2>5, MovesFact
  <2> QED
    BY <2>6 DEF Promise!Ask, Ticket
<1>7. CASE UtTicket(u)
  <2>1. PICK i : mq_receive(u, i) /\ utTicket' = [utTicket EXCEPT ![u] = queue[i].ticket]
    BY <1>7 DEF UtTicket
  <2>2. utPc[u] = "awaitTicket" /\ utPc'[u] = "look" /\ utTicket'[u] = queue[i].ticket
    BY <1>2, <1>7, <2>1 DEF UtTicket, UtGoto, UtAt
  <2>3. i \in Positions /\ queue[i].kind \in Answers /\ Subject(queue[i]) = u
    BY <2>1, ReceivePositions, KindOfType DEF MsgInv, Answers
  <2>4. Tells(queue[i], u, "ticket_response")
    BY <2>2, <2>3 DEF Views, View, Tells, Answers
  <2>5. TicketOf(u) = queue[i].ticket /\ TicketOf(u)' = queue[i].ticket
    BY <2>2, <2>3, <2>4, OwnTicketNext DEF Views, View
  <2>6. PhaseOf(u) = "holding" /\ PhaseOf(u)' = "holding"
    BY <2>2, <2>3, <2>4 DEF PhaseOf, Holds, Tells
  <2> QED
    BY <1>1, <2>5, <2>6, StutterFact
<1>8. CASE UtLook(u)
  <2>1. utPc[u] = "look" /\ PhaseOf(u) = "holding"
    BY <1>8 DEF UtLook, UtAt, PhaseOf
  <2>2. CASE ServiceOver(u)
    BY <1>4, <2>1, <2>2 DEF Promise!GiveUp
  <2>3. CASE UtGoto(u, "claim") /\ UNCHANGED utTicket
    <3>1. utPc'[u] = "claim"
      BY <1>2, <2>3 DEF UtGoto
    <3>2. PhaseOf(u)' = "holding"
      BY <3>1 DEF PhaseOf
    <3> QED
      BY <1>3, <2>1, <2>3, <3>1, <3>2
  <2> QED
    BY <1>8, <2>2, <2>3 DEF UtLook
<1>9. CASE UtClaim(u) \/ UtReadOp(u)
  <2>1. /\ utPc[u] \in {"claim", "readOp"} /\ utPc'[u] \in {"readOp", "seatWait", "present"}
        /\ UNCHANGED utTicket
    BY <1>2, <1>9 DEF UtClaim, UtReadOp, UtGoto, UtAt
  <2>2. PhaseOf(u) = "holding" /\ PhaseOf(u)' = "holding"
    BY <2>1 DEF PhaseOf
  <2> QED
    BY <1>3, <2>1, <2>2
<1>10. CASE UtSeatWait(u)
  <2>1. /\ utPc[u] = "seatWait" /\ utPc'[u] \in {"late", "claim"}
        /\ UNCHANGED <<utTicket, utSeat>>
    BY <1>2, <1>10 DEF UtSeatWait, UtGoto, UtAt
  <2>2. utSeat'[u] = NoSeat
    BY <2>1 DEF Unseated, AtSeat
  <2>3. PhaseOf(u) = "holding" /\ PhaseOf(u)' = "holding"
    BY <2>1, <2>2 DEF PhaseOf
  <2> QED
    BY <1>3, <2>1, <2>3
<1>11. CASE UtPresent(u)
  <2>1. /\ utPc[u] = "present" /\ utPc'[u] = "awaitDone" /\ UNCHANGED utTicket
        /\ mq_send(ServiceRequest(u, utOp[u], utTicket[u]))
    BY <1>2, <1>11 DEF UtPresent, UtGoto, UtAt
  <2>2. AnswersKept(u)
    BY <2>1, AnswersStay DEF ServiceRequest, Answers
  <2>3. ~Holds(u, "service_done")
    BY <2>1 DEF Views, View, Holds, Tells
  <2>4. ~Holds(u, "service_done")' /\ TicketOf(u)' = TicketOf(u)
    BY <2>1, <2>2, <2>3, SameView DEF Answers
  <2>5. PhaseOf(u) = "holding" /\ PhaseOf(u)' = "presented"
    BY <2>1, <2>4 DEF PhaseOf
  <2>6. Promise!Moves(u, "holding", "presented") /\ UNCHANGED Ticket
    BY <1>1, <2>4, <2>5, MovesFact
  <2> QED
    BY <2>6 DEF Promise!Present, Ticket
<1>12. CASE UtDone(u)
  <2>1. PICK i : mq_receive(u, i)
    BY <1>12 DEF UtDone
  <2>2. utPc[u] = "awaitDone" /\ utPc'[u] = "served" /\ UNCHANGED utTicket
    BY <1>2, <1>12 DEF UtDone, UtGoto, UtAt
  <2>3. i \in Positions /\ queue[i].kind \in Answers /\ Subject(queue[i]) = u
    BY <2>1, ReceivePositions, KindOfType DEF MsgInv, Answers
  <2>4. Tells(queue[i], u, "service_done")
    BY <2>2, <2>3 DEF Views, View, Tells, Answers
  <2>5. PhaseOf(u) = "served" /\ PhaseOf(u)' = "served"
    BY <2>2, <2>3, <2>4 DEF PhaseOf, Holds, Tells
  <2> QED
    BY <1>3, <2>2, <2>5
<1>13. CASE UtServed(u)
  <2>1. /\ utPc[u] = "served" /\ utPc'[u] \in {"late", "free"}
        /\ UNCHANGED <<utTicket, utSeat>>
    BY <1>2, <1>13 DEF UtServed, UtGoto, UtAt
  <2>2. utSeat'[u] # NoSeat
    BY <2>1 DEF TypeOK, UtTypeOK, AtSeat, Seats, NoSeat
  <2>3. PhaseOf(u) = "served" /\ PhaseOf(u)' = "served"
    BY <2>1, <2>2 DEF PhaseOf
  <2> QED
    BY <1>3, <2>1, <2>3
<1>14. CASE UtLate(u) \/ UtFree(u)
  <2>1. utPc[u] \in {"late", "free"} /\ ServiceOver(u)
    BY <1>14 DEF UtLate, UtFree, UtAt
  <2>2. PhaseOf(u) \in {"holding", "served"}
    BY <2>1 DEF PhaseOf
  <2> QED
    BY <1>4, <2>1, <2>2 DEF Promise!GiveUp, Promise!Leave
<1> QED
  BY <1>5, <1>6, <1>7, <1>8, <1>9, <1>10, <1>11, <1>12, <1>13, <1>14 DEF UtNext

LEMMA DirPromise ==
    ASSUME TypeOK, Views, Views', DirStep
    PROVE  UNCHANGED Promise!vars \/ Promise!Close
<1>1. UNCHANGED <<queue, utVars, ticket_counter>>
  BY DEF DirStep, DirNext, DirMinute, DirClosing, DirMidnight, DirNewDay, DirSeats,
     DirAnnounce, DirAdvance, DirTerminate, DirReport, sharedVars, erVars
<1>2. \A v \in Users : AnswersKept(v)
  BY <1>1, AnswersStay
<1>3. CASE UNCHANGED Running
  BY <1>1, <1>2, <1>3, Unnoticed
<1>4. CASE Running' # Running
  <2>1. Running /\ ~Running'
    BY <1>4 DEF DirStep, DirNext, DirMinute, DirClosing, DirMidnight, DirNewDay, DirSeats,
       DirAnnounce, DirAdvance, DirTerminate, DirReport, DirGoto, DirAt, Running
  <2>2. \A v \in Users : PhaseOf(v)' = PhaseOf(v) /\ TicketOf(v)' = TicketOf(v)
    BY <1>1, <1>2, SameView DEF utVars
  <2> QED
    BY <1>1, <2>1, <2>2 DEF Promise!Close, Running
<1> QED
  BY <1>3, <1>4

\* Whatever the simulation does, its users are served as promised: tickets are issued in
\* sequence and never twice, a service is for the ticket presented, once per presentation,
\* and whoever leaves unserved leaves before presenting
\* (utente.c:234-311, operatore.c:277-310, erogatore_ticket.c:34-54).
THEOREM PromiseKept ==
    ASSUME DistinctTypes
    PROVE  Spec => KeepsPromise
<1>1. Init => Promise!Init
  <2> SUFFICES ASSUME Init PROVE Promise!Init
    OBVIOUS
  <2>1. queue = << >> /\ Positions = {} /\ \A u \in Users : utPc[u] = "dayWait"
    BY DEF Init, SharedInit, UtInit, Positions
  <2>2. TypeOK /\ MsgInv
    BY TypeInit, MsgInit
  <2>3. \A u \in Users : TicketOf(u) = utTicket[u]
    BY <2>1, <2>2, ViewsHold, OwnTicket
  <2>4. \A u \in Users : PhaseOf(u) = "away"
    BY <2>1 DEF PhaseOf
  <2>5. /\ \A u \in Users : utTicket[u] = NoTicket
        /\ ticket_counter = 0 /\ Running
    BY DEF Init, UtInit, ErInit, DirInit, Running
  <2> QED
    BY <2>3, <2>4, <2>5 DEF Promise!Init, Running
<1>2. /\ TypeOK /\ TypeOK' /\ MsgInv /\ Views /\ Views' /\ Unseated /\ Unseated' /\ [Next]_vars
      => [Promise!Next]_(Promise!vars)
  <2> SUFFICES ASSUME TypeOK, TypeOK', MsgInv, Views, Views', Unseated, Unseated', [Next]_vars
               PROVE  [Promise!Next]_(Promise!vars)
    OBVIOUS
  <2>1. CASE ErStep
    BY <2>1, ErPromise DEF ErStep, dirVars, Running, Promise!Next
  <2>2. ASSUME NEW o \in Operators, OpStep(o) PROVE [Promise!Next]_(Promise!vars)
    BY <2>2, OpPromise DEF OpStep, erVars, dirVars, Running, Promise!Next
  <2>3. ASSUME NEW u \in Users, UtStep(u) PROVE [Promise!Next]_(Promise!vars)
    BY <2>3, UtPromise DEF UtStep, erVars, dirVars, Running, Promise!Next
  <2>4. CASE DirStep
    BY <2>4, DirPromise DEF Promise!Next
  <2>5. CASE UNCHANGED vars
    <3>1. \A v \in Users : AnswersKept(v)
      BY <2>5, AnswersStay DEF vars, sharedVars
    <3> QED
      BY <2>5, <3>1, Unnoticed DEF vars, erVars, dirVars, Running
  <2> QED
    BY <2>1, <2>2, <2>3, <2>4, <2>5 DEF Next
<1>3. TypeOK /\ MsgInv /\ [Next]_vars => MsgInv'
  BY MsgStep
<1> QED
  BY <1>1, <1>2, <1>3, MsgInit, TypeCorrect, ViewsHold, UnseatedInit, UnseatedStep,
     PTL DEF Spec, KeepsPromise, Promise!Spec

=============================================================================
