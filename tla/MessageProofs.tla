---------------------------- MODULE MessageProofs ----------------------------
(***************************************************************************)
(* Where a user's request is.  Provided no user's pid doubles as another   *)
(* message type, every request is in exactly one place - the queue, the    *)
(* dispenser's hands, an operator's hands - and belongs to a user who is   *)
(* blocked waiting for just that outcome.                                  *)
(***************************************************************************)
EXTENDS PosteProofs

MsgInv == RepliesMatch /\ OneMessagePerUser /\ NothingLost
Awaiting == {"awaitTicket", "awaitDone"}

\* What sending and receiving do to the positions of the queue (msg_queue.c:10-30).
LEMMA SendPositions ==
    ASSUME TypeOK, NEW m, mq_send(m)
    PROVE  /\ Len(queue) \in Nat /\ Len(queue') = Len(queue) + 1
           /\ queue'[Len(queue) + 1] = m
           /\ \A j \in 1 .. Len(queue) : queue'[j] = queue[j]
BY DEF mq_send, TypeOK, SharedTypeOK

Before(i, j) == IF j < i THEN j ELSE j + 1
LEMMA ReceivePositions ==
    ASSUME TypeOK, NEW t, NEW i, mq_receive(t, i)
    PROVE  /\ i \in Positions /\ queue[i].mtype = t /\ Len(queue) \in Nat
           /\ Len(queue') = Len(queue) - 1
           /\ \A j \in Positions' : /\ Before(i, j) \in Positions \ {i}
                                    /\ queue'[j] = queue[Before(i, j)]
           /\ \A j, k \in Positions' : Before(i, j) = Before(i, k) => j = k
           /\ \A k \in Positions \ {i} : \E j \in Positions' : Before(i, j) = k
<1>1. i \in 1 .. Len(queue) /\ queue[i].mtype = t /\ queue' = RemoveAt(queue, i)
  BY DEF mq_receive, IsFirst
<1>2. Len(queue) \in Nat /\ queue \in Seq(Message)
  BY DEF TypeOK, SharedTypeOK
<1>3. /\ Len(queue') = Len(queue) - 1
      /\ \A j \in 1 .. (Len(queue) - 1) : queue'[j] = IF j < i THEN queue[j] ELSE queue[j + 1]
  BY <1>1, <1>2, RemoveAtProperties
<1>4. \A j \in Positions' : /\ Before(i, j) \in Positions \ {i}
                            /\ queue'[j] = queue[Before(i, j)]
  BY <1>1, <1>2, <1>3 DEF Before, Positions
<1>5. \A j, k \in Positions' : Before(i, j) = Before(i, k) => j = k
  BY <1>1, <1>2, <1>3 DEF Before, Positions
<1>6. ASSUME NEW k \in Positions \ {i} PROVE \E j \in Positions' : Before(i, j) = k
  <2>1. CASE k < i
    <3>1. k \in Positions' /\ Before(i, k) = k
      BY <2>1, <1>1, <1>2, <1>3 DEF Before, Positions
    <3> QED
      BY <3>1
  <2>2. CASE ~(k < i)
    <3>1. k - 1 \in Positions' /\ Before(i, k - 1) = k
      BY <2>2, <1>1, <1>2, <1>3 DEF Before, Positions
    <3> QED
      BY <3>1
  <2> QED
    BY <2>1, <2>2
<1> QED
  BY <1>1, <1>2, <1>3, <1>4, <1>5, <1>6 DEF Positions

\* A message's type tells its kind (comunications.h:12-19).
LEMMA KindOfType ==
    ASSUME DistinctTypes, TypeOK, RepliesMatch, NEW i \in Positions
    PROVE  /\ queue[i] \in Message
           /\ queue[i].mtype = TicketRequestType => queue[i].kind = "ticket_request"
           /\ \A o \in Operators :
                 queue[i].mtype = ServiceRequestType(o) => queue[i].kind = "service_request"
           /\ \A u \in Users : queue[i].mtype = u =>
                 /\ queue[i].kind \in {"ticket_response", "service_done"}
                 /\ Subject(queue[i]) = u
<1> USE PidFacts
<1>1. queue[i] \in Message
  BY ElementOfSeq DEF Positions, TypeOK, SharedTypeOK
<1>2. queue[i].kind \in Kinds /\ Belongs(queue[i])
  BY <1>1 DEF Message, RepliesMatch
<1>3. CASE queue[i].kind \in {"ticket_response", "service_done"}
  BY <1>1, <1>2, <1>3 DEF Belongs, Subject, DistinctTypes
<1>4. CASE queue[i].kind = "ticket_request"
  BY <1>1, <1>2, <1>4 DEF Belongs, Subject, DistinctTypes, TicketRequestType, ServiceRequestType
<1>5. CASE queue[i].kind = "service_request"
  <2>1. utOp[Subject(queue[i])] \in Operators \cup {0}
    BY <1>2 DEF Belongs, TypeOK, UtTypeOK
  <2>2. queue[i].mtype = ServiceRequestType(utOp[Subject(queue[i])])
    BY <1>2, <1>5 DEF Belongs
  <2>3. queue[i].mtype # TicketRequestType
    BY <2>1, <2>2 DEF TicketRequestType, ServiceRequestType
  <2>4. queue[i].mtype \notin Users
    BY <2>1, <2>2 DEF DistinctTypes
  <2> QED
    BY <1>1, <1>5, <2>3, <2>4
<1> QED
  BY <1>1, <1>2, <1>3, <1>4, <1>5 DEF Kinds

-----------------------------------------------------------------------------
(* The invariant, one user at a time.                                       *)

NoStrangers ==
    /\ \A i \in Positions : Subject(queue[i]) \in Users
    /\ erReq \in Users \cup {0}
    /\ \A o \in Operators : Serving(o) => opCust[o] \in Users

HeldBy(o, u) == Serving(o) /\ opCust[o] = u
Unheld(u) == erReq # u /\ \A o \in Operators : ~HeldBy(o, u)
Unqueued(u) == \A i \in Positions : Subject(queue[i]) # u

UserOk(u) ==
    /\ \A i \in Positions : Subject(queue[i]) = u =>
          /\ Belongs(queue[i]) /\ Unheld(u)
          /\ \A j \in Positions : Subject(queue[j]) = u => i = j
    /\ erReq = u => utPc[u] = "awaitTicket" /\ \A o \in Operators : ~HeldBy(o, u)
    /\ \A o \in Operators : HeldBy(o, u) =>
          /\ utPc[u] = "awaitDone" /\ opTicket[o] = utTicket[u]
          /\ \A p \in Operators : HeldBy(p, u) => o = p
    /\ utPc[u] \in Awaiting => InFlight(u)

EachOk == NoStrangers /\ \A u \in Users : UserOk(u)

LEMMA UserByUser == MsgInv <=> EachOk
<1> USE PidFacts DEF HeldBy, Unheld, EachOk
<1>1. ASSUME MsgInv PROVE NoStrangers /\ \A u \in Users : UserOk(u)
  <2>1. NoStrangers
    BY <1>1 DEF MsgInv, RepliesMatch, Belongs, NoStrangers
  <2>2. ASSUME NEW u \in Users PROVE UserOk(u)
    BY <1>1 DEF MsgInv, RepliesMatch, OneMessagePerUser, NothingLost, UserOk, Awaiting
  <2> QED
    BY <2>1, <2>2
<1>2. ASSUME NoStrangers, \A u \in Users : UserOk(u) PROVE MsgInv
  <2>1. RepliesMatch
    BY <1>2 DEF NoStrangers, UserOk, RepliesMatch
  <2>2. OneMessagePerUser
    BY <1>2 DEF NoStrangers, UserOk, OneMessagePerUser
  <2>3. NothingLost
    BY <1>2 DEF UserOk, NothingLost, Awaiting
  <2> QED
    BY <2>1, <2>2, <2>3 DEF MsgInv
<1> QED
  BY <1>1, <1>2

\* A step about somebody else: v, its ticket and whoever holds its request stay.
Keeps(v) ==
    /\ utPc'[v] = utPc[v] /\ utTicket'[v] = utTicket[v] /\ utOp'[v] = utOp[v]
    /\ erReq' = v <=> erReq = v
    /\ \A o \in Operators : /\ HeldBy(o, v)' <=> HeldBy(o, v)
                            /\ HeldBy(o, v) => opTicket'[o] = opTicket[o]
    /\ ticket_counter \in Nat /\ ticket_counter' \in {ticket_counter, ticket_counter + 1}

\* The messages about v are the same, position at[j] of the old queue having
\* become position j of the new one.
LEMMA OthersKept ==
    ASSUME NEW v \in Users, UserOk(v), Keeps(v), NEW at,
           \A j \in Positions' : Subject(queue'[j]) = v =>
                 at[j] \in Positions /\ queue'[j] = queue[at[j]],
           \A j, k \in Positions' : at[j] = at[k] => j = k,
           \A k \in Positions : Subject(queue[k]) = v => \E j \in Positions' : at[j] = k,
           \A j \in Positions' : at[j] \in Positions => queue'[j] = queue[at[j]]
    PROVE  UserOk(v)'
<1>0. \A o \in Operators : HeldBy(o, v)' <=> HeldBy(o, v)
  BY DEF Keeps
<1>1. ASSUME NEW j \in Positions', Subject(queue'[j]) = v
      PROVE  /\ Belongs(queue[j])' /\ Unheld(v)'
             /\ \A k \in Positions' : Subject(queue'[k]) = v => j = k
  <2>1. at[j] \in Positions /\ queue'[j] = queue[at[j]] /\ Subject(queue[at[j]]) = v
    BY <1>1
  <2>2. Belongs(queue[at[j]]) /\ Unheld(v)
    BY <2>1 DEF UserOk
  <2>3. Belongs(queue'[j]) /\ Subject(queue'[j]) = v
    BY <2>1, <2>2
  <2>4. Belongs(queue[j])'
    <3> DEFINE m == queue'[j]
    <3>1. m.kind = "ticket_response" => m.ticket \in 0 .. (ticket_counter' - 1)
      BY <2>3 DEF Belongs, Keeps
    <3> QED
      BY <2>3, <3>1 DEF Belongs, Keeps, Subject
  <2>5. Unheld(v)'
    BY <1>0, <2>2 DEF Unheld, Keeps
  <2>6. ASSUME NEW k \in Positions', Subject(queue'[k]) = v PROVE j = k
    <3>1. at[k] \in Positions /\ Subject(queue[at[k]]) = v
      BY <2>6
    <3> QED
      BY <2>1, <3>1 DEF UserOk
  <2> QED
    BY <2>4, <2>5, <2>6
<1>2. erReq' = v => utPc'[v] = "awaitTicket" /\ \A o \in Operators : ~HeldBy(o, v)'
  BY <1>0 DEF UserOk, Keeps
<1>3. ASSUME NEW o \in Operators, HeldBy(o, v)'
      PROVE  /\ utPc'[v] = "awaitDone" /\ opTicket'[o] = utTicket'[v]
             /\ \A p \in Operators : HeldBy(p, v)' => o = p
  BY <1>0, <1>3 DEF UserOk, Keeps
<1>4. ASSUME utPc'[v] \in Awaiting PROVE InFlight(v)'
  <2>1. InFlight(v)
    BY <1>4 DEF UserOk, Keeps
  <2>2. CASE \E k \in Positions : Subject(queue[k]) = v
    <3> PICK k \in Positions : Subject(queue[k]) = v
      BY <2>2
    <3>1. PICK j \in Positions' : at[j] = k
      OBVIOUS
    <3>2. Subject(queue'[j]) = v
      BY <3>1
    <3> QED
      BY <3>2 DEF InFlight, Subject
  <2>3. CASE erReq = v
    BY <2>3 DEF InFlight, Keeps
  <2>4. CASE \E o \in Operators : Serving(o) /\ opCust[o] = v
    BY <1>0, <2>4 DEF InFlight, HeldBy
  <2> QED
    BY <2>1, <2>2, <2>3, <2>4 DEF InFlight
<1> QED
  BY <1>1, <1>2, <1>3, <1>4 DEF UserOk, Subject

LEMMA UnmovedKeeps ==
    ASSUME UNCHANGED queue, NEW v \in Users, UserOk(v), Keeps(v)
    PROVE  UserOk(v)'
<1> DEFINE at == [j \in Positions |-> j]
<1>1. Positions' = Positions
  BY DEF Positions
<1>2. \A j \in Positions : at[j] = j
  OBVIOUS
<1> HIDE DEF at
<1> QED
  BY <1>1, <1>2, OthersKept

LEMMA SentKeeps ==
    ASSUME TypeOK, NEW m, mq_send(m), NEW v \in Users, Subject(m) # v, UserOk(v), Keeps(v)
    PROVE  UserOk(v)'
<1> DEFINE at == [j \in Positions' |-> j]
           n == Len(queue) + 1
<1>1. /\ Positions' = Positions \cup {n} /\ n \notin Positions /\ queue'[n] = m
      /\ \A j \in Positions : queue'[j] = queue[j]
  BY SendPositions DEF Positions
<1>2. \A j \in Positions' : at[j] = j
  OBVIOUS
<1> HIDE DEF at, n
<1> QED
  BY <1>1, <1>2, OthersKept

LEMMA ReceivedKeeps ==
    ASSUME TypeOK, NEW t, NEW i, mq_receive(t, i),
           NEW v \in Users, Subject(queue[i]) # v, UserOk(v), Keeps(v)
    PROVE  UserOk(v)'
<1> DEFINE at == [j \in Positions' |-> Before(i, j)]
<1>1. /\ \A j \in Positions' : Before(i, j) \in Positions /\ queue'[j] = queue[Before(i, j)]
      /\ \A j, k \in Positions' : Before(i, j) = Before(i, k) => j = k
      /\ \A k \in Positions \ {i} : \E j \in Positions' : Before(i, j) = k
  BY ReceivePositions
<1>2. \A j \in Positions' : at[j] = Before(i, j)
  OBVIOUS
<1> HIDE DEF at
<1> QED
  BY <1>1, <1>2, OthersKept

\* The user the step is about: a message is sent ...
LEMMA SentFor ==
    ASSUME TypeOK, NEW m, mq_send(m), NEW u \in Users, Subject(m) = u,
           Unqueued(u), Belongs(m)', Unheld(u)'
    PROVE  UserOk(u)'
<1> DEFINE n == Len(queue) + 1
<1>1. /\ Positions' = Positions \cup {n} /\ n \notin Positions /\ queue'[n] = m
      /\ \A j \in Positions : queue'[j] = queue[j]
  BY SendPositions DEF Positions
<1> HIDE DEF n
<1>2. \A j \in Positions' : Subject(queue'[j]) = u => j = n
  BY <1>1 DEF Unqueued
<1>3. InFlight(u)'
  BY <1>1 DEF InFlight, Subject
<1>4. ASSUME NEW j \in Positions', Subject(queue'[j]) = u PROVE Belongs(queue[j])'
  BY <1>1, <1>2, <1>4 DEF Belongs, Subject
<1> QED
  BY <1>2, <1>3, <1>4 DEF UserOk, Subject, Unheld

\* ... or its message is taken from the queue, and none is left.
LEMMA ReceivedFor ==
    ASSUME TypeOK, NEW t, NEW i, mq_receive(t, i), NEW u, Subject(queue[i]) = u, UserOk(u)
    PROVE  Belongs(queue[i]) /\ Unheld(u) /\ i \in Positions /\ Unqueued(u)'
<1>1. /\ i \in Positions
      /\ \A j \in Positions' : Before(i, j) \in Positions \ {i} /\ queue'[j] = queue[Before(i, j)]
  BY ReceivePositions
<1> QED
  BY <1>1 DEF UserOk, Unqueued, Subject

\* No stranger's message appears.
LEMMA QueueOfUsers ==
    ASSUME TypeOK, NoStrangers,
           \/ UNCHANGED queue
           \/ \E m : mq_send(m) /\ Subject(m) \in Users
           \/ \E t, i : mq_receive(t, i)
    PROVE  \A j \in Positions' : Subject(queue'[j]) \in Users
<1>1. CASE UNCHANGED queue
  BY <1>1 DEF NoStrangers, Positions
<1>2. ASSUME NEW m, mq_send(m), Subject(m) \in Users
      PROVE  \A j \in Positions' : Subject(queue'[j]) \in Users
  <2>1. /\ Positions' = Positions \cup {Len(queue) + 1} /\ queue'[Len(queue) + 1] = m
        /\ \A j \in Positions : queue'[j] = queue[j]
    BY <1>2, SendPositions DEF Positions
  <2> QED
    BY <1>2, <2>1 DEF NoStrangers
<1>3. ASSUME NEW t, NEW i, mq_receive(t, i)
      PROVE  \A j \in Positions' : Subject(queue'[j]) \in Users
  <2>1. \A j \in Positions' : Before(i, j) \in Positions /\ queue'[j] = queue[Before(i, j)]
    BY <1>3, ReceivePositions
  <2> QED
    BY <2>1 DEF NoStrangers
<1> QED
  BY <1>1, <1>2, <1>3
-----------------------------------------------------------------------------
(* Steps that move no message: the users involved were not waiting and are  *)
(* not waiting afterwards.                                                  *)

Quiet ==
    /\ UNCHANGED <<queue, erReq, ticket_counter>>
    /\ \A o \in Operators : /\ Serving(o)' <=> Serving(o)
                            /\ Serving(o) => opCust'[o] = opCust[o] /\ opTicket'[o] = opTicket[o]
    /\ \A u \in Users : utPc[u] \in Awaiting \/ utPc'[u] \in Awaiting =>
          utPc'[u] = utPc[u] /\ utTicket'[u] = utTicket[u] /\ utOp'[u] = utOp[u]

\* A user that waits for nothing has no request anywhere.
LEMMA IdleUser ==
    ASSUME DistinctTypes, TypeOK, MsgInv, NEW u \in Users, utPc[u] \notin Awaiting
    PROVE  UserOk(u) /\ Unqueued(u) /\ Unheld(u)
<1>1. UserOk(u)
  BY UserByUser DEF EachOk
<1>2. ASSUME NEW i \in Positions PROVE Subject(queue[i]) # u
  <2>1. queue[i].kind \in Kinds
    BY KindOfType DEF MsgInv, Message
  <2> QED
    BY <1>1, <2>1 DEF UserOk, Belongs, Subject, Awaiting, Kinds
<1> QED
  BY <1>1, <1>2 DEF UserOk, Unqueued, Unheld, Awaiting

LEMMA QuietMsgStep ==
    ASSUME DistinctTypes, TypeOK, MsgInv, Quiet
    PROVE  MsgInv'
<1>1. NoStrangers'
  BY UserByUser DEF EachOk, Quiet, NoStrangers, Positions, Subject
<1>2. ASSUME NEW u \in Users PROVE UserOk(u)'
  <2>1. CASE utPc[u] \in Awaiting
    <3>1. Keeps(u)
      BY <2>1 DEF Quiet, Keeps, HeldBy, TypeOK, ErTypeOK
    <3> QED
      BY <3>1, UserByUser, UnmovedKeeps DEF EachOk, Quiet
  <2>2. CASE utPc[u] \notin Awaiting
    <3>1. Unqueued(u) /\ Unheld(u) /\ utPc'[u] \notin Awaiting
      BY <2>2, IdleUser DEF Quiet
    <3>2. Unqueued(u)' /\ Unheld(u)'
      BY <3>1 DEF Quiet, Unqueued, Unheld, HeldBy, Positions, Subject
    <3> QED
      BY <3>1, <3>2 DEF UserOk, Unqueued, Unheld, Awaiting
  <2> QED
    BY <2>1, <2>2
<1>3. EachOk'
  BY <1>1, <1>2 DEF EachOk
<1> QED
  BY <1>3, UserByUser, PTL
-----------------------------------------------------------------------------
(* The dispenser.                                                           *)

LEMMA ErReceiveMsg ==
    ASSUME DistinctTypes, TypeOK, MsgInv, ErReceive, UNCHANGED <<opVars, utVars>>
    PROVE  MsgInv'
<1> USE PidFacts
<1>1. PICK i \in 1 .. Len(queue) : mq_receive(TicketRequestType, i) /\ erReq' = queue[i].pid
  BY DEF ErReceive
<1>2. PICK u \in Users : u = Subject(queue[i]) /\ u = queue[i].pid
  BY <1>1, ReceivePositions, KindOfType, UserByUser DEF EachOk, MsgInv, NoStrangers, Subject
<1>3. Belongs(queue[i]) /\ Unheld(u) /\ Unqueued(u)'
  BY <1>1, <1>2, ReceivedFor, UserByUser DEF EachOk
<1>4. queue[i].kind = "ticket_request"
  BY <1>1, ReceivePositions, KindOfType DEF MsgInv
<1>5. NoStrangers'
  <2>1. \A j \in Positions' : Subject(queue'[j]) \in Users
    BY <1>1, QueueOfUsers, UserByUser DEF EachOk
  <2> QED
    BY <1>1, <1>2, <2>1, UserByUser DEF EachOk, NoStrangers, Serving, Subject, opVars
<1>6. UserOk(u)'
  BY <1>1, <1>2, <1>3, <1>4
     DEF UserOk, Unqueued, Unheld, HeldBy, Serving, InFlight, Belongs, opVars, utVars
<1>7. ASSUME NEW v \in Users, v # u PROVE UserOk(v)'
  <2>1. Keeps(v)
    BY <1>1, <1>2, <1>7 DEF ErReceive, Keeps, HeldBy, Serving, opVars, utVars, TypeOK, ErTypeOK
  <2> QED
    BY <1>1, <1>2, <1>7, <2>1, ReceivedKeeps, UserByUser DEF EachOk
<1>8. EachOk'
  BY <1>5, <1>6, <1>7 DEF EachOk
<1> QED
  BY <1>8, UserByUser, PTL

LEMMA ErReplyMsg ==
    ASSUME DistinctTypes, TypeOK, MsgInv, ErReply, UNCHANGED <<opVars, utVars>>
    PROVE  MsgInv'
<1> USE PidFacts
<1>1. PICK u \in Users : u = erReq
  BY UserByUser DEF EachOk, NoStrangers, ErReply
<1>2. PICK m : m = TicketResponse(u, ticket_counter)
  OBVIOUS
<1>3. Subject(m) = u /\ mq_send(m) /\ erReq' = 0 /\ utPc[u] = "awaitTicket" /\ UserOk(u)
  BY <1>1, <1>2, UserByUser DEF EachOk, ErReply, Subject, TicketResponse, UserOk
<1>4. Unqueued(u) /\ Unheld(u)'
  BY <1>1, <1>3 DEF UserOk, Unqueued, Unheld, HeldBy, Serving, opVars
<1>5. Belongs(m)'
  BY <1>2, <1>3 DEF Belongs, Subject, TicketResponse, ErReply, TypeOK, ErTypeOK, utVars
<1>6. UserOk(u)'
  BY <1>3, <1>4, <1>5, SentFor
<1>7. NoStrangers'
  <2>1. \A j \in Positions' : Subject(queue'[j]) \in Users
    BY <1>3, QueueOfUsers, UserByUser DEF EachOk
  <2> QED
    BY <1>3, <2>1, UserByUser DEF EachOk, NoStrangers, Serving, Subject, opVars
<1>8. ASSUME NEW v \in Users, v # u PROVE UserOk(v)'
  <2>1. Keeps(v)
    BY <1>1, <1>3, <1>8 DEF ErReply, Keeps, HeldBy, Serving, opVars, utVars, TypeOK, ErTypeOK
  <2> QED
    BY <1>3, <1>8, <2>1, SentKeeps, UserByUser DEF EachOk
<1>9. EachOk'
  BY <1>6, <1>7, <1>8 DEF EachOk
<1> QED
  BY <1>9, UserByUser, PTL
-----------------------------------------------------------------------------
(* The operators.                                                           *)

LEMMA OpPollMsg ==
    ASSUME DistinctTypes, TypeOK, MsgInv, NEW o \in Operators, OpPoll(o),
           UNCHANGED <<erVars, utVars>>
    PROVE  MsgInv'
<1> USE PidFacts
<1>1. CASE UNCHANGED <<queue, opCust, opTicket>> /\ OpGoto(o, "closed?")
  <2>1. Quiet
    BY <1>1 DEF Quiet, OpPoll, OpGoto, OpAt, Serving, TypeOK, OpTypeOK, erVars, utVars
  <2> QED
    BY <2>1, QuietMsgStep
<1>2. ASSUME NEW i \in 1 .. Len(queue), mq_receive(ServiceRequestType(o), i),
             opCust' = [opCust EXCEPT ![o] = queue[i].pid],
             opTicket' = [opTicket EXCEPT ![o] = queue[i].ticket], OpGoto(o, "serve")
      PROVE  MsgInv'
  <2>1. queue[i].kind = "service_request" /\ i \in Positions
    BY <1>2, ReceivePositions, KindOfType DEF MsgInv
  <2>2. PICK u \in Users : u = Subject(queue[i]) /\ u = queue[i].pid
    BY <2>1, UserByUser DEF EachOk, NoStrangers, Subject
  <2>3. Belongs(queue[i]) /\ Unheld(u) /\ Unqueued(u)' /\ UserOk(u)
    BY <1>2, <2>2, ReceivedFor, UserByUser DEF EachOk
  <2>4. /\ Serving(o)' /\ ~Serving(o) /\ opCust'[o] = u /\ opTicket'[o] = queue[i].ticket
        /\ \A p \in Operators \ {o} : /\ Serving(p)' <=> Serving(p)
                                      /\ opCust'[p] = opCust[p] /\ opTicket'[p] = opTicket[p]
    BY <1>2, <2>2 DEF OpPoll, OpAt, OpGoto, Serving, TypeOK, OpTypeOK
  <2>5. NoStrangers'
    <3>1. \A j \in Positions' : Subject(queue'[j]) \in Users
      BY <1>2, QueueOfUsers, UserByUser DEF EachOk
    <3>2. \A p \in Operators : Serving(p)' => opCust'[p] \in Users
      BY <2>4, UserByUser DEF EachOk, NoStrangers
    <3> QED
      BY <3>1, <3>2, UserByUser DEF EachOk, NoStrangers, Serving, Subject, erVars
  <2>6. UserOk(u)'
    BY <2>1, <2>2, <2>3, <2>4
       DEF UserOk, Unqueued, Unheld, HeldBy, InFlight, Belongs, erVars, utVars
  <2>7. ASSUME NEW v \in Users, v # u PROVE UserOk(v)'
    <3>1. Keeps(v)
      BY <2>4, <2>7 DEF Keeps, HeldBy, erVars, utVars, TypeOK, ErTypeOK
    <3> QED
      BY <1>2, <2>2, <2>7, <3>1, ReceivedKeeps, UserByUser DEF EachOk
  <2>8. EachOk'
    BY <2>5, <2>6, <2>7 DEF EachOk
  <2> QED
    BY <2>8, UserByUser, PTL
<1> QED
  BY <1>1, <1>2 DEF OpPoll

LEMMA OpServeMsg ==
    ASSUME DistinctTypes, TypeOK, MsgInv, NEW o \in Operators, OpServe(o),
           UNCHANGED <<erVars, utVars>>
    PROVE  MsgInv'
<1> USE PidFacts
<1>0. Serving(o)
  BY DEF OpServe, OpAt, Serving
<1>1. PICK u \in Users : u = opCust[o]
  BY <1>0, UserByUser DEF EachOk, NoStrangers
<1>2. PICK m : m = ServiceDone(o, u, opTicket[o])
  OBVIOUS
<1>3. /\ Subject(m) = u /\ mq_send(m) /\ UserOk(u) /\ HeldBy(o, u)
      /\ utPc[u] = "awaitDone" /\ opTicket[o] = utTicket[u]
  BY <1>0, <1>1, <1>2, UserByUser DEF EachOk, OpServe, Subject, ServiceDone, UserOk, HeldBy
<1>4. /\ ~Serving(o)'
      /\ \A p \in Operators \ {o} : /\ Serving(p)' <=> Serving(p)
                                    /\ opCust'[p] = opCust[p] /\ opTicket'[p] = opTicket[p]
  BY DEF OpServe, OpAt, OpGoto, Serving, TypeOK, OpTypeOK
<1>5. Unqueued(u) /\ Unheld(u)'
  BY <1>3, <1>4 DEF UserOk, Unqueued, Unheld, HeldBy, erVars
<1>6. Belongs(m)'
  BY <1>2, <1>3 DEF Belongs, Subject, ServiceDone, utVars
<1>7. UserOk(u)'
  BY <1>3, <1>5, <1>6, SentFor
<1>8. NoStrangers'
  <2>1. \A j \in Positions' : Subject(queue'[j]) \in Users
    BY <1>3, QueueOfUsers, UserByUser DEF EachOk
  <2>2. \A p \in Operators : Serving(p)' => opCust'[p] \in Users
    BY <1>4, UserByUser DEF EachOk, NoStrangers
  <2> QED
    BY <2>1, <2>2, UserByUser DEF EachOk, NoStrangers, Serving, Subject, erVars
<1>9. ASSUME NEW v \in Users, v # u PROVE UserOk(v)'
  <2>1. Keeps(v)
    BY <1>1, <1>4, <1>9 DEF Keeps, HeldBy, erVars, utVars, TypeOK, ErTypeOK
  <2> QED
    BY <1>3, <1>9, <2>1, SentKeeps, UserByUser DEF EachOk
<1>10. EachOk'
  BY <1>7, <1>8, <1>9 DEF EachOk
<1> QED
  BY <1>10, UserByUser, PTL
-----------------------------------------------------------------------------
(* The users.                                                               *)

\* Sending: u was waiting for nothing and now waits for what it has sent.
LEMMA UtSends ==
    ASSUME DistinctTypes, TypeOK, MsgInv, NEW u \in Users, utPc[u] \notin Awaiting,
           NEW m, mq_send(m), Subject(m) = u, Belongs(m)',
           UNCHANGED <<erVars, opVars, utTicket, utOp>>,
           \A v \in Users \ {u} : utPc'[v] = utPc[v]
    PROVE  MsgInv'
<1> USE PidFacts
<1>1. Unqueued(u) /\ Unheld(u)
  BY IdleUser
<1>2. UserOk(u)'
  <2>1. Unheld(u)'
    BY <1>1 DEF Unheld, HeldBy, Serving, erVars, opVars
  <2> QED
    BY <1>1, <2>1, SentFor
<1>3. NoStrangers'
  <2>1. \A j \in Positions' : Subject(queue'[j]) \in Users
    BY QueueOfUsers, UserByUser DEF EachOk
  <2> QED
    BY <2>1, UserByUser DEF EachOk, NoStrangers, Serving, Subject, erVars, opVars
<1>4. ASSUME NEW v \in Users, v # u PROVE UserOk(v)'
  <2>1. Keeps(v)
    BY <1>4 DEF Keeps, HeldBy, Serving, erVars, opVars, TypeOK, ErTypeOK
  <2> QED
    BY <1>4, <2>1, SentKeeps, UserByUser DEF EachOk
<1>5. EachOk'
  BY <1>2, <1>3, <1>4 DEF EachOk
<1> QED
  BY <1>5, UserByUser, PTL

\* Receiving: the answer was u's message, and u waits for nothing more.
LEMMA UtReceives ==
    ASSUME DistinctTypes, TypeOK, MsgInv, NEW u \in Users,
           NEW i, mq_receive(u, i),
           UNCHANGED <<erVars, opVars>>, utPc'[u] \notin Awaiting,
           \A v \in Users \ {u} : /\ utPc'[v] = utPc[v]
                                  /\ utTicket'[v] = utTicket[v] /\ utOp'[v] = utOp[v]
    PROVE  MsgInv'
<1> USE PidFacts
<1>1. Subject(queue[i]) = u
  BY ReceivePositions, KindOfType DEF MsgInv
<1>2. UserOk(u)'
  <2>1. Unheld(u) /\ Unqueued(u)'
    BY <1>1, ReceivedFor, UserByUser DEF EachOk
  <2>2. Unheld(u)'
    BY <2>1 DEF Unheld, HeldBy, Serving, erVars, opVars
  <2> QED
    BY <2>1, <2>2 DEF UserOk, Unqueued, Unheld, Awaiting
<1>3. NoStrangers'
  <2>1. \A j \in Positions' : Subject(queue'[j]) \in Users
    BY QueueOfUsers, UserByUser DEF EachOk
  <2> QED
    BY <2>1, UserByUser DEF EachOk, NoStrangers, Serving, Subject, erVars, opVars
<1>4. ASSUME NEW v \in Users, v # u PROVE UserOk(v)'
  <2>1. Keeps(v)
    BY <1>4 DEF Keeps, HeldBy, Serving, erVars, opVars, TypeOK, ErTypeOK
  <2> QED
    BY <1>1, <1>4, <2>1, ReceivedKeeps, UserByUser DEF EachOk
<1>5. EachOk'
  BY <1>2, <1>3, <1>4 DEF EachOk
<1> QED
  BY <1>5, UserByUser, PTL

LEMMA UtMsgStep ==
    ASSUME DistinctTypes, TypeOK, MsgInv, NEW u \in Users, UtNext(u),
           UNCHANGED <<erVars, opVars>>
    PROVE  MsgInv'
<1> USE PidFacts DEF UtAt, Awaiting
<1> DEFINE OthersStay == \A v \in Users \ {u} :
              utPc'[v] = utPc[v] /\ utTicket'[v] = utTicket[v] /\ utOp'[v] = utOp[v]
<1>1. CASE UtRequest(u)
  <2>1. PICK m : m = TicketRequest(u)
    OBVIOUS
  <2>2. mq_send(m) /\ Subject(m) = u /\ utPc[u] \notin Awaiting
    BY <1>1, <2>1 DEF UtRequest, Subject, TicketRequest
  <2>3. utPc'[u] = "awaitTicket" /\ \A v \in Users \ {u} : utPc'[v] = utPc[v]
    BY <1>1 DEF UtRequest, UtGoto, TypeOK, UtTypeOK
  <2>4. Belongs(m)'
    BY <2>1, <2>3 DEF Belongs, Subject, TicketRequest
  <2> QED
    BY <1>1, <2>2, <2>3, <2>4, UtSends DEF UtRequest
<1>2. CASE UtPresent(u)
  <2>1. PICK m : m = ServiceRequest(u, utOp[u], utTicket[u])
    OBVIOUS
  <2>2. mq_send(m) /\ Subject(m) = u /\ utPc[u] \notin Awaiting
    BY <1>2, <2>1 DEF UtPresent, Subject, ServiceRequest
  <2>3. utPc'[u] = "awaitDone" /\ \A v \in Users \ {u} : utPc'[v] = utPc[v]
    BY <1>2 DEF UtPresent, UtGoto, TypeOK, UtTypeOK
  <2>4. Belongs(m)'
    BY <1>2, <2>1, <2>3 DEF Belongs, Subject, ServiceRequest, UtPresent
  <2> QED
    BY <1>2, <2>2, <2>3, <2>4, UtSends DEF UtPresent
<1>3. CASE UtTicket(u)
  <2>1. utPc'[u] \notin Awaiting /\ OthersStay
    BY <1>3 DEF UtTicket, UtGoto, TypeOK, UtTypeOK
  <2> QED
    BY <1>3, <2>1, UtReceives DEF UtTicket
<1>4. CASE UtDone(u)
  <2>1. utPc'[u] \notin Awaiting /\ OthersStay
    BY <1>4 DEF UtDone, UtGoto, ServiceOver, TypeOK, UtTypeOK
  <2> QED
    BY <1>4, <2>1, UtReceives DEF UtDone
<1>5. ASSUME \/ UtDayStart(u) \/ UtDecide(u) \/ UtEnter(u) \/ UtWalkIn(u)
             \/ UtNextService(u) \/ UtLateHome(u) \/ UtLook(u) \/ UtClaim(u)
             \/ UtSeatWait(u) \/ UtReadOp(u) \/ UtServed(u) \/ UtLate(u) \/ UtFree(u)
      PROVE  UNCHANGED queue /\ utPc[u] \notin Awaiting /\ utPc'[u] \notin Awaiting /\ OthersStay
  <2> USE DEF UtGoto, ServiceOver, TypeOK, UtTypeOK, sharedVars
  <2>1. CASE UtDayStart(u)
    BY <2>1 DEF UtDayStart
  <2>2. CASE UtDecide(u)
    BY <2>2 DEF UtDecide, PlanDay
  <2>3. CASE UtEnter(u)
    BY <2>3 DEF UtEnter
  <2>4. CASE UtWalkIn(u)
    BY <2>4 DEF UtWalkIn
  <2>5. CASE UtNextService(u)
    BY <2>5 DEF UtNextService
  <2>6. CASE UtLateHome(u)
    BY <2>6 DEF UtLateHome
  <2>7. CASE UtLook(u)
    BY <2>7 DEF UtLook
  <2>8. CASE UtClaim(u)
    BY <2>8 DEF UtClaim
  <2>9. CASE UtSeatWait(u)
    BY <2>9 DEF UtSeatWait
  <2>10. CASE UtReadOp(u)
    BY <2>10 DEF UtReadOp
  <2>11. CASE UtServed(u)
    BY <2>11 DEF UtServed
  <2>12. CASE UtLate(u)
    BY <2>12 DEF UtLate
  <2>13. CASE UtFree(u)
    BY <2>13 DEF UtFree
  <2> QED
    BY <1>5, <2>1, <2>2, <2>3, <2>4, <2>5, <2>6, <2>7, <2>8,
       <2>9, <2>10, <2>11, <2>12, <2>13
<1>6. ASSUME UNCHANGED queue, utPc[u] \notin Awaiting, utPc'[u] \notin Awaiting, OthersStay
      PROVE  MsgInv'
  <2>1. Quiet
    BY <1>6 DEF Quiet, Serving, erVars, opVars
  <2> QED
    BY <2>1, QuietMsgStep
<1> QED
  BY <1>1, <1>2, <1>3, <1>4, <1>5, <1>6 DEF UtNext
-----------------------------------------------------------------------------
(* All together.                                                            *)

LEMMA OpMsgStep ==
    ASSUME DistinctTypes, TypeOK, MsgInv, NEW o \in Operators, OpNext(o),
           UNCHANGED <<erVars, utVars>>
    PROVE  MsgInv'
<1>1. CASE OpPoll(o)
  BY <1>1, OpPollMsg
<1>2. CASE OpServe(o)
  BY <1>2, OpServeMsg
<1>3. CASE ~OpPoll(o) /\ ~OpServe(o)
  <2> DEFINE Apart == /\ UNCHANGED <<queue, opCust, opTicket>>
                      /\ opPc[o] # "serve" /\ opPc'[o] # "serve"
                      /\ \A p \in Operators \ {o} : opPc'[p] = opPc[p]
  <2> USE DEF OpAt, OpGoto, TypeOK, OpTypeOK, sharedVars
  <2>1. ASSUME OpDayStart(o) \/ OpEnter(o) \/ OpCanWorkToday(o) PROVE Apart
    BY <2>1 DEF OpDayStart, OpEnter, OpCanWorkToday
  <2>2. ASSUME OpSeek(o) \/ OpTake(o) \/ OpLeave(o) \/ OpSignal(o) PROVE Apart
    BY <2>2 DEF OpSeek, OpTake, OpLeave, OpSignal
  <2>3. ASSUME OpStationEvent(o) \/ OpStationTimeout(o) \/ OpTimedOut(o) PROVE Apart
    BY <2>3 DEF OpStationEvent, OpStationTimeout, OpTimedOut
  <2>4. ASSUME OpScan(o) \/ did_poste_close(o) PROVE Apart
    BY <2>4 DEF OpScan, did_poste_close
  <2>5. Apart
    BY <1>3, <2>1, <2>2, <2>3, <2>4 DEF OpNext
  <2>6. Quiet
    BY <2>5 DEF Quiet, Serving, erVars, utVars
  <2> QED
    BY <2>6, QuietMsgStep
<1> QED
  BY <1>1, <1>2, <1>3

LEMMA MsgStep ==
    ASSUME DistinctTypes, TypeOK, MsgInv, [Next]_vars
    PROVE  MsgInv'
<1>1. CASE ErStep
  BY <1>1, ErReceiveMsg, ErReplyMsg DEF ErStep, ErNext
<1>2. ASSUME NEW o \in Operators, OpStep(o) PROVE MsgInv'
  BY <1>2, OpMsgStep DEF OpStep
<1>3. ASSUME NEW u \in Users, UtStep(u) PROVE MsgInv'
  BY <1>3, UtMsgStep DEF UtStep
<1>4. CASE DirStep
  <2>1. UNCHANGED queue
    BY <1>4 DEF DirStep, DirNext, DirMinute, DirClosing, DirMidnight, DirNewDay, DirSeats,
                DirAnnounce, DirAdvance, DirTerminate, DirReport, sharedVars
  <2>2. Quiet
    BY <1>4, <2>1 DEF DirStep, Quiet, Serving, erVars, opVars, utVars
  <2> QED
    BY <2>2, QuietMsgStep
<1>5. CASE UNCHANGED vars
  <2>1. Quiet
    BY <1>5 DEF vars, sharedVars, Quiet, Serving, erVars, opVars, utVars
  <2> QED
    BY <2>1, QuietMsgStep
<1> QED
  BY <1>1, <1>2, <1>3, <1>4, <1>5 DEF Next

LEMMA MsgInit == Init => MsgInv
<1> SUFFICES ASSUME Init PROVE MsgInv
  OBVIOUS
<1>1. Positions = {} /\ erReq = 0
  BY DEF Init, SharedInit, ErInit, Positions
<1>2. \A o \in Operators : ~Serving(o)
  BY DEF Init, OpInit, Serving
<1>3. \A u \in Users : utPc[u] = "dayWait"
  BY DEF Init, UtInit
<1> QED
  BY <1>1, <1>2, <1>3 DEF MsgInv, RepliesMatch, OneMessagePerUser, NothingLost

\* Every message in the queue and every request being worked on belongs to a user
\* who is blocked waiting for its outcome, with that user's ticket
\* (utente.c:45-99, operatore.c:278-306, erogatore_ticket.c:34-54).
THEOREM RepliesCorrect ==
    ASSUME DistinctTypes
    PROVE  Spec => []RepliesMatch
<1>1. MsgInv => RepliesMatch
  BY DEF MsgInv
<1>2. TypeOK /\ MsgInv /\ [Next]_vars => MsgInv'
  BY MsgStep
<1> QED
  BY <1>1, <1>2, MsgInit, TypeCorrect, PTL DEF Spec

\* No user has two requests about: not two messages, not a message and a server,
\* not two servers (operatore.c:262-306, erogatore_ticket.c:34-54).
THEOREM OneMessageCorrect ==
    ASSUME DistinctTypes
    PROVE  Spec => []OneMessagePerUser
<1>1. MsgInv => OneMessagePerUser
  BY DEF MsgInv
<1>2. TypeOK /\ MsgInv /\ [Next]_vars => MsgInv'
  BY MsgStep
<1> QED
  BY <1>1, <1>2, MsgInit, TypeCorrect, PTL DEF Spec

\* A user blocked in a receive has its request in the queue or in somebody's
\* hands (utente.c:45-99).
THEOREM NothingLostCorrect ==
    ASSUME DistinctTypes
    PROVE  Spec => []NothingLost
<1>1. MsgInv => NothingLost
  BY DEF MsgInv
<1>2. TypeOK /\ MsgInv /\ [Next]_vars => MsgInv'
  BY MsgStep
<1> QED
  BY <1>1, <1>2, MsgInit, TypeCorrect, PTL DEF Spec

\* With room for one message per user the queue is never full when somebody sends:
\* messages belong to different users, and none to the sender's (msg_queue.c:10-18).
LEMMA RoomToSend ==
    ASSUME DistinctTypes, TypeOK, MsgInv
    PROVE  SendsNeverBlock
<1> USE PidFacts
<1> SUFFICES ASSUME QueueCapacity >= Cardinality(Users), AboutToSend
             PROVE  Len(queue) < QueueCapacity
  BY DEF SendsNeverBlock
<1>1. PICK u \in Users : Unqueued(u)
  <2>1. CASE erReq # 0
    BY <2>1 DEF MsgInv, RepliesMatch, OneMessagePerUser, Unqueued
  <2>2. CASE \E o \in Operators : Serving(o)
    BY <2>2 DEF MsgInv, RepliesMatch, OneMessagePerUser, Unqueued
  <2>3. CASE \E u \in Users : utPc[u] \in {"request", "present"}
    BY <2>3, IdleUser DEF Awaiting
  <2> QED
    BY <2>1, <2>2, <2>3 DEF AboutToSend
<1> DEFINE f == [i \in Positions |-> Subject(queue[i])]
           T == Users \ {u}
<1>2. f \in Injection(Positions, T)
  <2>1. \A i \in Positions : Subject(queue[i]) \in T
    BY <1>1 DEF MsgInv, RepliesMatch, Belongs, Unqueued
  <2> QED
    BY <2>1 DEF MsgInv, OneMessagePerUser, Injection, IsInjective
<1>3. IsFiniteSet(T) /\ Cardinality(T) = Cardinality(Users) - 1
  BY PidAssumption, FS_RemoveElement
<1> HIDE DEF f, T
<1>4. Cardinality(Positions) <= Cardinality(T)
  BY <1>2, <1>3, FS_Injection
<1>5. Len(queue) \in Nat /\ Cardinality(Positions) = Len(queue)
  <2>1. Len(queue) \in Nat
    BY DEF TypeOK, SharedTypeOK
  <2>2. Cardinality(1 .. Len(queue)) = IF 1 > Len(queue) THEN 0 ELSE Len(queue) - 1 + 1
    <3> DEFINE n == Len(queue)
    <3>1. n \in Int /\ 1 \in Int
      BY <2>1
    <3> HIDE DEF n
    <3>2. Cardinality(1 .. n) = IF 1 > n THEN 0 ELSE n - 1 + 1
      BY <3>1, FS_Interval, ZenonT(20)
    <3> QED
      BY <3>2 DEF n
  <2> QED
    BY <2>1, <2>2 DEF Positions
<1> QED
  BY <1>3, <1>4, <1>5, ConfigAssumption

THEOREM SendsCorrect ==
    ASSUME DistinctTypes
    PROVE  Spec => []SendsNeverBlock
<1>1. TypeOK /\ MsgInv => SendsNeverBlock
  BY RoomToSend
<1>2. TypeOK /\ MsgInv /\ [Next]_vars => MsgInv'
  BY MsgStep
<1> QED
  BY <1>1, <1>2, MsgInit, TypeCorrect, PTL DEF Spec
=============================================================================
