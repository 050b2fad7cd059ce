--------------------------- MODULE DirezioneProofs ---------------------------
(***************************************************************************)
(* Requests for users and the array of children, for any number of         *)
(* clients, requests of any size and any number of directors.  A request   *)
(* is in at most one place: not sent yet, in the queue, in the director's  *)
(* hands, answered, or lost with a director or with its queue; how many    *)
(* users it has brought follows from where it is.  Then load_config, line  *)
(* by line; the director's children, files and clean-up; and that it runs  *)
(* on what its file says.                                                  *)
(***************************************************************************)
EXTENDS Direzione, DataLemmas, FunctionTheorems

Note == [kind : {"request", "done"}, of : Clients]
ClPcs == {"start", "opened", "sent", "success", "unread success", "failed"}

RequestTypes ==
    /\ mq \in Seq(Note)
    /\ clPc \in [Clients -> ClPcs]
    /\ added \in [Clients -> Nat]
    /\ client \in Clients /\ left \in Nat

InHand(c) == dirPc = "adding" /\ client = c
Queued(c) == \E i \in 1 .. Len(mq) : mq[i].of = c

\* Where the request of client c is, and what has come of it.
RequestAt(c) ==
    /\ \A i, j \in 1 .. Len(mq) : mq[i].of = c /\ mq[j].of = c => i = j
    /\ \A i \in 1 .. Len(mq) :
          mq[i].of = c => added[c] = IF mq[i].kind = "request" THEN 0 ELSE NewUsers[c]
    /\ InHand(c) => ~Queued(c) /\ added[c] + left = NewUsers[c]
    /\ clPc[c] \in {"start", "opened"} => ~Queued(c) /\ ~InHand(c) /\ added[c] = 0
    /\ clPc[c] = "success" => ~Queued(c) /\ ~InHand(c) /\ added[c] = NewUsers[c]
    /\ added[c] <= NewUsers[c]

RequestInv == RequestTypes /\ \A c \in Clients : RequestAt(c)
-----------------------------------------------------------------------------
LEMMA SizeFact == \A c \in Clients : NewUsers[c] \in Nat \ {0}
BY ClientAssumption

LEMMA RequestInit == Clients # {} /\ Init => RequestInv
<1> SUFFICES ASSUME Clients # {}, Init PROVE RequestInv
  OBVIOUS
<1>1. RequestTypes
  BY DEF Init, RequestTypes, SomeClient, ClPcs
<1>2. ASSUME NEW c \in Clients PROVE RequestAt(c)
  BY SizeFact DEF Init, RequestAt, InHand, Queued
<1> QED
  BY <1>1, <1>2 DEF RequestInv

\* Steps that leave the requests alone, or lose the one in hand: it has brought no
\* more users than it was to bring.
LEMMA QuietStep ==
    ASSUME RequestInv, UNCHANGED <<mq, clPc, added>>,
           dirPc' # "adding", client' \in Clients, left' \in Nat
    PROVE  RequestInv'
<1>1. RequestTypes'
  BY DEF RequestInv, RequestTypes
<1>2. ASSUME NEW c \in Clients PROVE RequestAt(c)'
  BY DEF RequestInv, RequestAt, InHand, Queued
<1> QED
  BY <1>1, <1>2 DEF RequestInv

\* A queue that is removed takes its messages along.
LEMMA EmptiedStep ==
    ASSUME RequestInv, mq' = << >>, UNCHANGED <<clPc, added, client, left>>,
           dirPc' # "adding"
    PROVE  RequestInv'
<1>1. RequestTypes'
  BY DEF RequestInv, RequestTypes
<1>2. ASSUME NEW c \in Clients PROVE RequestAt(c)'
  BY <1>1 DEF RequestInv, RequestAt, InHand, Queued
<1> QED
  BY <1>1, <1>2 DEF RequestInv

\* The message at position i is received by somebody: its sender has no other, and
\* what the rest of the queue holds was there before.
LEMMA Received ==
    ASSUME RequestInv, NEW i \in 1 .. Len(mq), mq' = RemoveAt(mq, i)
    PROVE  /\ mq' \in Seq(Note)
           /\ \A j \in 1 .. Len(mq') : mq'[j].of # mq[i].of
           /\ \A j \in 1 .. Len(mq') :
                 \E k \in 1 .. Len(mq) : mq'[j] = mq[k] /\ k # i
           /\ \A c \in Clients :
                 \A j, k \in 1 .. Len(mq') : mq'[j].of = c /\ mq'[k].of = c => j = k
<1>0. mq \in Seq(Note) /\ Len(mq) \in Nat
  BY DEF RequestInv, RequestTypes
<1>1. /\ mq' \in Seq(Note) /\ Len(mq') = Len(mq) - 1
      /\ \A j \in 1 .. Len(mq') : mq'[j] = IF j < i THEN mq[j] ELSE mq[j + 1]
  BY <1>0, RemoveAtProperties
<1>2. ASSUME NEW j \in 1 .. Len(mq')
      PROVE  /\ (IF j < i THEN j ELSE j + 1) \in 1 .. Len(mq)
             /\ mq'[j] = mq[IF j < i THEN j ELSE j + 1]
  BY <1>0, <1>1
<1>3. \A j \in 1 .. Len(mq') : \E k \in 1 .. Len(mq) : mq'[j] = mq[k] /\ k # i
  BY <1>0, <1>2
<1>4. mq[i] \in Note
  BY <1>0
<1>5. \A j \in 1 .. Len(mq') : mq'[j].of # mq[i].of
  BY <1>3, <1>4 DEF RequestInv, RequestAt, Note
<1>6. ASSUME NEW c \in Clients, NEW j \in 1 .. Len(mq'), NEW k \in 1 .. Len(mq'),
             mq'[j].of = c, mq'[k].of = c
      PROVE  j = k
  <2> DEFINE J == IF j < i THEN j ELSE j + 1
             K == IF k < i THEN k ELSE k + 1
  <2>1. /\ J \in 1 .. Len(mq) /\ mq[J].of = c
        /\ K \in 1 .. Len(mq) /\ mq[K].of = c
    BY <1>2, <1>6
  <2>2. J = K
    BY <2>1 DEF RequestInv, RequestAt
  <2> QED
    BY <2>2, <1>0, <1>1
<1>7. \A c \in Clients :
         \A j, k \in 1 .. Len(mq') : mq'[j].of = c /\ mq'[k].of = c => j = k
  BY <1>6
<1>8. mq' \in Seq(Note)
  BY <1>1
<1> QED
  BY <1>3, <1>5, <1>7, <1>8, Zenon
-----------------------------------------------------------------------------
LEMMA TakeStep == ASSUME RequestInv, DirTakeRequest PROVE RequestInv'
<1>1. PICK i \in 1 .. Len(mq) :
         mq[i].kind = "request" /\ mq' = RemoveAt(mq, i) /\ client' = mq[i].of
  BY DEF DirTakeRequest, TakeRequest
<1>2. /\ dirPc = "check" /\ dirPc' = "adding" /\ left' = NewUsers[client']
      /\ UNCHANGED <<clPc, added>>
  BY DEF DirTakeRequest, TakeRequest, At, Goto, clients
<1>3. client' \in Clients
  <2>1. mq[i] \in Note
    BY DEF RequestInv, RequestTypes
  <2> QED
    BY <2>1, <1>1 DEF Note
<1>4. /\ mq' \in Seq(Note)
      /\ \A j \in 1 .. Len(mq') : mq'[j].of # client'
      /\ \A j \in 1 .. Len(mq') : \E k \in 1 .. Len(mq) : mq'[j] = mq[k] /\ k # i
      /\ \A c \in Clients :
            \A j, k \in 1 .. Len(mq') : mq'[j].of = c /\ mq'[k].of = c => j = k
  BY <1>1, Received
<1>5. RequestTypes'
  BY <1>2, <1>3, <1>4, SizeFact DEF RequestInv, RequestTypes
<1>6. ASSUME NEW c \in Clients PROVE RequestAt(c)'
  <2>1. RequestAt(c) /\ NewUsers[c] \in Nat
    BY SizeFact DEF RequestInv
  <2>2. Queued(c)' => Queued(c)
    BY <1>4 DEF Queued
  <2>3. CASE c = client'
    <3>1. added[c] = 0 /\ Queued(c)
      BY <2>1, <2>3, <1>1 DEF RequestAt, Queued
    <3>2. clPc[c] \notin {"start", "opened", "success"}
      BY <2>1, <3>1 DEF RequestAt
    <3>3. ~Queued(c)'
      BY <1>4, <2>3 DEF Queued
    <3> QED
      BY <3>1, <3>2, <3>3, <2>1, <2>3, <1>2 DEF RequestAt, InHand, Queued
  <2>4. CASE c # client'
    <3>1. ~InHand(c)'
      BY <2>4 DEF InHand
    <3>2. \A j \in 1 .. Len(mq') :
             mq'[j].of = c => added[c] = IF mq'[j].kind = "request" THEN 0 ELSE NewUsers[c]
      BY <1>4, <2>1 DEF RequestAt
    <3> QED
      BY <3>1, <3>2, <2>1, <2>2, <1>2, <1>4 DEF RequestAt
  <2> QED
    BY <2>3, <2>4
<1> QED
  BY <1>5, <1>6 DEF RequestInv

\* One more user for the request in hand: one fewer to come.
LEMMA AddStep == ASSUME RequestInv, DirAddUser PROVE RequestInv'
<1>1. /\ dirPc = "adding" /\ left > 0 /\ left' = left - 1
      /\ added' = [added EXCEPT ![client] = @ + 1]
      /\ UNCHANGED <<mq, clPc, dirPc, client>>
  BY DEF DirAddUser, At, ipc, clients
<1>2. RequestTypes'
  BY <1>1 DEF RequestInv, RequestTypes
<1>3. ASSUME NEW c \in Clients PROVE RequestAt(c)'
  <2>1. RequestAt(c) /\ NewUsers[c] \in Nat /\ RequestTypes
    BY SizeFact DEF RequestInv
  <2>2. CASE c = client
    <3>1. ~Queued(c) /\ added[c] + left = NewUsers[c] /\ InHand(c)
      BY <2>1, <2>2, <1>1 DEF RequestAt, InHand
    <3>2. clPc[c] \notin {"start", "opened", "success"}
      BY <2>1, <3>1 DEF RequestAt
    <3>3. ~Queued(c)'
      BY <3>1, <1>1 DEF Queued
    <3>4. added'[c] = added[c] + 1 /\ added[c] \in Nat /\ left \in Nat
      BY <2>1, <2>2, <1>1 DEF RequestTypes
    <3>5. added'[c] + left' = NewUsers[c] /\ added'[c] <= NewUsers[c]
      BY <3>1, <3>4, <1>1, <2>1
    <3> QED
      BY <3>2, <3>3, <3>5, <1>1 DEF RequestAt, Queued
  <2>3. CASE c # client
    <3>1. added'[c] = added[c]
      BY <2>1, <2>3, <1>1 DEF RequestTypes
    <3> QED
      BY <3>1, <2>1, <2>3, <1>1 DEF RequestAt, InHand, Queued
  <2> QED
    BY <2>2, <2>3
<1> QED
  BY <1>2, <1>3 DEF RequestInv

\* A message of a client that has none in the queue.
LEMMA Sent ==
    ASSUME RequestInv, NEW m \in Note, mq' = Append(mq, m), ~Queued(m.of)
    PROVE  /\ mq' \in Seq(Note)
           /\ \A c \in Clients : c # m.of => (Queued(c)' <=> Queued(c))
           /\ \A c \in Clients \ {m.of} : \A j \in 1 .. Len(mq') :
                 mq'[j].of = c => j \in 1 .. Len(mq) /\ mq'[j] = mq[j]
           /\ \A j \in 1 .. Len(mq') : mq'[j].of = m.of => j = Len(mq') /\ mq'[j] = m
<1>0. mq \in Seq(Note) /\ Len(mq) \in Nat
  BY DEF RequestInv, RequestTypes
<1>1. /\ mq' \in Seq(Note) /\ Len(mq') = Len(mq) + 1
      /\ \A j \in 1 .. Len(mq) : mq'[j] = mq[j]
      /\ mq'[Len(mq) + 1] = m
  BY <1>0
<1>2. \A j \in 1 .. Len(mq') : j \in 1 .. Len(mq) \/ j = Len(mq) + 1
  BY <1>0, <1>1
<1> QED
  BY <1>0, <1>1, <1>2 DEF Queued

LEMMA ReplyStep == ASSUME RequestInv, DirReply PROVE RequestInv'
<1>1. /\ dirPc = "adding" /\ left = 0 /\ left' = 0 /\ dirPc' = "minute"
      /\ mq' = Append(mq, Done(client))
      /\ UNCHANGED <<clPc, added, client>>
  BY DEF DirReply, Reply, MinuteOver, At, Goto, people, clients
<1>2. /\ client \in Clients /\ InHand(client)
      /\ Done(client) \in Note /\ Done(client).of = client /\ Done(client).kind = "done"
  BY <1>1 DEF RequestInv, RequestTypes, InHand, Note, Done
<1>3. /\ ~Queued(client) /\ added[client] = NewUsers[client]
      /\ clPc[client] \notin {"start", "opened", "success"}
  BY <1>1, <1>2, SizeFact DEF RequestInv, RequestAt, RequestTypes
<1> HIDE DEF Done
<1>4. /\ mq' \in Seq(Note)
      /\ \A c \in Clients : c # client => (Queued(c)' <=> Queued(c))
      /\ \A c \in Clients \ {client} : \A j \in 1 .. Len(mq') :
            mq'[j].of = c => j \in 1 .. Len(mq) /\ mq'[j] = mq[j]
      /\ \A j \in 1 .. Len(mq') : mq'[j].of = client => j = Len(mq') /\ mq'[j] = Done(client)
  BY <1>1, <1>2, <1>3, Sent
<1>5. RequestTypes'
  BY <1>1, <1>4 DEF RequestInv, RequestTypes
<1>6. ASSUME NEW c \in Clients PROVE RequestAt(c)'
  <2>1. RequestAt(c) /\ NewUsers[c] \in Nat
    BY SizeFact DEF RequestInv
  <2>2. ~InHand(c)'
    BY <1>1 DEF InHand
  <2>3. CASE c = client
    BY <2>1, <2>2, <2>3, <1>1, <1>2, <1>3, <1>4 DEF RequestAt
  <2>4. CASE c # client
    <3>1. ~InHand(c)
      BY <2>4 DEF InHand
    <3>2. Queued(c)' <=> Queued(c)
      BY <2>4, <1>4
    <3> QED
      BY <3>1, <3>2, <2>1, <2>2, <2>4, <1>1, <1>4 DEF RequestAt
  <2> QED
    BY <2>3, <2>4
<1> QED
  BY <1>5, <1>6 DEF RequestInv
-----------------------------------------------------------------------------
LEMMA ClOpenStep ==
    ASSUME RequestInv, NEW c \in Clients, ClOpen(c) PROVE RequestInv'
<1>1. /\ clPc[c] = "start" /\ UNCHANGED <<mq, added, dirPc, client, left>>
      /\ \/ clPc' = [clPc EXCEPT ![c] = "failed"]
         \/ clPc' = [clPc EXCEPT ![c] = "opened"]
  BY DEF ClOpen, ClGoto, ipc, people
<1>2. RequestTypes'
  BY <1>1 DEF RequestInv, RequestTypes, ClPcs
<1>3. ASSUME NEW d \in Clients PROVE RequestAt(d)'
  <2>1. clPc'[d] = clPc[d] \/ (d = c /\ clPc'[d] \in {"opened", "failed"})
    BY <1>1 DEF RequestInv, RequestTypes
  <2>2. RequestAt(d)
    BY DEF RequestInv
  <2> QED
    BY <2>1, <2>2, <1>1 DEF RequestAt, InHand, Queued
<1> QED
  BY <1>2, <1>3 DEF RequestInv

LEMMA ClSendStep ==
    ASSUME RequestInv, NEW c \in Clients, ClSend(c) PROVE RequestInv'
<1>1. clPc[c] = "opened" /\ UNCHANGED <<added, dirPc, client, left>>
  BY DEF ClSend, people
<1>2. CASE UNCHANGED mq /\ clPc' = [clPc EXCEPT ![c] = "failed"]
  <2>1. RequestTypes'
    BY <1>1, <1>2 DEF RequestInv, RequestTypes, ClPcs
  <2>2. ASSUME NEW d \in Clients PROVE RequestAt(d)'
    <3>1. clPc'[d] = clPc[d] \/ clPc'[d] = "failed"
      BY <1>2 DEF RequestInv, RequestTypes
    <3>2. RequestAt(d)
      BY DEF RequestInv
    <3> QED
      BY <3>1, <3>2, <1>1, <1>2 DEF RequestAt, InHand, Queued
  <2> QED
    BY <2>1, <2>2 DEF RequestInv
<1>3. CASE mq' = Append(mq, Request(c)) /\ clPc' = [clPc EXCEPT ![c] = "sent"]
  <2>1. Request(c) \in Note /\ Request(c).of = c /\ Request(c).kind = "request"
    BY DEF Request, Note
  <2>2. ~Queued(c) /\ ~InHand(c) /\ added[c] = 0
    BY <1>1 DEF RequestInv, RequestAt
  <2> HIDE DEF Request
  <2>3. /\ mq' \in Seq(Note)
        /\ \A d \in Clients : d # c => (Queued(d)' <=> Queued(d))
        /\ \A d \in Clients \ {c} : \A j \in 1 .. Len(mq') :
              mq'[j].of = d => j \in 1 .. Len(mq) /\ mq'[j] = mq[j]
        /\ \A j \in 1 .. Len(mq') : mq'[j].of = c => j = Len(mq') /\ mq'[j] = Request(c)
    BY <1>3, <2>1, <2>2, Sent
  <2>4. RequestTypes'
    BY <1>1, <1>3, <2>3 DEF RequestInv, RequestTypes, ClPcs
  <2>5. ASSUME NEW d \in Clients PROVE RequestAt(d)'
    <3>1. RequestAt(d) /\ NewUsers[d] \in Nat
      BY SizeFact DEF RequestInv
    <3>2. CASE d = c
      <4>1. clPc'[d] = "sent" /\ ~InHand(d)'
        BY <3>2, <1>1, <1>3, <2>2 DEF RequestInv, RequestTypes, InHand
      <4> QED
        BY <4>1, <3>1, <3>2, <1>1, <2>1, <2>2, <2>3 DEF RequestAt
    <3>3. CASE d # c
      <4>1. clPc'[d] = clPc[d]
        BY <3>3, <1>3 DEF RequestInv, RequestTypes
      <4>2. (Queued(d)' <=> Queued(d)) /\ (InHand(d)' <=> InHand(d))
        BY <3>3, <1>1, <2>3 DEF InHand
      <4> QED
        BY <4>1, <4>2, <3>1, <3>3, <1>1, <2>3 DEF RequestAt
    <3> QED
      BY <3>2, <3>3
  <2> QED
    BY <2>4, <2>5 DEF RequestInv
<1> QED
  BY <1>2, <1>3 DEF ClSend, ClGoto

LEMMA ClReceiveStep ==
    ASSUME RequestInv, NEW c \in Clients, ClReceive(c) PROVE RequestInv'
<1>1. PICK i \in 1 .. Len(mq) : mq[i] = Done(c) /\ mq' = RemoveAt(mq, i)
  BY DEF ClReceive, IsFirst
<1>2. /\ clPc[c] = "sent" /\ clPc' = [clPc EXCEPT ![c] = "success"]
      /\ UNCHANGED <<added, dirPc, client, left>>
  BY DEF ClReceive, ClGoto, people
<1>3. mq[i].of = c /\ mq[i].kind = "done"
  BY <1>1 DEF Done
<1>4. /\ mq' \in Seq(Note)
      /\ \A j \in 1 .. Len(mq') : mq'[j].of # c
      /\ \A j \in 1 .. Len(mq') : \E k \in 1 .. Len(mq) : mq'[j] = mq[k] /\ k # i
      /\ \A d \in Clients :
            \A j, k \in 1 .. Len(mq') : mq'[j].of = d /\ mq'[k].of = d => j = k
  BY <1>1, <1>3, Received
<1>5. RequestTypes'
  BY <1>2, <1>4 DEF RequestInv, RequestTypes, ClPcs
<1>6. ASSUME NEW d \in Clients PROVE RequestAt(d)'
  <2>1. RequestAt(d)
    BY DEF RequestInv
  <2>2. (Queued(d)' => Queued(d)) /\ (InHand(d)' <=> InHand(d))
    BY <1>2, <1>4 DEF Queued, InHand
  <2>3. \A j \in 1 .. Len(mq') :
           mq'[j].of = d => added[d] = IF mq'[j].kind = "request" THEN 0 ELSE NewUsers[d]
    BY <1>4, <2>1 DEF RequestAt
  <2>4. CASE d = c
    <3>1. Queued(d) /\ added[d] = NewUsers[d]
      BY <2>1, <2>4, <1>3 DEF RequestAt, Queued
    <3>2. ~InHand(d)
      BY <2>1, <3>1 DEF RequestAt
    <3>3. clPc'[d] = "success" /\ ~Queued(d)'
      BY <2>4, <1>2, <1>4 DEF RequestInv, RequestTypes, Queued
    <3> QED
      BY <3>1, <3>2, <3>3, <2>1, <2>2, <2>3, <1>2, <1>4 DEF RequestAt
  <2>5. CASE d # c
    <3>1. clPc'[d] = clPc[d]
      BY <2>5, <1>2 DEF RequestInv, RequestTypes
    <3> QED
      BY <3>1, <2>1, <2>2, <2>3, <1>2, <1>4 DEF RequestAt
  <2> QED
    BY <2>4, <2>5
<1> QED
  BY <1>5, <1>6 DEF RequestInv

LEMMA ClRemovedStep ==
    ASSUME RequestInv, NEW c \in Clients, ClRemoved(c) PROVE RequestInv'
<1>1. UNCHANGED <<mq, added, dirPc, client, left>>
  BY DEF ClRemoved, ipc, people
<1>2. PICK result \in {"unread success", "failed"} : clPc' = [clPc EXCEPT ![c] = result]
  BY DEF ClRemoved, ClGoto
<1>3. RequestTypes'
  BY <1>1, <1>2 DEF RequestInv, RequestTypes, ClPcs
<1>4. ASSUME NEW d \in Clients PROVE RequestAt(d)'
  <2>1. clPc'[d] = clPc[d] \/ clPc'[d] \in {"unread success", "failed"}
    BY <1>2 DEF RequestInv, RequestTypes
  <2>2. RequestAt(d)
    BY DEF RequestInv
  <2> QED
    BY <2>1, <2>2, <1>1 DEF RequestAt, InHand, Queued
<1> QED
  BY <1>3, <1>4 DEF RequestInv
-----------------------------------------------------------------------------
LEMMA RequestNext == RequestInv /\ [Next]_vars => RequestInv'
<1> SUFFICES ASSUME RequestInv, [Next]_vars PROVE RequestInv'
  OBVIOUS
<1>0. client \in Clients /\ left \in Nat
  BY DEF RequestInv, RequestTypes
<1> USE DEF At, Goto, ipc, people, clock, clients, history
<1>1. CASE DirStart
  BY <1>0, <1>1, QuietStep DEF DirStart
<1>2. CASE DirOpenQueues
  BY <1>0, <1>2, QuietStep DEF DirOpenQueues
<1>3. CASE DirMapMemory
  BY <1>0, <1>3, QuietStep DEF DirMapMemory
<1>4. CASE DirLoadConfig
  BY <1>0, <1>4, QuietStep DEF DirLoadConfig, Configured
<1>5. CASE DirSpawn
  BY <1>0, <1>5, QuietStep DEF DirSpawn
<1>6. CASE DirMinute
  BY <1>0, <1>6, QuietStep DEF DirMinute
<1>7. CASE DirNoRequest
  BY <1>0, <1>7, QuietStep DEF DirNoRequest, MinuteOver
<1>8. CASE DirTakeRequest
  BY <1>8, TakeStep
<1>9. CASE DirAddUser
  BY <1>9, AddStep
<1>10. CASE DirReply
  BY <1>10, ReplyStep
<1>11. CASE DirKill
  BY <1>0, <1>11, QuietStep DEF DirKill
<1>12. CASE DirRemoveQueues
  BY <1>12, EmptiedStep DEF DirRemoveQueues, RemoveUsersQueue
<1>13. CASE DirUnlink
  BY <1>0, <1>13, QuietStep DEF DirUnlink
<1>14. CASE DirDies
  BY <1>0, <1>14, QuietStep DEF DirDies
<1>15. CASE Ipcrm
  BY <1>15, EmptiedStep DEF Ipcrm, RemoveUsersQueue
<1>16. CASE \E c \in Clients : ClStep(c)
  BY <1>16, ClOpenStep, ClSendStep, ClReceiveStep, ClRemovedStep DEF ClStep
<1>17. CASE UNCHANGED vars
  <2>1. UNCHANGED <<mq, clPc, added, dirPc, client, left>>
    BY <1>17 DEF vars
  <2>2. RequestTypes'
    BY <2>1 DEF RequestInv, RequestTypes
  <2>3. ASSUME NEW c \in Clients PROVE RequestAt(c)'
    BY <2>1 DEF RequestInv, RequestAt, InHand, Queued
  <2> QED
    BY <2>2, <2>3 DEF RequestInv
<1> QED
  BY <1>1, <1>2, <1>3, <1>4, <1>5, <1>6, <1>7, <1>8, <1>9, <1>10, <1>11, <1>12, <1>13,
     <1>14, <1>15, <1>16, <1>17 DEF Next, DirStep

LEMMA RequestOnceHolds == RequestInv => RequestOnce
<1> SUFFICES ASSUME RequestInv, NEW c \in Clients
             PROVE  /\ added[c] <= NewUsers[c]
                    /\ (clPc[c] = "success" \/ \E i \in 1 .. Len(mq) : mq[i] = Done(c))
                          => added[c] = NewUsers[c]
  BY DEF RequestOnce
<1>1. RequestAt(c)
  BY DEF RequestInv
<1>2. \A i \in 1 .. Len(mq) : mq[i] = Done(c) => mq[i].of = c /\ mq[i].kind = "done"
  BY DEF Done
<1> QED
  BY <1>1, <1>2 DEF RequestAt

\* Whatever becomes of directors, queues and clients, a request is executed at most
\* once and in full before it is answered (direttore.c:187-219, new_users.c:49-70).
THEOREM RequestOnceCorrect == Clients # {} /\ Spec => []RequestOnce
<1>1. Clients # {} /\ Init => RequestInv
  BY RequestInit
<1>2. RequestInv /\ [Next]_vars => RequestInv'
  BY RequestNext
<1>3. RequestInv => RequestOnce
  BY RequestOnceHolds
<1> QED
  BY <1>1, <1>2, <1>3, PTL DEF Spec
-----------------------------------------------------------------------------
(* The array of children.  A director fills it up to the size its           *)
(* configuration gives, and a request makes room for the users it brings    *)
(* before the first of them is started.                                     *)
FitInv ==
    /\ children \in Seq(Nat) /\ lastPid \in Nat /\ capacity \in Nat /\ left \in Nat
    /\ client \in Clients /\ mq \in Seq(Note) /\ file \in Paths
    /\ Len(children) <= capacity
    /\ dirPc \in {"spawn", "minute", "check", "adding"} =>
          g_config \in poste_config /\ capacity = Staff(g_config)
    /\ dirPc \in {"queues", "memory", "config"} => children = << >>
    /\ dirPc \in {"minute", "check"} => Len(children) = capacity
    /\ dirPc = "adding" => Len(children) + left = capacity

(* load_config.  A file is folded from its first line to its last, so the  *)
(* configuration after n lines is a function of n.                         *)
Configs == {g \in poste_config : ConfigOK(g)}

LEMMA ApplyType == ASSUME NEW g \in Configs, NEW s \in Settings PROVE Apply(g, s) \in Configs
<1>1. /\ g \in [Keys -> Int]
      /\ \A k \in Keys : g[k] >= IF k \in PositiveKeys THEN 1 ELSE 0
  BY DEF Configs, ConfigOK, poste_config
<1>2. s.val \in Int
  BY DEF Settings
<1>3. CASE Accepts(s)
  <2>1. s.key \in Keys /\ s.val >= (IF s.key \in PositiveKeys THEN 1 ELSE 0)
    BY <1>2, <1>3 DEF Accepts, Keys, PositiveKeys, NaturalKeys
  <2>2. [g EXCEPT ![s.key] = s.val] \in Configs
    <3> DEFINE h == [g EXCEPT ![s.key] = s.val]
    <3>1. h \in [Keys -> Int] /\ h[s.key] = s.val /\ \A k \in Keys \ {s.key} : h[k] = g[k]
      BY <1>1, <1>2, <2>1
    <3> HIDE DEF h
    <3>2. ASSUME NEW k \in Keys PROVE h[k] >= IF k \in PositiveKeys THEN 1 ELSE 0
      BY <1>1, <2>1, <3>1
    <3> QED
      BY <3>1, <3>2 DEF Configs, ConfigOK, poste_config
  <2> QED
    BY <1>3, <2>2 DEF Apply
<1>4. CASE ~Accepts(s)
  BY <1>4 DEF Apply
<1> QED
  BY <1>3, <1>4

LEMMA ApplyLineType ==
    ASSUME NEW g \in Configs, NEW line \in Lines PROVE ApplyLine(g, line) \in Configs
<1>1. line.setting \in Settings /\ line.tail \in Settings
  BY DEF Lines
<1> QED
  BY <1>1, ApplyType DEF ApplyLine

\* g[n] is the configuration when n lines of the file are read.
Read(f, g) ==
    /\ g[0] = Default
    /\ \A n \in 1 .. Len(f) : g[n] = ApplyLine(g[n - 1], f[n])

\* The function behind FoldLeft.
Folded(f, iter) ==
    iter = [s \in SUBSET DOMAIN f |->
               IF s = {} THEN Default ELSE ApplyLine(iter[s \ {Max(s)}], f[Max(s)])]

LEMMA LoadIsFolded == ASSUME NEW f PROVE load_config(f) = (CHOOSE iter : Folded(f, iter))[DOMAIN f]
BY DEF load_config, FoldLeft, MapThenFoldSet, Folded

LEMMA MaxFact ==
    ASSUME NEW n \in Nat, NEW s \in SUBSET (1 .. n), s # {}
    PROVE  Max(s) \in s /\ \A y \in s : Max(s) >= y
<1> DEFINE T == {n - x : x \in s}
<1>2. \A x \in s : n - x \in T
  OBVIOUS
<1>1. T \subseteq Nat /\ T # {}
  <2>1. \A x \in s : n - x \in Nat
    OBVIOUS
  <2>2. \E x \in s : n - x \in T
    BY <1>2
  <2> QED
    BY <2>1, <2>2
<1>3. \A t \in T : \E x \in s : t = n - x
  OBVIOUS
<1> HIDE DEF T
<1>4. PICK t \in T : \A u \in T : t <= u
  BY <1>1, LeastNat
<1>5. PICK x \in s : t = n - x
  BY <1>3
<1>6. \A y \in s : x >= y
  BY <1>2, <1>4, <1>5
<1> QED
  BY <1>6 DEF Max

LEMMA FoldedExists == ASSUME NEW f \in Seq(Lines) PROVE \E iter : Folded(f, iter)
<1> DEFINE pick == [s \in SUBSET DOMAIN f |-> Max(s)]
           step == [s \in SUBSET DOMAIN f |-> [g \in Configs |-> ApplyLine(g, f[Max(s)])]]
<1>1. DOMAIN f = 1 .. Len(f) /\ Len(f) \in Nat
  OBVIOUS
<1>2. ASSUME NEW s \in (SUBSET DOMAIN f) \ {{}}
      PROVE  /\ pick[s] = Max(s) /\ Max(s) \in s
             /\ \A g \in Configs : step[s][g] = ApplyLine(g, f[Max(s)]) /\ step[s][g] \in Configs
  <2>1. Max(s) \in s
    BY <1>1, MaxFact
  <2>2. f[Max(s)] \in Lines
    BY <1>1, <2>1
  <2> QED
    BY <2>1, <2>2, ApplyLineType
<1> HIDE DEF pick, step
<1>3. PICK iter \in [SUBSET DOMAIN f -> Configs] : FoldsTo(iter, DOMAIN f, Default, pick, step)
  <2>1. \A s \in (SUBSET DOMAIN f) \ {{}} : pick[s] \in s /\ \A g \in Configs : step[s][g] \in Configs
    BY <1>2
  <2>2. IsFiniteSet(DOMAIN f)
    BY <1>1, FS_Interval
  <2>3. Default \in Configs
    BY DefaultAssumption DEF Configs, ConfigOK
  <2> QED
    BY <2>1, <2>2, <2>3, FoldExists
<1>4. ASSUME NEW s \in (SUBSET DOMAIN f) \ {{}}
      PROVE  iter[s] = ApplyLine(iter[s \ {Max(s)}], f[Max(s)])
  BY <1>2, <1>3 DEF FoldsTo
<1>5. iter[{}] = Default
  BY <1>3 DEF FoldsTo
<1>6. \A s \in SUBSET DOMAIN f :
         iter[s] = IF s = {} THEN Default ELSE ApplyLine(iter[s \ {Max(s)}], f[Max(s)])
  BY <1>4, <1>5
<1> QED
  BY <1>6 DEF Folded

\* load_config reads the file line by line.
LEMMA LoadIsRead ==
    ASSUME NEW f \in Seq(Lines) PROVE \E g : Read(f, g) /\ load_config(f) = g[Len(f)]
<1>1. PICK iter : iter = (CHOOSE i : Folded(f, i))
  OBVIOUS
<1>2. Folded(f, iter)
  BY <1>1, FoldedExists
<1>3. load_config(f) = iter[DOMAIN f]
  BY <1>1, LoadIsFolded
<1>4. DOMAIN f = 1 .. Len(f) /\ Len(f) \in Nat
  OBVIOUS
<1> DEFINE g == [n \in 0 .. Len(f) |-> iter[1 .. n]]
<1>5. g[0] = Default
  BY <1>2, <1>4 DEF Folded
<1>6. ASSUME NEW n \in 1 .. Len(f) PROVE g[n] = ApplyLine(g[n - 1], f[n])
  <2>0. /\ 1 .. n \in SUBSET (1 .. Len(f)) /\ n \in 1 .. n
        /\ (1 .. n) \ {n} = 1 .. (n - 1)
    BY <1>4
  <2>1. Max(1 .. n) = n
    <3>1. /\ Max(1 .. n) \in 1 .. n
          /\ \A y \in 1 .. n : Max(1 .. n) >= y
      <4>1. n \in Nat /\ 1 .. n # {}
        BY <2>0
      <4>2. 1 .. n \in SUBSET (1 .. n)
        OBVIOUS
      <4> QED
        BY <4>1, <4>2, MaxFact
    <3> QED
      BY <3>1, <2>0
  <2>2. 1 .. n # {} /\ 1 .. n \in SUBSET DOMAIN f
    BY <1>4, <2>0
  <2>3. iter[1 .. n] = ApplyLine(iter[1 .. (n - 1)], f[n])
    BY <1>2, <2>0, <2>1, <2>2 DEF Folded
  <2> QED
    BY <1>4, <2>3
<1>7. g[Len(f)] = load_config(f)
  BY <1>3, <1>4
<1> QED
  BY <1>5, <1>6, <1>7 DEF Read

LEMMA ReadType ==
    ASSUME NEW f \in Seq(Lines), NEW g, Read(f, g), NEW n \in 0 .. Len(f)
    PROVE  g[n] \in Configs
<1> DEFINE Bad == {m \in 0 .. Len(f) : g[m] \notin Configs}
<1>1. Bad = {}
  <2> SUFFICES ASSUME Bad # {} PROVE FALSE
    OBVIOUS
  <2>1. PICK m \in Bad : \A l \in Bad : m <= l
    <3>1. Bad \subseteq Nat
      OBVIOUS
    <3> HIDE DEF Bad
    <3> QED
      BY <3>1, LeastNat
  <2>2. m \in 0 .. Len(f) /\ g[m] \notin Configs /\ Len(f) \in Nat
    OBVIOUS
  <2>3. m # 0
    BY <2>2, DefaultAssumption DEF Read, Configs, ConfigOK
  <2>4. m - 1 \in 0 .. Len(f) /\ m \in 1 .. Len(f) /\ m - 1 < m
    BY <2>2, <2>3
  <2>5. m - 1 \notin Bad
    <3> HIDE DEF Bad
    <3> QED
      BY <2>1, <2>4
  <2>6. g[m - 1] \in Configs /\ f[m] \in Lines /\ g[m] = ApplyLine(g[m - 1], f[m])
    BY <2>4, <2>5 DEF Read
  <2> QED
    BY <2>2, <2>6, ApplyLineType
<1> QED
  BY <1>1

\* Whatever a file says, the configuration it leaves makes sense.
LEMMA LoadMakesSense == ASSUME NEW f \in Seq(Lines) PROVE ConfigOK(load_config(f))
<1>1. PICK g : Read(f, g) /\ load_config(f) = g[Len(f)]
  BY LoadIsRead
<1>2. Len(f) \in 0 .. Len(f)
  OBVIOUS
<1>3. g[Len(f)] \in Configs
  BY <1>1, <1>2, ReadType
<1> QED
  BY <1>1, <1>3 DEF Configs

LEMMA TextFact == \A f \in Paths : Text(f) \in Seq(Lines)
BY FilesAssumption DEF Paths, Text

LEMMA FilesMakeSense == \A f \in Paths : ConfigOK(Load(f))
<1> SUFFICES ASSUME NEW f \in Paths PROVE ConfigOK(Load(f))
  OBVIOUS
<1> QED
  BY TextFact, LoadMakesSense DEF Load

LEMMA ApplyGives ==
    ASSUME NEW g \in poste_config, NEW s \in Settings, NEW k \in Keys
    PROVE  /\ Apply(g, s) \in poste_config
           /\ Apply(g, s)[k] = IF Gives(s, k) THEN s.val ELSE g[k]
<1>1. s.val \in Int
  BY DEF Settings
<1>2. Accepts(s) <=> Sensible(s)
  <2>1. PositiveKeys \cap NaturalKeys = {}
    BY DEF PositiveKeys, NaturalKeys
  <2>2. s.val > 0 <=> s.val >= 1
    BY <1>1
  <2> QED
    BY <2>1, <2>2 DEF Accepts, Sensible, Keys
<1>3. CASE Accepts(s)
  <2>1. s.key \in Keys /\ Sensible(s) /\ Apply(g, s) = [g EXCEPT ![s.key] = s.val]
    BY <1>2, <1>3 DEF Apply, Sensible
  <2> QED
    BY <1>1, <2>1 DEF poste_config, Gives
<1>4. CASE ~Accepts(s)
  BY <1>2, <1>4 DEF Apply, Gives
<1> QED
  BY <1>3, <1>4

\* In a file of any length a key's value is the last one that makes sense, be it in a
\* setting or in the rest of a comment too long for fgets's line, and the compiled-in
\* one when there is none (config.c:67-128).
THEOREM LastValueCorrect == LastValueCounts(Seq(Lines))
<1> SUFFICES ASSUME NEW f \in Seq(Lines), NEW k \in Keys
             PROVE  load_config(f)[k] = Meant(f, k)
  BY DEF LastValueCounts
<1>1. PICK g : Read(f, g) /\ load_config(f) = g[Len(f)]
  BY LoadIsRead
<1> DEFINE Given(n) == {i \in 1 .. n : Gives(f[i].setting, k) \/ Gives(f[i].tail, k)}
           Spoken(n) == IF Gives(f[n].tail, k) THEN f[n].tail.val ELSE f[n].setting.val
           Value(n) == IF Given(n) = {} THEN Default[k] ELSE Spoken(Max(Given(n)))
           Bad == {n \in 0 .. Len(f) : g[n][k] # Value(n)}
<1>2. Len(f) \in Nat /\ Len(f) \in 0 .. Len(f)
  OBVIOUS
<1>3. Bad = {}
  <2> SUFFICES ASSUME Bad # {} PROVE FALSE
    OBVIOUS
  <2>1. PICK n \in Bad : \A m \in Bad : n <= m
    <3>1. Bad \subseteq Nat
      OBVIOUS
    <3> HIDE DEF Bad
    <3> QED
      BY <3>1, LeastNat
  <2>2. n \in 0 .. Len(f) /\ g[n][k] # Value(n)
    OBVIOUS
  <2>3. n # 0
    <3>1. Given(0) = {}
      OBVIOUS
    <3>2. g[0][k] = Default[k]
      BY <1>1 DEF Read
    <3> QED
      BY <2>2, <3>1, <3>2
  <2>4. n - 1 \in 0 .. Len(f) /\ n \in 1 .. Len(f) /\ n - 1 < n
    <3> HIDE DEF Bad, Value
    <3> QED
      BY <1>2, <2>2, <2>3
  <2>5. g[n - 1][k] = Value(n - 1)
    <3>1. n - 1 \notin Bad
      <4> HIDE DEF Bad
      <4> QED
        BY <2>1, <2>4
    <3> QED
      BY <2>4, <3>1
  \* One line: its tail speaks last, then what stands before the comment.
  <2>6. g[n][k] = IF Gives(f[n].setting, k) \/ Gives(f[n].tail, k) THEN Spoken(n)
                  ELSE g[n - 1][k]
    <3>1. f[n].setting \in Settings /\ f[n].tail \in Settings
      <4>1. f[n] \in Lines
        BY <2>4
      <4> QED
        BY <4>1 DEF Lines
    <3>2. g[n - 1] \in poste_config
      BY <1>1, <2>4, ReadType DEF Configs
    <3>3. g[n] = Apply(Apply(g[n - 1], f[n].setting), f[n].tail)
      BY <1>1, <2>4 DEF Read, ApplyLine
    <3>4. /\ Apply(g[n - 1], f[n].setting) \in poste_config
          /\ Apply(g[n - 1], f[n].setting)[k]
               = IF Gives(f[n].setting, k) THEN f[n].setting.val ELSE g[n - 1][k]
      BY <3>1, <3>2, ApplyGives
    <3>5. g[n][k] = IF Gives(f[n].tail, k) THEN f[n].tail.val
                    ELSE Apply(g[n - 1], f[n].setting)[k]
      BY <3>1, <3>3, <3>4, ApplyGives
    <3> QED
      BY <3>4, <3>5
  <2>7. CASE Gives(f[n].setting, k) \/ Gives(f[n].tail, k)
    <3>1. n \in Given(n) /\ Given(n) \in SUBSET (1 .. n) /\ n \in Nat
      BY <2>4, <2>7
    <3>2. Max(Given(n)) = n
      <4> HIDE DEF Given
      <4>1. Max(Given(n)) \in Given(n) /\ \A y \in Given(n) : Max(Given(n)) >= y
        BY <3>1, MaxFact
      <4> QED
        BY <3>1, <4>1
    <3> HIDE DEF Spoken, Given
    <3> QED
      BY <2>2, <2>6, <2>7, <3>1, <3>2
  <2>8. CASE ~(Gives(f[n].setting, k) \/ Gives(f[n].tail, k))
    <3>1. Given(n) = Given(n - 1)
      BY <2>4, <2>8
    <3> HIDE DEF Spoken, Given
    <3> QED
      BY <2>2, <2>5, <2>6, <2>8, <3>1
  <2> QED
    BY <2>7, <2>8
<1>4. g[Len(f)][k] = Value(Len(f))
  BY <1>2, <1>3
<1> QED
  BY <1>1, <1>4 DEF Meant
-----------------------------------------------------------------------------
LEMMA StaffFact ==
    /\ \A g \in poste_config : g.num_operators \in Int /\ g.num_users \in Int
    /\ \A g \in poste_config, n \in Nat :
          LET h == [g EXCEPT !.num_users = @ + n]
          IN  h \in poste_config /\ Staff(h) = Staff(g) + n
BY DEF poste_config, Keys, PositiveKeys, NaturalKeys, Staff

LEMMA FitInit == Clients # {} /\ Init => FitInv
BY DEF Init, FitInv, SomeClient, Paths

LEMMA LoadStep == ASSUME FitInv, DirLoadConfig PROVE FitInv'
<1>1. /\ dirPc = "config" /\ dirPc' = "spawn"
      /\ g_config' = Load(file) /\ capacity' = Staff(Load(file))
      /\ UNCHANGED <<children, lastPid, left, client, mq, file>>
  BY DEF DirLoadConfig, Configured, At, Goto
<1>2. ConfigOK(Load(file))
  BY FilesMakeSense DEF FitInv
<1> HIDE DEF Load
<1>3. /\ Load(file) \in poste_config
      /\ Load(file).num_operators >= 1 /\ Load(file).num_users >= 1
  BY <1>2 DEF ConfigOK, Keys, PositiveKeys
<1>4. Staff(Load(file)) \in Nat
  BY <1>3, StaffFact DEF Staff
<1> QED
  BY <1>1, <1>3, <1>4 DEF FitInv

LEMMA SpawnStep == ASSUME FitInv, DirSpawn PROVE FitInv'
<1>1. /\ dirPc = "spawn" /\ UNCHANGED <<capacity, left, client, mq, file, g_config>>
  BY DEF DirSpawn, At, ipc
<1>2. CASE /\ Len(children) < Staff(g_config) /\ UNCHANGED dirPc
           /\ lastPid' = lastPid + 1 /\ children' = Append(children, lastPid + 1)
  <2>1. children' \in Seq(Nat) /\ Len(children') = Len(children) + 1 /\ Len(children) \in Nat
    BY <1>2 DEF FitInv
  <2> QED
    BY <1>1, <1>2, <2>1 DEF FitInv
<1>3. CASE /\ Len(children) = Staff(g_config) /\ dirPc' = "minute"
           /\ UNCHANGED <<lastPid, children>>
  BY <1>1, <1>3 DEF FitInv
<1> QED
  BY <1>2, <1>3 DEF DirSpawn, start_process, Goto

LEMMA RequestStep == ASSUME FitInv, DirTakeRequest PROVE FitInv'
<1>1. PICK i \in 1 .. Len(mq) : mq' = RemoveAt(mq, i) /\ client' = mq[i].of
  BY DEF DirTakeRequest, TakeRequest
<1>2. /\ dirPc = "check" /\ dirPc' = "adding" /\ left' = NewUsers[client']
      /\ capacity' = Staff(g_config) + NewUsers[client']
      /\ g_config' = [g_config EXCEPT !.num_users = @ + NewUsers[client']]
      /\ UNCHANGED <<children, lastPid, file>>
  BY DEF DirTakeRequest, TakeRequest, At, Goto
<1>3. mq[i] \in Note /\ mq' \in Seq(Note)
  BY <1>1, RemoveAtProperties DEF FitInv
<1>4. client' \in Clients /\ NewUsers[client'] \in Nat
  BY <1>1, <1>3, SizeFact DEF Note
<1>5. g_config \in poste_config /\ Len(children) = Staff(g_config) /\ Len(children) \in Nat
  BY <1>2 DEF FitInv
<1>6. g_config' \in poste_config /\ Staff(g_config') = Staff(g_config) + NewUsers[client']
  BY <1>2, <1>4, <1>5, StaffFact
<1> QED
  BY <1>2, <1>3, <1>4, <1>5, <1>6 DEF FitInv

LEMMA UserStep == ASSUME FitInv, DirAddUser PROVE FitInv'
<1>1. /\ dirPc = "adding" /\ left > 0 /\ left' = left - 1
      /\ lastPid' = lastPid + 1 /\ children' = Append(children, lastPid + 1)
      /\ UNCHANGED <<capacity, client, mq, file, g_config, dirPc>>
  BY DEF DirAddUser, start_process, At, ipc
<1>2. children' \in Seq(Nat) /\ Len(children') = Len(children) + 1 /\ Len(children) \in Nat
  BY <1>1 DEF FitInv
<1> QED
  BY <1>1, <1>2 DEF FitInv

LEMMA FitNext == FitInv /\ RequestInv' /\ [Next]_vars => FitInv'
<1> SUFFICES ASSUME FitInv, RequestInv', [Next]_vars PROVE FitInv'
  OBVIOUS
<1>0. mq' \in Seq(Note) /\ client' \in Clients /\ left' \in Nat
  BY DEF RequestInv, RequestTypes
<1> USE DEF FitInv, At, Goto, ipc, people, clock, clients, history
<1>1. CASE DirStart
  BY <1>0, <1>1 DEF DirStart
<1>2. CASE DirOpenQueues
  BY <1>0, <1>2 DEF DirOpenQueues
<1>3. CASE DirMapMemory
  BY <1>0, <1>3 DEF DirMapMemory
<1>4. CASE DirLoadConfig
  BY <1>4, LoadStep
<1>5. CASE DirSpawn
  BY <1>5, SpawnStep
<1>6. CASE DirMinute
  BY <1>0, <1>6 DEF DirMinute
<1>7. CASE DirNoRequest
  BY <1>0, <1>7 DEF DirNoRequest, MinuteOver
<1>8. CASE DirTakeRequest
  BY <1>8, RequestStep
<1>9. CASE DirAddUser
  BY <1>9, UserStep
<1>10. CASE DirReply
  BY <1>0, <1>10 DEF DirReply, Reply, MinuteOver
<1>11. CASE DirKill
  BY <1>0, <1>11 DEF DirKill
<1>12. CASE DirRemoveQueues
  BY <1>0, <1>12 DEF DirRemoveQueues
<1>13. CASE DirUnlink
  BY <1>0, <1>13 DEF DirUnlink
<1>14. CASE DirDies
  BY <1>0, <1>14 DEF DirDies
<1>15. CASE Ipcrm
  BY <1>0, <1>15 DEF Ipcrm
<1>16. CASE \E c \in Clients : ClStep(c)
  BY <1>0, <1>16 DEF ClStep, ClOpen, ClSend, ClReceive, ClRemoved
<1>17. CASE UNCHANGED vars
  BY <1>17 DEF vars
<1> QED
  BY <1>1, <1>2, <1>3, <1>4, <1>5, <1>6, <1>7, <1>8, <1>9, <1>10, <1>11, <1>12, <1>13,
     <1>14, <1>15, <1>16, <1>17 DEF Next, DirStep

\* However many requests a director executes, its array of children has a place for
\* every child it starts (direttore.c:194-198, 375-386).
THEOREM ChildrenFitCorrect == Clients # {} /\ Spec => []ChildrenFit
<1>1. Clients # {} /\ Init => RequestInv /\ FitInv
  BY RequestInit, FitInit
<1>2. RequestInv /\ [Next]_vars => RequestInv'
  BY RequestNext
<1>3. FitInv /\ RequestInv' /\ [Next]_vars => FitInv'
  BY FitNext
<1>4. FitInv => ChildrenFit
  BY DEF FitInv, ChildrenFit
<1> QED
  BY <1>1, <1>2, <1>3, <1>4, PTL DEF Spec
-----------------------------------------------------------------------------
(* The plant and its people.  Pids are given in ascending order and a       *)
(* director's children stand in the array in the order they were started,   *)
(* so a position tells what runs under the pid it holds.                    *)
Working == {"spawn", "minute", "check", "adding"}
KindAt(i) == IF i = 1 THEN "erogatore"
             ELSE IF i <= 1 + g_config.num_operators THEN "operatore" ELSE "utente"

LifeTypes ==
    /\ mqIds \in Nat /\ mqId \in 0 .. mqIds /\ ticketMq \in BOOLEAN
    /\ stats \in Paths \cup {NoSegment} /\ file \in Paths
    /\ lastPid \in Nat /\ DOMAIN procs \subseteq 1 .. lastPid
    /\ children \in Seq(1 .. lastPid)
    /\ ConfigOK(g_config)
    /\ deaths \in Nat /\ dangling \in BOOLEAN

\* Every child of a working director is alive and is what its position says.
PlaceInv ==
    /\ \A i, j \in 1 .. Len(children) : i < j => children[i] < children[j]
    /\ dirPc \in Working =>
          \A i \in 1 .. Len(children) :
             children[i] \in DOMAIN procs /\ procs[children[i]].kind = KindAt(i)
    /\ dirPc \in {"minute", "check", "adding"} => Len(children) > g_config.num_operators

\* What is on the machine as long as no director has died, by the director's step.
TidyInv ==
    deaths = 0 =>
        /\ dirPc \in {"off", "unlink"} => mqId = 0 /\ ~ticketMq
        /\ dirPc \in {"off", "queues", "memory"} => stats = NoSegment
        /\ dirPc = "config" => stats = NoFile
        /\ dirPc \in Working => stats = file
        /\ dirPc \in {"off", "remove", "unlink"} /\ ~dangling =>
              ToSet(children) \cap DOMAIN procs = {}
        /\ \A p \in ToSet(children) \cap DOMAIN procs : RunsOn(p, file)

LifeInv == LifeTypes /\ PlaceInv /\ TidyInv

LEMMA LifeInit == Clients # {} /\ Init => LifeInv
<1> SUFFICES ASSUME Clients # {}, Init PROVE LifeInv
  OBVIOUS
<1>1. LifeTypes
  <2>1. children \in Seq(1 .. lastPid) /\ DOMAIN procs \subseteq 1 .. lastPid
    BY DEF Init
  <2>2. ConfigOK(g_config)
    BY DefaultAssumption DEF Init
  <2>3. /\ mqIds \in Nat /\ mqId \in 0 .. mqIds /\ ticketMq \in BOOLEAN
        /\ stats \in Paths \cup {NoSegment} /\ file \in Paths
        /\ lastPid \in Nat /\ deaths \in Nat /\ dangling \in BOOLEAN
    <3>1. /\ mqId = 0 /\ mqIds = 0 /\ ticketMq = FALSE /\ stats = NoSegment /\ file = NoFile
          /\ lastPid = 0 /\ deaths = 0 /\ dangling = FALSE
      BY DEF Init
    <3>2. 0 \in 0 .. 0
      OBVIOUS
    <3> QED
      BY <3>1, <3>2 DEF Paths
  <2> QED
    BY <2>1, <2>2, <2>3 DEF LifeTypes
<1>2. PlaceInv
  BY DEF Init, PlaceInv, Working
<1>3. TidyInv
  <2>1. ToSet(children) = {}
    BY DEF Init, ToSet
  <2> QED
    BY <2>1 DEF Init, TidyInv, Working
<1> QED
  BY <1>1, <1>2, <1>3 DEF LifeInv

\* start_process: the new child is alive, runs on the file it finds, and has a pid no
\* child had before.
LEMMA Forked ==
    ASSUME LifeTypes, NEW kind, start_process(kind)
    PROVE  /\ lastPid' \in Nat /\ DOMAIN procs' \subseteq 1 .. lastPid'
           /\ DOMAIN procs' = DOMAIN procs \cup {lastPid + 1}
           /\ \A p \in DOMAIN procs : procs'[p] = procs[p]
           /\ procs'[lastPid + 1] = [kind |-> kind, config |-> FileRead(kind)]
           /\ children' \in Seq(1 .. lastPid')
           /\ Len(children') = Len(children) + 1 /\ Len(children) \in Nat
           /\ \A i \in 1 .. Len(children) :
                 children'[i] = children[i] /\ children[i] \in 1 .. lastPid
           /\ children'[Len(children) + 1] = lastPid + 1
<1>1. lastPid \in Nat /\ DOMAIN procs \subseteq 1 .. lastPid /\ children \in Seq(1 .. lastPid)
  BY DEF LifeTypes
<1>2. lastPid + 1 \notin DOMAIN procs
  BY <1>1
<1>3. /\ DOMAIN procs' = DOMAIN procs \cup {lastPid + 1}
      /\ \A p \in DOMAIN procs : procs'[p] = procs[p]
      /\ procs'[lastPid + 1] = [kind |-> kind, config |-> FileRead(kind)]
  BY <1>2 DEF start_process
<1>4. children \in Seq(1 .. (lastPid + 1)) /\ lastPid + 1 \in 1 .. (lastPid + 1)
  BY <1>1
<1>5. /\ children' \in Seq(1 .. lastPid')
      /\ Len(children') = Len(children) + 1 /\ Len(children) \in Nat
      /\ \A i \in 1 .. Len(children) :
            children'[i] = children[i] /\ children[i] \in 1 .. lastPid
      /\ children'[Len(children) + 1] = lastPid + 1
  BY <1>1, <1>4 DEF start_process
<1> QED
  BY <1>1, <1>3, <1>5 DEF start_process

LEMMA NumberFact == \A g \in poste_config : g.num_operators \in Int /\ g.num_users \in Int
BY DEF poste_config, Keys, PositiveKeys

\* A working director starts a child of the kind that comes next.
LEMMA ChildStep ==
    ASSUME LifeInv, dirPc \in Working, dirPc' = dirPc, NEW kind, start_process(kind),
           kind = KindAt(Len(children) + 1),
           UNCHANGED <<ipc, dangling, file, g_config, deaths>>
    PROVE  LifeInv'
<1> USE DEF LifeInv, ipc
<1>0. /\ DOMAIN procs' = DOMAIN procs \cup {lastPid + 1}
      /\ \A p \in DOMAIN procs : procs'[p] = procs[p]
      /\ procs'[lastPid + 1] = [kind |-> kind, config |-> FileRead(kind)]
      /\ Len(children') = Len(children) + 1 /\ Len(children) \in Nat
      /\ \A i \in 1 .. Len(children) :
            children'[i] = children[i] /\ children[i] \in 1 .. lastPid
      /\ children'[Len(children) + 1] = lastPid + 1
      /\ children' \in Seq(1 .. lastPid') /\ children \in Seq(1 .. lastPid)
      /\ lastPid' \in Nat /\ DOMAIN procs' \subseteq 1 .. lastPid'
  BY Forked DEF LifeTypes
<1>1. LifeTypes'
  BY <1>0 DEF LifeTypes
<1>2. lastPid \in Nat /\ g_config.num_operators \in Int
  BY NumberFact DEF LifeTypes, ConfigOK
<1>3. PlaceInv'
  <2>1. ASSUME NEW i \in 1 .. Len(children'), NEW j \in 1 .. Len(children'), i < j
        PROVE  children'[i] < children'[j]
    <3>1. i \in 1 .. Len(children) /\ children'[i] = children[i] /\ children[i] \in 1 .. lastPid
      BY <2>1, <1>0
    <3>2. CASE j \in 1 .. Len(children)
      BY <3>1, <3>2, <2>1, <1>0 DEF PlaceInv
    <3>3. CASE j = Len(children) + 1
      BY <3>1, <3>3, <1>0, <1>2
    <3> QED
      BY <3>2, <3>3, <1>0
  <2>2. ASSUME NEW i \in 1 .. Len(children')
        PROVE  children'[i] \in DOMAIN procs' /\ procs'[children'[i]].kind = KindAt(i)
    <3>1. CASE i \in 1 .. Len(children)
      BY <3>1, <1>0 DEF PlaceInv
    <3>2. CASE i = Len(children) + 1
      BY <3>2, <1>0
    <3> QED
      BY <3>1, <3>2, <1>0
  <2>3. \A i \in Nat : KindAt(i)' = KindAt(i)
    BY DEF KindAt
  <2> QED
    BY <2>1, <2>2, <2>3, <1>0, <1>2 DEF PlaceInv, Working
<1>4. TidyInv'
  <2>1. ToSet(children') = ToSet(children) \cup {lastPid + 1}
    <3>1. DOMAIN children' = 1 .. (Len(children) + 1) /\ DOMAIN children = 1 .. Len(children)
      BY <1>0
    <3>2. \A i \in DOMAIN children' : i \in DOMAIN children \/ i = Len(children) + 1
      BY <3>1, <1>0
    <3>3. /\ \A i \in DOMAIN children : i \in DOMAIN children' /\ children'[i] = children[i]
          /\ Len(children) + 1 \in DOMAIN children'
      BY <3>1, <1>0
    <3>4. children'[Len(children) + 1] = lastPid + 1
      BY <1>0
    <3> QED
      BY <3>2, <3>3, <3>4, Zenon DEF ToSet
  <2>2. dirPc \notin {"off", "queues", "memory", "config", "remove", "unlink"}
    BY DEF Working
  <2>3. ASSUME deaths' = 0, NEW p \in ToSet(children') \cap DOMAIN procs'
        PROVE  RunsOn(p, file)'
    BY <2>1, <2>3, <1>0 DEF TidyInv, Working, RunsOn, FileRead
  <2> QED
    BY <2>2, <2>3 DEF TidyInv, Working
<1> QED
  BY <1>1, <1>3, <1>4

LEMMA SpawnLife == ASSUME LifeInv, DirSpawn PROVE LifeInv'
<1> DEFINE kind == CASE Len(children) = 0 -> "erogatore"
                     [] Len(children) \in 1 .. g_config.num_operators -> "operatore"
                     [] OTHER -> "utente"
<1>1. /\ dirPc = "spawn" /\ UNCHANGED <<ipc, dangling, file, g_config, deaths>>
  BY DEF DirSpawn, At, history
<1>2. /\ g_config.num_operators \in Int /\ g_config.num_users \in Int
      /\ g_config.num_operators >= 1 /\ g_config.num_users >= 1
      /\ Len(children) \in Nat
  BY NumberFact DEF LifeInv, LifeTypes, ConfigOK, Keys, PositiveKeys
<1>3. CASE start_process(kind) /\ dirPc' = dirPc
  <2>1. kind = KindAt(Len(children) + 1)
    BY <1>2 DEF KindAt
  <2> HIDE DEF kind
  <2> QED
    BY <1>1, <1>3, <2>1, ChildStep DEF Working
<1>4. CASE /\ Len(children) = Staff(g_config) /\ dirPc' = "minute"
           /\ UNCHANGED <<lastPid, procs, children>>
  <2>1. Len(children) > g_config.num_operators
    BY <1>2, <1>4 DEF Staff
  <2>2. LifeTypes'
    BY <1>1, <1>4 DEF LifeInv, LifeTypes, ipc
  <2>3. PlaceInv'
    BY <1>1, <1>4, <2>1 DEF LifeInv, PlaceInv, KindAt, Working
  <2>4. TidyInv'
    BY <1>1, <1>4 DEF LifeInv, TidyInv, RunsOn, Working, ipc
  <2> QED
    BY <2>2, <2>3, <2>4 DEF LifeInv
<1> QED
  BY <1>3, <1>4 DEF DirSpawn, Goto

LEMMA AddLife == ASSUME LifeInv, DirAddUser PROVE LifeInv'
<1>1. /\ dirPc = "adding" /\ dirPc' = "adding" /\ start_process("utente")
      /\ UNCHANGED <<ipc, dangling, file, g_config, deaths>>
  BY DEF DirAddUser, At, history
<1>2. /\ Len(children) > g_config.num_operators /\ Len(children) \in Nat
      /\ g_config.num_operators \in Int /\ g_config.num_operators >= 1
  BY <1>1, NumberFact DEF LifeInv, LifeTypes, PlaceInv, ConfigOK, Keys, PositiveKeys
<1>3. "utente" = KindAt(Len(children) + 1)
  BY <1>2 DEF KindAt
<1> QED
  BY <1>1, <1>3, ChildStep DEF Working

LEMMA TakeLife == ASSUME LifeInv, DirTakeRequest, client' \in Clients PROVE LifeInv'
<1>1. /\ dirPc = "check" /\ dirPc' = "adding" /\ dangling' \in {dangling, TRUE}
      /\ g_config' = [g_config EXCEPT !.num_users = @ + NewUsers[client']]
      /\ UNCHANGED <<mqId, mqIds, ticketMq, stats, procs, lastPid, children, file, deaths>>
  BY DEF DirTakeRequest, TakeRequest, At, Goto, history
<1>2. ConfigOK(g_config)' /\ g_config'.num_operators = g_config.num_operators
  <2>1. NewUsers[client'] \in Nat
    BY SizeFact
  <2>2. g_config \in [Keys -> Int] /\ g_config.num_users >= 1 /\ "num_users" \in PositiveKeys
    BY DEF LifeInv, LifeTypes, ConfigOK, poste_config, Keys, PositiveKeys
  <2>3. /\ g_config' \in [Keys -> Int] /\ g_config'.num_users >= g_config.num_users
        /\ \A k \in Keys : k # "num_users" => g_config'[k] = g_config[k]
    BY <1>1, <2>1, <2>2 DEF Keys
  <2>4. "num_operators" \in Keys
    BY DEF Keys, PositiveKeys
  <2>5. ConfigOK(g_config)
    BY DEF LifeInv, LifeTypes
  <2>6. ASSUME NEW k \in Keys PROVE g_config'[k] >= IF k \in PositiveKeys THEN 1 ELSE 0
    BY <2>2, <2>3, <2>5 DEF ConfigOK
  <2> QED
    BY <2>3, <2>4, <2>6 DEF ConfigOK, poste_config
<1>3. LifeTypes'
  BY <1>1, <1>2 DEF LifeInv, LifeTypes
<1>4. PlaceInv'
  BY <1>1, <1>2 DEF LifeInv, PlaceInv, KindAt, Working
<1>5. TidyInv'
  BY <1>1 DEF LifeInv, TidyInv, RunsOn, Working
<1> QED
  BY <1>3, <1>4, <1>5 DEF LifeInv

\* Steps of the director that leave the children and what is on the machine alone.
LEMMA CalmLife ==
    ASSUME LifeInv, UNCHANGED <<mqId, mqIds, ticketMq, stats, procs, lastPid, children,
                                dangling, file, g_config, deaths>>,
           \/ dirPc' = dirPc
           \/ dirPc \in Working \ {"spawn"} /\ dirPc' \in Working \cup {"kill"}
    PROVE  LifeInv'
<1> USE DEF LifeInv, Working
<1>1. LifeTypes'
  BY DEF LifeTypes
<1>2. PlaceInv'
  BY DEF PlaceInv, KindAt
<1>3. TidyInv'
  BY DEF TidyInv, RunsOn
<1> QED
  BY <1>1, <1>2, <1>3

LEMMA StartLife == ASSUME LifeInv, DirStart PROVE LifeInv'
<1>1. /\ dirPc = "off" /\ dirPc' = "queues" /\ file' \in Paths /\ g_config' = Default
      /\ children' = << >> /\ dangling' = FALSE
      /\ UNCHANGED <<mqId, mqIds, ticketMq, stats, procs, lastPid, deaths>>
  BY DEF DirStart, At, Goto, ipc
<1>2. LifeTypes'
  <2>1. children' \in Seq(1 .. lastPid') /\ ConfigOK(g_config)'
    BY <1>1, DefaultAssumption
  <2> QED
    BY <1>1, <2>1 DEF LifeInv, LifeTypes
<1>3. PlaceInv'
  BY <1>1 DEF PlaceInv, Working
<1>4. TidyInv'
  <2>1. ToSet(children') = {}
    BY <1>1 DEF ToSet
  <2> QED
    BY <1>1, <2>1 DEF LifeInv, TidyInv, Working
<1> QED
  BY <1>2, <1>3, <1>4 DEF LifeInv

\* The director's way from its queues to its first child.
LEMMA PrepareLife ==
    ASSUME LifeInv, FitInv, DirOpenQueues \/ DirMapMemory \/ DirLoadConfig
    PROVE  LifeInv'
<1> USE DEF LifeInv, Working
<1>1. CASE DirOpenQueues
  <2>1. /\ dirPc = "queues" /\ dirPc' = "memory" /\ ticketMq' = TRUE
        /\ \/ UNCHANGED <<mqId, mqIds>>
           \/ mqId' = mqIds + 1 /\ mqIds' = mqIds + 1
        /\ UNCHANGED <<stats, procs, lastPid, children, dangling, file, g_config, deaths>>
    BY <1>1 DEF DirOpenQueues, At, Goto, people, history
  <2>2. LifeTypes'
    BY <2>1 DEF LifeTypes
  <2>3. PlaceInv' /\ TidyInv'
    BY <2>1 DEF PlaceInv, TidyInv, RunsOn
  <2> QED
    BY <2>2, <2>3
<1>2. CASE DirMapMemory
  <2>1. /\ dirPc = "memory" /\ dirPc' = "config"
        /\ stats' = IF stats = NoSegment THEN NoFile ELSE stats
        /\ UNCHANGED <<mqId, mqIds, ticketMq, procs, lastPid, children, dangling, file,
                       g_config, deaths>>
    BY <1>2 DEF DirMapMemory, At, Goto, people, history
  <2>2. LifeTypes'
    BY <2>1 DEF LifeTypes, Paths
  <2>3. PlaceInv' /\ TidyInv'
    BY <2>1 DEF PlaceInv, TidyInv, RunsOn
  <2> QED
    BY <2>2, <2>3
<1>3. CASE DirLoadConfig
  <2>1. /\ dirPc = "config" /\ dirPc' = "spawn" /\ g_config' = Load(file)
        /\ stats' = IF file = NoFile THEN stats ELSE file
        /\ UNCHANGED <<mqId, mqIds, ticketMq, procs, lastPid, children, dangling, file,
                       deaths>>
    BY <1>3 DEF DirLoadConfig, Configured, At, Goto, history
  <2>2. ConfigOK(g_config)'
    BY <2>1, FilesMakeSense DEF LifeTypes
  <2>3. LifeTypes'
    BY <2>1, <2>2 DEF LifeTypes
  <2>4. children = << >>
    BY <2>1 DEF FitInv
  <2>5. PlaceInv' /\ TidyInv'
    BY <2>1, <2>4 DEF PlaceInv, TidyInv, RunsOn
  <2> QED
    BY <2>3, <2>5
<1> QED
  BY <1>1, <1>2, <1>3

LEMMA EndLife ==
    ASSUME LifeInv, DirKill \/ DirRemoveQueues \/ DirUnlink PROVE LifeInv'
<1> USE DEF LifeInv, Working
<1>1. CASE DirKill
  <2>1. /\ dirPc = "kill" /\ dirPc' = "remove"
        /\ \/ procs' = Restrict(procs, DOMAIN procs \ ToSet(children))
           \/ dangling /\ UNCHANGED procs
        /\ UNCHANGED <<mqId, mqIds, ticketMq, stats, lastPid, children, dangling, file,
                       g_config, deaths>>
    BY <1>1 DEF DirKill, At, Goto, ipc, history
  <2>2. /\ DOMAIN procs' \subseteq DOMAIN procs
        /\ \A p \in DOMAIN procs' : procs'[p] = procs[p]
        /\ ~dangling => ToSet(children) \cap DOMAIN procs' = {}
    BY <2>1 DEF Restrict
  <2>3. LifeTypes'
    BY <2>1, <2>2 DEF LifeTypes
  <2>4. PlaceInv'
    BY <2>1 DEF PlaceInv
  <2>5. TidyInv'
    BY <2>1, <2>2 DEF TidyInv, RunsOn
  <2> QED
    BY <2>3, <2>4, <2>5
<1>2. CASE DirRemoveQueues
  <2>1. /\ dirPc = "remove" /\ dirPc' = "unlink" /\ mqId' = 0 /\ ticketMq' = FALSE
        /\ UNCHANGED <<mqIds, stats, procs, lastPid, children, dangling, file, g_config,
                       deaths>>
    BY <1>2 DEF DirRemoveQueues, RemoveUsersQueue, At, Goto, people, history
  <2>2. LifeTypes'
    <3>1. 0 \in 0 .. mqIds
      BY DEF LifeTypes
    <3> QED
      BY <2>1, <3>1 DEF LifeTypes
  <2>3. PlaceInv' /\ TidyInv'
    BY <2>1 DEF PlaceInv, TidyInv, RunsOn
  <2> QED
    BY <2>2, <2>3
<1>3. CASE DirUnlink
  <2>1. /\ dirPc = "unlink" /\ dirPc' = "off" /\ stats' = NoSegment
        /\ UNCHANGED <<mqId, mqIds, ticketMq, procs, lastPid, children, dangling, file,
                       g_config, deaths>>
    BY <1>3 DEF DirUnlink, At, Goto, people, history
  <2>2. LifeTypes'
    BY <2>1 DEF LifeTypes
  <2>3. PlaceInv' /\ TidyInv'
    BY <2>1 DEF PlaceInv, TidyInv, RunsOn
  <2> QED
    BY <2>2, <2>3
<1> QED
  BY <1>1, <1>2, <1>3

\* A death, and what the makefile does about it.
LEMMA DeathLife == ASSUME LifeInv, DirDies \/ Ipcrm PROVE LifeInv'
<1> USE DEF LifeInv, Working
<1>1. CASE DirDies
  <2>1. /\ dirPc' = "off" /\ deaths' = deaths + 1 /\ procs' \in {procs, << >>}
        /\ UNCHANGED <<mqId, mqIds, ticketMq, stats, lastPid, children, dangling, file,
                       g_config>>
    BY <1>1 DEF DirDies, Goto, ipc
  <2>2. DOMAIN procs' \subseteq DOMAIN procs
    BY <2>1
  <2>3. LifeTypes'
    BY <2>1, <2>2 DEF LifeTypes
  <2>4. PlaceInv'
    BY <2>1 DEF PlaceInv
  <2>5. TidyInv'
    BY <2>1 DEF TidyInv, LifeTypes
  <2> QED
    BY <2>3, <2>4, <2>5
<1>2. CASE Ipcrm
  <2>1. /\ dirPc = "off" /\ dirPc' = "off" /\ mqId' = 0 /\ ticketMq' = FALSE
        /\ UNCHANGED <<mqIds, stats, procs, lastPid, children, dangling, file, g_config,
                       deaths>>
    BY <1>2 DEF Ipcrm, RemoveUsersQueue, At, people
  <2>2. LifeTypes'
    <3>1. 0 \in 0 .. mqIds
      BY DEF LifeTypes
    <3> QED
      BY <2>1, <3>1 DEF LifeTypes
  <2>3. PlaceInv' /\ TidyInv'
    BY <2>1 DEF PlaceInv, TidyInv, RunsOn
  <2> QED
    BY <2>2, <2>3
<1> QED
  BY <1>1, <1>2

LEMMA LifeNext ==
    LifeInv /\ FitInv /\ RequestInv' /\ [Next]_vars => LifeInv'
<1> SUFFICES ASSUME LifeInv, FitInv, RequestInv', [Next]_vars PROVE LifeInv'
  OBVIOUS
<1>0. client' \in Clients
  BY DEF RequestInv, RequestTypes
<1>1. CASE DirStart
  BY <1>1, StartLife
<1>2. CASE DirOpenQueues \/ DirMapMemory \/ DirLoadConfig
  BY <1>2, PrepareLife
<1>3. CASE DirSpawn
  BY <1>3, SpawnLife
<1>4. CASE DirTakeRequest
  BY <1>0, <1>4, TakeLife
<1>5. CASE DirAddUser
  BY <1>5, AddLife
<1>6. CASE DirKill \/ DirRemoveQueues \/ DirUnlink
  BY <1>6, EndLife
<1>7. CASE DirDies \/ Ipcrm
  BY <1>7, DeathLife
<1>8. CASE DirMinute \/ DirNoRequest \/ DirReply
  BY <1>8, CalmLife DEF DirMinute, DirNoRequest, DirReply, Reply, MinuteOver, At, Goto,
     Working, ipc, people, history
<1>9. CASE \E c \in Clients : ClStep(c)
  BY <1>9, CalmLife DEF ClStep, ClOpen, ClSend, ClReceive, ClRemoved, ipc, people, history
<1>10. CASE UNCHANGED vars
  BY <1>10, CalmLife DEF vars, ipc, people, history
<1> QED
  BY <1>1, <1>2, <1>3, <1>4, <1>5, <1>6, <1>7, <1>8, <1>9, <1>10 DEF Next, DirStep

\* The children that are users are those behind the dispenser and the operators, one
\* for each place left.
LEMMA UsersHold == LifeInv /\ FitInv => UsersCounted
<1> SUFFICES ASSUME LifeInv, FitInv, dirPc \in {"minute", "check"}
             PROVE  Cardinality({p \in ToSet(children) :
                                   p \in DOMAIN procs /\ procs[p].kind = "utente"})
                        = g_config.num_users
  BY DEF UsersCounted
<1> DEFINE a == 2 + g_config.num_operators
           Places == a .. Len(children)
           Users == {p \in ToSet(children) : p \in DOMAIN procs /\ procs[p].kind = "utente"}
           pid == [i \in Places |-> children[i]]
<1>1. /\ children \in Seq(1 .. lastPid) /\ Len(children) \in Nat
      /\ g_config.num_operators \in Int /\ g_config.num_users \in Int
      /\ g_config.num_operators >= 1 /\ g_config.num_users >= 1
  BY NumberFact DEF LifeInv, LifeTypes, ConfigOK, Keys, PositiveKeys
<1>2. Len(children) = 1 + g_config.num_operators + g_config.num_users
  BY DEF FitInv, Staff
<1>3. \A i \in 1 .. Len(children) :
         children[i] \in DOMAIN procs /\ procs[children[i]].kind = KindAt(i)
  BY DEF LifeInv, PlaceInv, Working
<1>4. \A i \in 1 .. Len(children) : KindAt(i) = "utente" <=> i \in Places
  BY <1>1 DEF KindAt
<1>5. pid \in Bijection(Places, Users)
  <2>1. ASSUME NEW i \in Places PROVE children[i] \in Users
    BY <1>1, <1>3, <1>4 DEF ToSet
  <2>2. pid \in [Places -> Users]
    BY <2>1
  <2>3. ASSUME NEW i \in Places, NEW j \in Places, pid[i] = pid[j] PROVE i = j
    <3>1. i \in 1 .. Len(children) /\ j \in 1 .. Len(children) /\ children[i] = children[j]
      BY <2>3, <1>1
    <3>2. children[i] \in Nat /\ children[j] \in Nat
      BY <3>1, <1>1 DEF LifeInv, LifeTypes
    <3> QED
      BY <3>1, <3>2 DEF LifeInv, PlaceInv
  <2>4. ASSUME NEW p \in Users PROVE \E i \in Places : pid[i] = p
    <3>1. PICK i \in 1 .. Len(children) : children[i] = p
      BY <1>1 DEF ToSet
    <3> QED
      BY <3>1, <1>3, <1>4
  <2> HIDE DEF pid, Places, Users
  <2> QED
    BY <2>2, <2>3, <2>4 DEF Bijection, Injection, Surjection, IsInjective
<1>6. IsFiniteSet(Places) /\ Cardinality(Places) = g_config.num_users
  <2>1. a \in Int /\ Len(children) \in Int /\ Len(children) - a + 1 = g_config.num_users
    BY <1>1, <1>2
  <2>2. ~(a > Len(children))
    BY <1>1, <1>2
  <2> HIDE DEF a
  <2> QED
    BY <2>1, <2>2, FS_Interval
<1>7. Cardinality(Users) = Cardinality(Places)
  <2> HIDE DEF pid, Places, Users
  <2> QED
    BY <1>5, <1>6, FS_Bijection DEF ExistsBijection
<1> QED
  BY <1>6, <1>7

\* The three invariants together, of any director on any files.
LEMMA LifeCorrect ==
    Clients # {} /\ Spec => [](RequestInv /\ FitInv /\ LifeInv)
<1>1. Clients # {} /\ Init => RequestInv /\ FitInv /\ LifeInv
  BY RequestInit, FitInit, LifeInit
<1>2. RequestInv /\ [Next]_vars => RequestInv'
  BY RequestNext
<1>3. FitInv /\ RequestInv' /\ [Next]_vars => FitInv'
  BY FitNext
<1>4. LifeInv /\ FitInv /\ RequestInv' /\ [Next]_vars => LifeInv'
  BY LifeNext
<1> QED
  BY <1>1, <1>2, <1>3, <1>4, PTL DEF Spec

\* Configuration, queues, processes and clients keep to their values, whatever file
\* a director is given and whatever becomes of it.
THEOREM TypesCorrect == Clients # {} /\ Spec => []TypeOK
<1>1. RequestInv /\ LifeInv => TypeOK
  <2> SUFFICES ASSUME RequestInv, LifeInv PROVE TypeOK
    OBVIOUS
  <2>1. ToSet(children) \subseteq 1 .. lastPid
    BY DEF LifeInv, LifeTypes, ToSet
  <2> QED
    BY <2>1 DEF RequestInv, RequestTypes, ClPcs, LifeInv, LifeTypes, TypeOK
<1> QED
  BY <1>1, LifeCorrect, PTL

\* Between two minutes there are as many users as the configuration says, however
\* many requests have added to both (direttore.c:181-183, 192, 375-398).
THEOREM UsersCountedCorrect == Clients # {} /\ Spec => []UsersCounted
BY LifeCorrect, UsersHold, PTL

\* A director that comes to its end leaves neither queue nor segment behind, whoever
\* asked for users meanwhile, and no child unless its array of children was moved
\* (direttore.c:429-454, shared_mem.c:29-35).
THEOREM CleanEndCorrect ==
    Clients # {} /\ Spec => []CleanEndLeavesNothing
<1>1. LifeInv => CleanEndLeavesNothing
  BY DEF LifeInv, TidyInv, CleanEndLeavesNothing
<1> QED
  BY <1>1, LifeCorrect, PTL

\* While no director has died, what a director starts runs on the file the director
\* was given: no later child finds another path in the segment (direttore.c:365-373,
\* operatore.c:356, utente.c:365).
THEOREM SameConfigCorrect == Clients # {} /\ Spec => []SameConfig
<1>1. LifeInv => SameConfig
  BY DEF LifeInv, TidyInv, SameConfig
<1> QED
  BY <1>1, LifeCorrect, PTL

\* The director's configuration, from load_config to the end of the director.
Started == {"spawn", "minute", "check", "adding", "kill", "remove", "unlink"}

SettingsInv ==
    dirPc \in Started =>
        /\ g_config \in poste_config
        /\ \A k \in Keys \ {"num_users"} : g_config[k] = Meant(Text(file), k)
        /\ Meant(Text(file), "num_users") \in Int
        /\ g_config.num_users >= Meant(Text(file), "num_users")

LEMMA SettingsLoaded == ASSUME FitInv, DirLoadConfig PROVE SettingsInv'
<1>1. file \in Paths /\ file' = file /\ g_config' = load_config(Text(file))
  BY DEF FitInv, DirLoadConfig, Configured, Load
<1>2. Text(file) \in Seq(Lines)
  BY <1>1, TextFact
<1>3. \A k \in Keys : g_config'[k] = Meant(Text(file), k)
  BY <1>1, <1>2, LastValueCorrect DEF LastValueCounts
<1>4. g_config' \in poste_config
  BY <1>1, <1>2, LoadMakesSense DEF ConfigOK
<1>5. "num_users" \in Keys /\ g_config'.num_users \in Int
  BY <1>4 DEF poste_config, Keys, PositiveKeys
<1> QED
  BY <1>1, <1>3, <1>4, <1>5 DEF SettingsInv

\* Only the number of users grows.
LEMMA SettingsGrow ==
    ASSUME SettingsInv, DirTakeRequest, client' \in Clients PROVE SettingsInv'
<1> DEFINE n == NewUsers[client']
<1>1. /\ dirPc = "check" /\ file' = file
      /\ g_config' = [g_config EXCEPT !.num_users = @ + n]
  BY DEF DirTakeRequest, TakeRequest, At
<1>2. n \in Nat
  BY SizeFact
<1> HIDE DEF n
<1>3. /\ g_config \in [Keys -> Int] /\ "num_users" \in Keys
      /\ \A k \in Keys \ {"num_users"} : g_config[k] = Meant(Text(file), k)
      /\ Meant(Text(file), "num_users") \in Int
      /\ g_config.num_users >= Meant(Text(file), "num_users")
  BY <1>1 DEF SettingsInv, Started, poste_config, Keys, PositiveKeys
<1>4. /\ g_config' \in [Keys -> Int]
      /\ \A k \in Keys \ {"num_users"} : g_config'[k] = g_config[k]
      /\ g_config'.num_users = g_config.num_users + n
  BY <1>1, <1>2, <1>3
<1> QED
  BY <1>1, <1>2, <1>3, <1>4 DEF SettingsInv, poste_config

LEMMA SettingsNext ==
    SettingsInv /\ FitInv /\ FitInv' /\ [Next]_vars => SettingsInv'
<1> SUFFICES ASSUME SettingsInv, FitInv, FitInv', [Next]_vars PROVE SettingsInv'
  OBVIOUS
<1>1. CASE DirLoadConfig
  BY <1>1, SettingsLoaded
<1>2. CASE DirTakeRequest
  <2>1. client' \in Clients
    BY DEF FitInv
  <2> QED
    BY <1>2, <2>1, SettingsGrow
<1>3. ASSUME UNCHANGED <<file, g_config>>, dirPc' \in Started => dirPc \in Started
      PROVE  SettingsInv'
  BY <1>3 DEF SettingsInv
<1>4. CASE DirStart \/ DirOpenQueues \/ DirMapMemory \/ DirUnlink \/ DirDies
  <2>1. dirPc' \notin Started
    BY <1>4 DEF DirStart, DirOpenQueues, DirMapMemory, DirUnlink, DirDies, Goto, Started
  <2> QED
    BY <2>1 DEF SettingsInv
<1>5. CASE DirSpawn \/ DirMinute \/ DirNoRequest \/ DirAddUser \/ DirReply \/ DirKill
           \/ DirRemoveQueues
  <2>1. UNCHANGED <<file, g_config>> /\ dirPc \in Started
    BY <1>5 DEF DirSpawn, DirMinute, DirNoRequest, DirAddUser, DirReply, Reply, DirKill,
       DirRemoveQueues, At, Started
  <2> QED
    BY <1>3, <2>1
<1>6. CASE Ipcrm \/ (\E c \in Clients : ClStep(c)) \/ UNCHANGED vars
  <2>1. UNCHANGED <<file, g_config, dirPc>>
    BY <1>6 DEF Ipcrm, ClStep, ClOpen, ClSend, ClReceive, ClRemoved, vars
  <2> QED
    BY <1>3, <2>1
<1> QED
  BY <1>1, <1>2, <1>4, <1>5, <1>6 DEF Next, DirStep

\* The director runs on what its file says, whatever the file, the requests for users
\* and the directors before it (config.c:67-128, direttore.c:187-194, 365).
THEOREM FilesUnderstoodCorrect == Clients # {} /\ Spec => []FilesAreUnderstood
<1>1. Init => SettingsInv
  BY DEF Init, SettingsInv, Started
<1>2. SettingsInv => FilesAreUnderstood
  <2>1. LastValueCounts(Texts)
    BY LastValueCorrect, FilesAssumption DEF LastValueCounts
  <2> QED
    BY <2>1 DEF SettingsInv, Started, FilesAreUnderstood
<1> QED
  BY <1>1, <1>2, SettingsNext, FitInit, FitNext, RequestInit, RequestNext, PTL DEF Spec
=============================================================================
