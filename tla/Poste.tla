-------------------------------- MODULE Poste --------------------------------
(***************************************************************************)
(* The whole simulation: director, ticket dispenser, operators and users   *)
(* over one shared memory and one message queue.  Every step is a step of  *)
(* one process; after the director has killed its children only its own    *)
(* report remains.                                                         *)
(***************************************************************************)
EXTENDS Erogatore, Operatore, Utente, Direttore

vars == <<sharedVars, erVars, opVars, utVars, dirVars>>

Init == SharedInit /\ ErInit /\ OpInit /\ UtInit /\ DirInit

ErStep == Running /\ ErNext /\ UNCHANGED <<opVars, utVars, dirVars>>
OpStep(o) == Running /\ OpNext(o) /\ UNCHANGED <<erVars, utVars, dirVars>>
UtStep(u) == Running /\ UtNext(u) /\ UNCHANGED <<erVars, opVars, dirVars>>
DirStep == DirNext /\ UNCHANGED <<erVars, opVars, utVars>>

Next == \/ ErStep
        \/ \E o \in Operators : OpStep(o)
        \/ \E u \in Users : UtStep(u)
        \/ DirStep

Spec == Init /\ [][Next]_vars

(* The kernel runs every process that can run.  Nothing is assumed of the   *)
(* director's clock: a behaviour may stop at any minute of any day, so a    *)
(* liveness property may not lean on the end of the simulation.             *)
Fairness == /\ WF_vars(ErStep)
            /\ \A o \in Operators : WF_vars(OpStep(o))
            /\ \A u \in Users : WF_vars(UtStep(u))
FairSpec == Spec /\ Fairness

TypeOK == SharedTypeOK /\ ErTypeOK /\ OpTypeOK /\ UtTypeOK /\ DirTypeOK
-----------------------------------------------------------------------------
(* The messages in flight.                                                  *)

\* The user a message is about.
Subject(m) == IF m.kind \in {"ticket_request", "service_request"}
              THEN m.pid ELSE m.mtype

Serving(o) == opPc[o] = "serve"
Positions == 1 .. Len(queue)

Belongs(m) ==
    LET u == Subject(m)
    IN  /\ u \in Users
        /\ m.kind = "ticket_request" =>
              m.mtype = TicketRequestType /\ utPc[u] = "awaitTicket"
        /\ m.kind = "ticket_response" =>
              utPc[u] = "awaitTicket" /\ m.ticket \in 0 .. (ticket_counter - 1)
        /\ m.kind = "service_request" =>
              /\ utPc[u] = "awaitDone" /\ m.ticket = utTicket[u]
              /\ m.mtype = ServiceRequestType(utOp[u])
        /\ m.kind = "service_done" =>
              utPc[u] = "awaitDone" /\ m.ticket = utTicket[u]

\* Every message belongs to a user who is blocked waiting for its outcome, and
\* carries that user's ticket; so does the request the dispenser or an operator
\* is working on.  An answer is never for an earlier request of its receiver:
\* the msgrcv of utente.c:47 and utente.c:85 tell replies apart by pid alone.
RepliesMatch ==
    /\ \A i \in Positions : Belongs(queue[i])
    /\ erReq # 0 => erReq \in Users /\ utPc[erReq] = "awaitTicket"
    /\ \A o \in Operators : Serving(o) =>
          /\ opCust[o] \in Users
          /\ utPc[opCust[o]] = "awaitDone"
          /\ opTicket[o] = utTicket[opCust[o]]

\* A user's request is in exactly one place: no user has two messages in the
\* queue, none while the dispenser or an operator holds its request, and no two
\* operators serve one user (operatore.c:262-306, erogatore_ticket.c:34-54).
OneMessagePerUser ==
    /\ \A i, j \in Positions : Subject(queue[i]) = Subject(queue[j]) => i = j
    /\ \A i \in Positions : /\ Subject(queue[i]) # erReq
                            /\ \A o \in Operators : Serving(o) => Subject(queue[i]) # opCust[o]
    /\ \A o \in Operators : Serving(o) => opCust[o] # erReq
    /\ \A o, p \in Operators : Serving(o) /\ Serving(p) /\ opCust[o] = opCust[p] => o = p

\* No request is lost: a user blocked in a receive still has its message in the
\* queue or in somebody's hands (utente.c:45-99).
InFlight(u) == \/ \E i \in Positions : Subject(queue[i]) = u
               \/ erReq = u
               \/ \E o \in Operators : Serving(o) /\ opCust[o] = u
NothingLost ==
    \A u \in Users : utPc[u] \in {"awaitTicket", "awaitDone"} => InFlight(u)

\* No two users hold the same ticket, and none is held that the dispenser has
\* not counted yet (erogatore_ticket.c:45-53).
TicketsUnique ==
    \A u \in Users : utPc[u] \in Ticketed =>
        /\ utTicket[u] \in 0 .. (ticket_counter - 1)
        /\ \A v \in Users : utPc[v] \in Ticketed /\ utTicket[v] = utTicket[u] => v = u
        /\ \A i \in Positions : queue[i].kind = "ticket_response" =>
              queue[i].ticket # utTicket[u]

\* With room in the queue for one message per user no msgsnd ever blocks: the
\* processes cannot all be stuck on a full queue (msg_queue.c:10-18).
AboutToSend == \/ erReq # 0
               \/ \E o \in Operators : Serving(o)
               \/ \E u \in Users : utPc[u] \in {"request", "present"}
SendsNeverBlock ==
    QueueCapacity >= Cardinality(Users) /\ AboutToSend => Len(queue) < QueueCapacity
-----------------------------------------------------------------------------
(* The counters.                                                            *)

\* The pid in a seat is the pid of an operator who is there now: a user that
\* reads a pid other than 0 reads an operator at work at that counter
\* (operatore.c:31-50, direttore.c:167-176, utente.c:278).
RegisteredIsPresent ==
    \A i \in Seats : LET o == seats[i].operator_process
                     IN  o # 0 => opPc[o] \in OnDuty /\ opSeat[o] = i

\* The two fields an operator writes never contradict one another, whoever else
\* writes them: a counter shown to users as staffed has a pid to write to
\* (operatore.c:31-50, direttore.c:167-176, utente.c:199-203).
StaffedHasPid ==
    \A i \in Seats : seats[i].operator_status = "OCCUPIED" <=> seats[i].operator_process # 0

\* Until the second day is set up, two users are never at one counter
\* (utente.c:212-231, 297-310).  See FreesOwnSeat for the days after.
FirstDayOneUserPerSeat ==
    current_day <= 1 =>
        \A u, v \in Users :
            utPc[u] \in AtSeat /\ utPc[v] \in AtSeat /\ utSeat[u] = utSeat[v] => u = v

\* Until the first closing hour a counter closed to users has one at it: whoever
\* takes it gives it back, or is still there (utente.c:212-231, 297-310).  Only a
\* service that ends late leaves a counter closed behind it.
FirstDayHeldCounterHasUser ==
    current_day <= 1 /\ ~ShiftOver =>
        \A i \in Seats : seats[i].user_status = "OCCUPIED" =>
            \E u \in Users : utPc[u] \in AtSeat /\ utSeat[u] = i

\* After the first closing hour there is a closing token for every operator that has
\* not gone home, as soon as every user has begun the day: until then an operator
\* that is home early may begin it a second time with a user's token, and take the
\* closing token of another (direttore.c:397-407, operatore.c:205-207, 264, 393,
\* utente.c:389).
AfterFirstClosing ==
    /\ CloseMinute > 0 /\ current_day = 1 /\ current_minute > CloseMinute
    /\ \A u \in Users : begun[u] = 1
InRound(o) == opPc[o] \notin {"dayWait", "leave", "signal"}
FirstDayTokensSuffice ==
    AfterFirstClosing => Cardinality({o \in Operators : InRound(o)}) <= close_poste_event

\* On the first day nobody is let in before the opening hour, and no token sends an
\* operator home before the closing hour; left-over tokens do both later
\* (direttore.c:396-407).
FirstDayOpensOnTime ==
    current_day <= 1 /\ current_minute < OpenMinute =>
        /\ \A o \in Operators : opPc[o] \in {"dayWait", "openWait"}
        /\ \A u \in Users : utPc[u] \in {"dayWait", "decide", "openWait"}
FirstDayShiftsLast ==
    [][current_day <= 1 /\ close_poste_event' < close_poste_event
          => current_minute >= CloseMinute]_vars

\* On the first day an operator that finds no counter for its service has none, also
\* those it looked at first (operatore.c:185-191).
FirstDaySentHomeRightly ==
    [][current_day <= 1 =>
          \A o \in Operators : opPc[o] = "arrived" /\ opPc'[o] = "dayWait" =>
              \A i \in Seats : seats[i].service_id # opService[o]]_vars

\* Nobody who is late in a day's round goes uncounted: a user that began its round
\* today and has been late is among the late users compared with explode_max
\* (utente.c:172-189, 376, direttore.c:159-162, 412).
LateAreCounted ==
    Cardinality({u \in Users : /\ utBeenLate[u] /\ begun[u] = current_day
                               /\ utPc[u] # "decide"}) <= late_users
-----------------------------------------------------------------------------
(* How it ends.                                                             *)

\* An explosion is never reported as a timeout, although write_stats does not look
\* at how the loop ended but at today's count once more (direttore.c:412-415, 258).
\* The explosion leaves the loop after the day was counted and before
\* current_day is set, so the two differ exactly then.  The other way round it
\* happens: users go on being late between the last midnight and the end.
Exploded == dirPc \in {"terminate", "report", "done"} /\ days_elapsed # current_day
ExplosionReported == dirPc = "done" /\ Exploded => exit_mode # "timeout"
-----------------------------------------------------------------------------
(* Progress.  None of these is helped by the end of the simulation: the     *)
(* clock may stop at any point.                                             *)

\* A ticket request is answered (utente.c:45-62).
TicketAnswered ==
    \A u \in Users : utPc[u] = "awaitTicket" ~> (utPc[u] # "awaitTicket" \/ ~Running)

\* A user that wrote to an operator is answered, unless that operator leaves its
\* counter first (utente.c:83-99, operatore.c:262-329).
ServedOrDeserted ==
    \A u \in Users : \A o \in Operators :
        (utPc[u] = "awaitDone" /\ utOp[u] = o)
            ~> (utPc[u] # "awaitDone" \/ opPc[o] \notin OnDuty \/ ~Running)

\* On the first day, once the closing hour has passed and every user has begun its
\* day, every operator leaves its counter or its wait for one: see
\* FirstDayTokensSuffice (direttore.c:403-407, operatore.c:199-219, 264-275).
OnPremises(o) == opPc[o] \in OnDuty \cup {"waitSeat", "timedOut", "scan", "take"}
FirstDayOperatorsGoHome ==
    \A o \in Operators :
        (OnPremises(o) /\ AfterFirstClosing) ~> (~OnPremises(o) \/ current_day # 1 \/ ~Running)
-----------------------------------------------------------------------------
(* What the documents and comments say and the code does not do.  Each is   *)
(* checked by a run of its own that ends in a counterexample.               *)

\* README.md:418: a counter is occupied by a single operator.  wait_for_station
\* finds the seat free without the lock and work_loop takes it without looking
\* again (operatore.c:212-215, 253-258).  Stated for the first day only: no
\* midnight is needed.
OneOperatorPerSeat ==
    current_day <= 1 =>
        \A o, p \in Operators :
            opPc[o] \in OnDuty /\ opPc[p] \in OnDuty /\ opSeat[o] = opSeat[p] => o = p

\* README.md:425: a shift begun lasts until the end of the working day.  The
\* token of an operator that had already gone home ends another one's next
\* shift (operatore.c:194-196, 264).
ShiftEndsAtClosing ==
    [][\A o \in Operators : opPc[o] = "closed?" /\ opPc'[o] = "leave"
                                => current_minute >= CloseMinute]_vars

\* README.md:448: a user still queueing at the end of the day gives up.  One that
\* has written to an operator blocks without a limit (utente.c:287), also when the
\* operator it wrote to has left, or never was: a new day finds it blocked.
Deserted(u) ==
    /\ utPc[u] = "awaitDone"
    /\ \A i \in Positions : queue[i].kind = "service_done" => Subject(queue[i]) # u
    /\ \A o \in Operators : o = utOp[u] => opPc[o] \notin OnDuty
WaitEndsWithTheDay == [][current_day' # current_day => \A u \in Users : ~Deserted(u)]_vars

\* utente.c:306: the seat released is the one that was taken.  After a midnight it
\* is somebody else's (utente.c:308, direttore.c:171).
FreesOwnSeat ==
    \A u, v \in Users : utPc[u] = "free" /\ utPc[v] \in AtSeat /\ utSeat[u] = utSeat[v]
                            => u = v
=============================================================================
