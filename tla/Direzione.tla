------------------------------ MODULE Direzione ------------------------------
(***************************************************************************)
(* The director's life and the resources of the machine that outlive it:   *)
(* two message queues, two segments of shared memory, the children.  The   *)
(* simulated day is reduced to its minutes; what happens in one is         *)
(* check_new_users_queue, and outside are the new_users clients.           *)
(*                                                                         *)
(*   "off"       no director is running                                    *)
(*   "queues"    mq_open of both queues                                    *)
(*   "memory"    init_shared_memory of both segments                       *)
(*   "config"    load_config, configuration_file                           *)
(*   "spawn"     start_process, child after child                          *)
(*   "minute"    the loop condition and midnight                           *)
(*   "check"     check_new_users_queue, the receive                        *)
(*   "adding"    its loop of start_process, then the reply                 *)
(*   "kill"      SIGKILL and waitpid                                       *)
(*   "remove"    mq_close of both queues                                   *)
(*   "unlink"    cleanup_shared_memory of both segments                    *)
(***************************************************************************)
EXTENDS Config, FiniteSets, Functions

CONSTANTS
    Clients,            \* new_users processes
    NewUsers,           \* what each asks for: N_NEW_USERS
    Files,              \* configuration files that may be given with --config
    Texts,              \* files of which FilesAreUnderstood asks what is read in them
    NoFile,             \* no --config: the empty path
    NoSegment,          \* no /poste_stats
    DayMinutes,
    MaxStarts,          \* bound: directors started one after the other
    MaxDeaths           \* bound: directors that die before their clean-up

ASSUME ClientAssumption == NewUsers \in [Clients -> Nat \ {0}]
ASSUME FilesAssumption == Files \subseteq Seq(Lines) /\ Texts \subseteq Seq(Lines)

VARIABLES
    mqId,               \* id of the new-users queue, 0 when there is none
    mqIds,              \* ids given so far
    mq,                 \* its messages
    ticketMq,           \* whether the ticket queue exists
    stats,              \* poste_stats: its configuration_file, or NoSegment
    procs,              \* the children alive: kind and configuration file of each;
                        \* the dispenser reads none
    lastPid,
    dirPc,
    file,               \* config_file
    g_config,
    children,           \* children[0 .. idx - 1]
    capacity,           \* pids the allocated array holds
    dangling,           \* main's children is a block that realloc has freed
    client, left,       \* the request being executed: its sender, users to start
    minutes_elapsed, days_elapsed,
    clPc,
    clMq,               \* the queue id a client holds
    added,              \* history: users started for each client
    starts, deaths,     \* history: directors started, and dead before their clean-up
    cleaned,            \* history: ipcrm was run since the last death
    inherited           \* history: the segment was there when the director started

ipc == <<mqId, mqIds, mq, ticketMq, stats>>
people == <<procs, lastPid, children, capacity, dangling, added>>
clock == <<minutes_elapsed, days_elapsed>>
clients == <<clPc, clMq>>
history == <<starts, deaths, cleaned, inherited>>
vars == <<ipc, people, dirPc, file, g_config, client, left, clock, clients, history>>
-----------------------------------------------------------------------------
Paths == Files \cup {NoFile}
Text(f) == IF f = NoFile THEN << >> ELSE f
Load(f) == load_config(Text(f))
Request(c) == [kind |-> "request", of |-> c]
Done(c) == [kind |-> "done", of |-> c]
IsFirst(m, i) == mq[i] = m /\ \A j \in 1 .. (i - 1) : mq[j] # m
Staff(g) == 1 + g.num_operators + g.num_users
SomeClient == CHOOSE c \in Clients : TRUE

Init ==
    /\ mqId = 0 /\ mqIds = 0 /\ mq = << >> /\ ticketMq = FALSE /\ stats = NoSegment
    /\ procs = << >> /\ lastPid = 0 /\ children = << >> /\ capacity = 0 /\ dangling = FALSE
    /\ added = [c \in Clients |-> 0]
    /\ dirPc = "off" /\ file = NoFile /\ g_config = Default
    /\ client = SomeClient /\ left = 0
    /\ minutes_elapsed = 0 /\ days_elapsed = 0
    /\ clPc = [c \in Clients |-> "start"] /\ clMq = [c \in Clients |-> 0]
    /\ starts = 0 /\ deaths = 0 /\ cleaned = TRUE /\ inherited = FALSE

Goto(pc) == dirPc' = pc
At(pc) == dirPc = pc
-----------------------------------------------------------------------------
(* Start.                                                                   *)
DirStart ==
    /\ At("off") /\ starts < MaxStarts
    /\ starts' = starts + 1
    /\ file' \in Paths
    /\ g_config' = Default
    /\ children' = << >> /\ capacity' = 0 /\ dangling' = FALSE
    /\ minutes_elapsed' = 0 /\ days_elapsed' = 0
    /\ Goto("queues")
    /\ UNCHANGED <<ipc, procs, lastPid, added, client, left, clients,
                   deaths, cleaned, inherited>>

\* IPC_CREAT without IPC_EXCL: a queue that is there is used as it is.
DirOpenQueues ==
    /\ At("queues")
    /\ ticketMq' = TRUE
    /\ \/ mqId # 0 /\ UNCHANGED <<mqId, mqIds>>
       \/ mqId = 0 /\ mqId' = mqIds + 1 /\ mqIds' = mqIds + 1
    /\ Goto("memory")
    /\ UNCHANGED <<mq, stats, people, file, g_config, client, left, clock, clients, history>>

\* O_CREAT without O_TRUNC: a segment that is there keeps its contents.
DirMapMemory ==
    /\ At("memory")
    /\ stats' = IF stats = NoSegment THEN NoFile ELSE stats
    /\ inherited' = (stats # NoSegment)
    /\ Goto("config")
    /\ UNCHANGED <<mqId, mqIds, mq, ticketMq, people, file, g_config, client, left, clock,
                   clients, starts, deaths, cleaned>>

Configured ==
    /\ At("config")
    /\ g_config' = Load(file)
    /\ capacity' = Staff(Load(file))
    /\ Goto("spawn")
    /\ UNCHANGED <<mqId, mqIds, mq, ticketMq, procs, lastPid, children, dangling, added,
                   file, client, left, clock, clients, history>>

\* A slip: the path is not left for the children to read.
DirLoadConfigUnpublished == Configured /\ UNCHANGED stats

\* configuration_file is written only when there is a path to write.
DirLoadConfig == Configured /\ stats' = IF file = NoFile THEN stats ELSE file

\* fork; an operator or a user loads the file whose path it finds in shared memory.
FileRead(kind) == IF kind = "erogatore" THEN NoFile ELSE stats
start_process(kind) ==
    /\ lastPid' = lastPid + 1
    /\ procs' = [p \in DOMAIN procs \cup {lastPid + 1} |->
                    IF p = lastPid + 1 THEN [kind |-> kind, config |-> FileRead(kind)]
                                       ELSE procs[p]]
    /\ children' = Append(children, lastPid + 1)

DirSpawn ==
    /\ At("spawn")
    /\ \/ /\ Len(children) < Staff(g_config)
          /\ start_process(CASE Len(children) = 0 -> "erogatore"
                             [] Len(children) \in 1 .. g_config.num_operators -> "operatore"
                             [] OTHER -> "utente")
          /\ UNCHANGED dirPc
       \/ /\ Len(children) = Staff(g_config)
          /\ Goto("minute")
          /\ UNCHANGED <<lastPid, procs, children>>
    /\ UNCHANGED <<ipc, capacity, dangling, added, file, g_config, client, left, clock,
                   clients, history>>
-----------------------------------------------------------------------------
(* The loop.                                                                *)

\* The day's late users decide about the explosion; here it may happen, at the first
\* midnight only by the late users a dead director has left in the segment.
MayExplode == days_elapsed > 0 \/ inherited
DirMinute ==
    /\ At("minute")
    /\ \/ /\ days_elapsed >= g_config.sim_duration
          /\ Goto("kill")
          /\ UNCHANGED clock
       \/ /\ days_elapsed < g_config.sim_duration
          /\ minutes_elapsed % DayMinutes = 0
          /\ days_elapsed' = days_elapsed + 1
          /\ \/ MayExplode /\ Goto("kill") /\ UNCHANGED minutes_elapsed
             \/ Goto("check") /\ minutes_elapsed' = 0
       \/ /\ days_elapsed < g_config.sim_duration
          /\ minutes_elapsed % DayMinutes # 0
          /\ Goto("check")
          /\ UNCHANGED clock
    /\ UNCHANGED <<ipc, people, file, g_config, client, left, clients, history>>

MinuteOver == /\ Goto("minute")
              /\ minutes_elapsed' = minutes_elapsed + 1
              /\ UNCHANGED days_elapsed

DirNoRequest ==
    /\ At("check")
    /\ \A i \in 1 .. Len(mq) : mq[i].kind # "request"
    /\ MinuteOver
    /\ UNCHANGED <<ipc, people, file, g_config, client, left, clients, history>>

\* realloc may move the array; main's pointer, passed by value, stays where it was.  A
\* later realloc is then given a freed block: it aborts (DirDies), or returns a block
\* of the size asked for.  What else it may damage is outside the model.
TakeRequest(size) ==
    /\ At("check")
    /\ \E i \in 1 .. Len(mq) :
          /\ mq[i].kind = "request"
          /\ \A j \in 1 .. (i - 1) : mq[j].kind # "request"
          /\ mq' = RemoveAt(mq, i)
          /\ client' = mq[i].of
    /\ left' = NewUsers[client']
    /\ capacity' = size
    /\ dangling' \in {dangling, TRUE}
    /\ Goto("adding")
    /\ UNCHANGED <<mqId, mqIds, ticketMq, stats, procs, lastPid, children, added, file,
                   clock, clients, history>>

\* Slips: the new users are not added to the configuration; they are, but after the
\* array has been given its new size.
DirTakeRequestUncounted ==
    TakeRequest(Staff(g_config) + NewUsers[client']) /\ UNCHANGED g_config
DirTakeRequestOldSize ==
    /\ TakeRequest(Staff(g_config))
    /\ g_config' = [g_config EXCEPT !.num_users = @ + NewUsers[client']]

DirTakeRequest ==
    /\ TakeRequest(Staff(g_config) + NewUsers[client'])
    /\ g_config' = [g_config EXCEPT !.num_users = @ + NewUsers[client']]

DirAddUser ==
    /\ At("adding") /\ left > 0
    /\ start_process("utente")
    /\ left' = left - 1
    /\ added' = [added EXCEPT ![client] = @ + 1]
    /\ UNCHANGED <<ipc, capacity, dangling, dirPc, file, g_config, client, clock, clients,
                   history>>

Reply ==
    /\ At("adding")
    /\ mq' = Append(mq, Done(client))
    /\ left' = 0
    /\ MinuteOver
    /\ UNCHANGED <<mqId, mqIds, ticketMq, stats, people, file, g_config, client, clients,
                   history>>

\* A slip: the answer comes before the last user.
DirReplyEarly == left <= 1 /\ Reply

DirReply == left = 0 /\ Reply
-----------------------------------------------------------------------------
(* The end.                                                                 *)

\* The pids read in a freed block may be any; the two extremes are kept, that all
\* are still there and that none is.
DirKill ==
    /\ At("kill")
    /\ \/ procs' = Restrict(procs, DOMAIN procs \ ToSet(children))
       \/ dangling /\ UNCHANGED procs
    /\ Goto("remove")
    /\ UNCHANGED <<ipc, lastPid, children, capacity, dangling, added, file, g_config, client,
                   left, clock, clients, history>>

RemoveUsersQueue == mqId' = 0 /\ mq' = << >>

\* Slips of the clean-up: one queue is forgotten, or the other.
DirRemoveUsersQueueOnly ==
    /\ At("remove")
    /\ RemoveUsersQueue
    /\ Goto("unlink")
    /\ UNCHANGED <<mqIds, ticketMq, stats, people, file, g_config, client, left, clock,
                   clients, history>>
DirRemoveTicketQueueOnly ==
    /\ At("remove")
    /\ ticketMq' = FALSE
    /\ Goto("unlink")
    /\ UNCHANGED <<mqId, mq, mqIds, stats, people, file, g_config, client, left, clock,
                   clients, history>>

DirRemoveQueues ==
    /\ At("remove")
    /\ RemoveUsersQueue
    /\ ticketMq' = FALSE
    /\ Goto("unlink")
    /\ UNCHANGED <<mqIds, stats, people, file, g_config, client, left, clock,
                   clients, history>>

DirUnlink ==
    /\ At("unlink")
    /\ stats' = NoSegment
    /\ Goto("off")
    /\ UNCHANGED <<mqId, mqIds, mq, ticketMq, people, file, g_config, client, left, clock,
                   clients, history>>
-----------------------------------------------------------------------------
(* Death before the clean-up: killed, alone or with its children from the   *)
(* terminal; a file that cannot be opened, a fork or a nanosleep that       *)
(* fails; a second realloc of a block already freed.                        *)
DirDies ==
    /\ dirPc # "off" /\ deaths < MaxDeaths
    /\ deaths' = deaths + 1
    /\ cleaned' = FALSE
    /\ procs' \in {procs, << >>}
    /\ left' = 0
    /\ Goto("off")
    /\ UNCHANGED <<ipc, lastPid, children, capacity, dangling, added, file, g_config, client,
                   clock, clients, starts, inherited>>

\* What the makefile does before a run: System V queues go, POSIX segments stay.
Ipcrm ==
    /\ At("off") /\ ~cleaned
    /\ RemoveUsersQueue
    /\ ticketMq' = FALSE
    /\ cleaned' = TRUE
    /\ UNCHANGED <<mqIds, stats, people, dirPc, file, g_config, client, left, clock,
                   clients, starts, deaths, inherited>>
-----------------------------------------------------------------------------
(* The new_users client.                                                    *)
ClGoto(c, pc) == clPc' = [clPc EXCEPT ![c] = pc]

ClOpen(c) ==
    /\ clPc[c] = "start"
    /\ clMq' = [clMq EXCEPT ![c] = mqId]
    /\ ClGoto(c, IF mqId = 0 THEN "failed" ELSE "opened")
    /\ UNCHANGED <<ipc, people, dirPc, file, g_config, client, left, clock, history>>

ClSend(c) ==
    /\ clPc[c] = "opened"
    /\ \/ /\ clMq[c] = mqId
          /\ mq' = Append(mq, Request(c))
          /\ ClGoto(c, "sent")
       \/ clMq[c] # mqId /\ ClGoto(c, "failed") /\ UNCHANGED mq
    /\ UNCHANGED <<mqId, mqIds, ticketMq, stats, people, dirPc, file, g_config, client, left,
                   clock, clMq, history>>

ClReceive(c) ==
    /\ clPc[c] = "sent" /\ clMq[c] = mqId
    /\ \E i \in 1 .. Len(mq) : IsFirst(Done(c), i) /\ mq' = RemoveAt(mq, i)
    /\ ClGoto(c, "success")
    /\ UNCHANGED <<mqId, mqIds, ticketMq, stats, people, dirPc, file, g_config, client, left,
                   clock, clMq, history>>

\* The queue is gone: msgrcv fails, and the status tested next was never written.
ClRemoved(c) ==
    /\ clPc[c] = "sent" /\ clMq[c] # mqId
    /\ \E result \in {"unread success", "failed"} : ClGoto(c, result)
    /\ UNCHANGED <<ipc, people, dirPc, file, g_config, client, left, clock, clMq, history>>
-----------------------------------------------------------------------------
DirStep == \/ DirOpenQueues \/ DirMapMemory \/ DirLoadConfig \/ DirSpawn
           \/ DirMinute \/ DirNoRequest \/ DirTakeRequest \/ DirAddUser \/ DirReply
           \/ DirKill \/ DirRemoveQueues \/ DirUnlink
ClStep(c) == ClOpen(c) \/ ClSend(c) \/ ClReceive(c) \/ ClRemoved(c)
Next == DirStart \/ DirStep \/ DirDies \/ Ipcrm \/ \E c \in Clients : ClStep(c)

Spec == Init /\ [][Next]_vars

(* A process that can take its next step takes it; nobody has to start a    *)
(* director, to kill it or to clean up after it.                            *)
Fairness == WF_vars(DirStep) /\ \A c \in Clients : WF_vars(ClStep(c))
FairSpec == Spec /\ Fairness

TypeOK ==
    /\ mqId \in 0 .. mqIds /\ ticketMq \in BOOLEAN
    /\ stats \in Paths \cup {NoSegment}
    /\ DOMAIN procs \subseteq 1 .. lastPid /\ ToSet(children) \subseteq 1 .. lastPid
    /\ ConfigOK(g_config)
    /\ client \in Clients /\ left \in Nat
    /\ clPc \in [Clients -> {"start", "opened", "sent", "success", "unread success", "failed"}]
-----------------------------------------------------------------------------
\* A request is executed at most once, and in full before it is answered, whatever
\* becomes of the director that took it (direttore.c:187-219, new_users.c:49-70).
RequestOnce ==
    \A c \in Clients :
        /\ added[c] <= NewUsers[c]
        /\ (clPc[c] = "success" \/ \E i \in 1 .. Len(mq) : mq[i] = Done(c))
              => added[c] = NewUsers[c]

\* The configuration counts the users there are: it is by that count that the
\* director posts the tokens of a day and of an opening (direttore.c:181-183, 192,
\* 398).
UsersCounted ==
    dirPc \in {"minute", "check"} =>
        Cardinality({p \in ToSet(children) : p \in DOMAIN procs /\ procs[p].kind = "utente"})
            = g_config.num_users

\* The array of children is never written past its end (direttore.c:194-198,
\* 375-386).
ChildrenFit == Len(children) <= capacity

\* A director that reaches its end leaves nothing on the machine, whoever asked for
\* users meanwhile, and no child either if its array of children was never moved
\* (direttore.c:429-454, shared_mem.c:29-35).
CleanEndLeavesNothing ==
    dirPc = "off" /\ deaths = 0 =>
        /\ mqId = 0 /\ ~ticketMq /\ stats = NoSegment
        /\ ~dangling => ToSet(children) \cap DOMAIN procs = {}

\* If no director has died a director's operators and users run on its own
\* configuration file, also those it starts later (direttore.c:365-373,
\* operatore.c:356, utente.c:365).
RunsOn(p, f) == procs[p].kind # "erogatore" => procs[p].config = f
SameConfig ==
    deaths = 0 => \A p \in ToSet(children) \cap DOMAIN procs : RunsOn(p, file)

\* load_config gives every key the last value in the file that makes sense, in all
\* small files and in the one the director was given: from then on it runs on what
\* that file says, but that users may be added (config.c:67-128, direttore.c:187-194,
\* 365-373).
FilesAreUnderstood ==
    /\ starts = 0 => LastValueCounts(Texts)
    /\ dirPc \in {"spawn", "minute", "check", "adding", "kill", "remove", "unlink"} =>
          /\ \A k \in Keys \ {"num_users"} : g_config[k] = Meant(Text(file), k)
          /\ g_config.num_users >= Meant(Text(file), "num_users")

\* A client that has sent its request is not left blocked by a director that comes
\* to its end: it is answered, or its receive fails (new_users.c:49-61,
\* direttore.c:442).
ClientReturns ==
    \A c \in Clients : clPc[c] = "sent" ~> (clPc[c] # "sent" \/ deaths > 0)
-----------------------------------------------------------------------------
\* new_users.c:69: a client that prints "Received response message with success
\* status" has received one.  When the queue is removed it has received nothing and
\* tests a status nobody wrote (new_users.c:57-63).
SuccessMeansAdded ==
    \A c \in Clients : clPc[c] \in {"success", "unread success"} => added[c] = NewUsers[c]

\* README.md:252-253, 283: after a crash ipcrm -a is all it takes.  It leaves the shared
\* memory, where a director without --config leaves the dead one's path for its
\* children to load (direttore.c:366, shared_mem.c:14).
IpcrmIsEnough ==
    dirPc = "minute" /\ cleaned /\ DOMAIN procs \subseteq ToSet(children) =>
        \A p \in DOMAIN procs : RunsOn(p, file)
=============================================================================
