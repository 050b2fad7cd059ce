# Poste Italiane Simulation: a TLA+ development

The program simulates a post office with Unix processes: a director, a ticket
dispenser, a number of operators and a number of users share two POSIX
shared-memory segments, a few semaphores kept in them and a System V message
queue; while it runs, a client program may ask it for more users. This directory
models the simulated days, the statistics kept about them and the life of the
director around them, checks the models with TLC and proves the safety
properties, and both refinements, with TLAPS.

- [The system](#the-system) — components, state, interactions, what is hard
- [The modules](#the-modules) — which module models what, and the abstractions
- [The runs](#the-runs) — bounds, fairness, what each run shows
- [Disagreements](#disagreements-between-code-and-documents) found while modelling
- [The proofs](#the-proofs)
- [Limits and plan](#limits-and-plan)

Run from this directory: `tlc -config Poste_messages.cfg PosteServizio`, and with
the module that [The runs](#the-runs) names for each other `.cfg`; `tlapm PosteProofs.tla` and likewise for each proof module.

## The system

| Component | Source | State | Operations |
|---|---|---|---|
| Director | `src/src/direttore.c` | `minutes_elapsed`, `days_elapsed`, the children's pids | one loop iteration per simulated minute: opening and closing tokens, midnight (explosion test, `start_new_day`), `check_new_users_queue`, the clock; at the end `SIGKILL`, `print_final_stats`, `write_stats` |
| Ticket dispenser | `src/src/erogatore_ticket.c` | `ticket_counter`, the request in hand | receive a request, reply with the next number, count it |
| Operator | `src/src/operatore.c` | its service, its counter, the request in hand, pauses used | wait for the day, for the office, for a counter; take it; poll for requests; serve; pause; release |
| User | `src/src/utente.c` | its plan for the day, ticket, list of valid counters, counter, operator's pid, `been_late_today` | decide whether to go; walk in; for each service: ticket, counter, service, release; give up when late |
| Shared table of counters | `poste_stations` in `src/include/poste.h` | per seat: operator pid and status, user status, service; `stations_event` | written by director, operators, users under `stations_lock`, read with and without it |
| Shared statistics | `poste_stats` in `src/include/poste.h` | the clock, today's and total counts, the day/open/close semaphores | updated by everybody under `stats_lock`, read with and without it |
| Message queue | `src/src/systems/msg_queue.c`, `comunications.h` | typed messages in FIFO order, bounded size | blocking send, receive by type with or without waiting |
| `new_users` client | `src/src/new_users.c` | the id of the queue, the answer | asks the director over a second queue for more users |
| Configuration | `src/src/systems/config.c` | `g_config` | reads a `key=value` file |
| Shared-memory set-up | `src/src/systems/shared_mem.c` | names in `/dev/shm` | create, map, unlink |

How they interact.
*Tokens*: at midnight the director posts one `day_update_event` per process; at
the opening hour one `open_poste_event` per process; at the closing hour one
`close_poste_event` per operator. Nothing ties a token to a process.
*Messages*: a user sends a ticket request (type 1) and receives the ticket under
its own pid; it sends a service request under `30000 + operator pid` and
receives the answer, again under its own pid. All of them travel in one queue.
*The table*: an operator claims a seat by writing pid and status; a user looks
for staffed seats of its service, claims one by its user status, then reads the
operator's pid and writes to it. At midnight the director clears the table,
whoever is still there.

What is hard. Every process runs at its own speed and the table, the clock and
the tokens are shared, so the interesting behaviours are interleavings:
unlocked searches of the table, reads of the pid and of the hour that are stale
when used, tokens taken by the wrong process or on the wrong day, the midnight
reset under a running service, an operator that leaves between a user's look and
its request, blocking sends on a bounded queue, and an end of the simulation that
is worked out a second time from a count that has moved on. `PROJECT.json` lists
these hazards at their lines, with the properties that watch each of them.

What makes each component correct.

- *Messages*: a reply is for the receiver's current request; no request is lost
  or answered twice; tickets are unique; nobody is stuck on a full queue.
- *Counters*: a pid in the table is that of an operator who is there; pid and
  status agree; one user, one operator per counter; a user frees its own seat.
- *Days*: one round per day and process; nobody enters before the opening hour;
  shifts end at the closing hour, not before, and everyone gets home; who is sent
  home has nothing to do; as many days are lived as were asked for; the late users of a day
  are counted on that day; the cause of the end is reported as it was.
- *Statistics*: totals are the sums of their parts, and what two processes count
  about one service agrees; the report is written whatever the children were doing.
- *The director's life*: a request for users is executed once and before it is
  answered; users, configuration and array of children stay in step; a normal end
  leaves nothing and nobody behind; a crash leaves nothing that changes the next run.
- *Configuration*: a key has the last sensible value given.
- *Progress*: tickets are issued; a user served by an operator who stays is
  answered; operators leave after closing.

## The modules

| Module | Models | Uses |
|---|---|---|
| `PosteDefs` | constants and their assumptions, shared memory, semaphores, messages, the queue | community modules |
| `Erogatore` | the dispenser's loop | `PosteDefs` |
| `Operatore` | the operator's day | `PosteDefs` |
| `Utente` | the user's day | `PosteDefs` |
| `Direttore` | the director's loop, `start_new_day`, termination, exit mode | `PosteDefs` |
| `Poste` | their composition, all properties | the four above |
| `Servizio` | the promise: what a user sees of the office, without messages, counters or staff | — |
| `PosteServizio` | what of `Poste` a user sees (refinement mapping), and that it keeps the promise | `Poste`, `Servizio` |
| `Tabella` | the table of counters as those who lock it are meant to see it | — |
| `Stazioni` | the table under `stations_lock`, written field by field and read counter by counter, shown to implement `Tabella` | `Tabella`, community modules |
| `MCStazioni` | symmetry for `Stazioni` | `Stazioni` |
| `Statistiche` | the counters of `poste_stats`, update by update and increment by increment, midnight, kill, report | community modules |
| `Config` | `load_config` as a function from files to configurations | community modules |
| `Direzione` | the director from start to clean-up or death, the queues and segments, `new_users` | `Config` |
| `MCDirezione` | values for `Direzione`, `Config` over all small files | `Direzione` |
| `DataLemmas` | what the proofs need of sequences, least elements and folds | `TLAPS`, its theorem modules |
| `PosteProofs` | the types, who the table of counters says is at work | `Poste`, `DataLemmas` |
| `MessageProofs` | the messages | `PosteProofs` |
| `TicketProofs` | the tickets, the promise | `MessageProofs`, `PosteServizio` |
| `DayProofs` | the first day's counters, hours and closing tokens, the day's late users, the length and the cause of the end | `PosteProofs` |
| `StazioniProofs` | the table under its lock is one table, the unlocked test one moment | `Stazioni` |
| `StatisticheProofs` | the statistics add up | `Statistiche`, `DataLemmas` |
| `DirezioneProofs` | what a file amounts to and that the director runs on it, the requests for users, the director's children, files and clean-up | `Direzione`, `DataLemmas` |

Each process has a program counter (`opPc`, `utPc`, `dirPc`, and `erReq` for the
dispenser) whose values are explained at the head of its module, next to the
code they stand for. One action is the code between two points at which another
process can see or change something:

- **Critical sections** under `stations_lock` or `stats_lock` are one step, so the
  two mutexes are not variables; `Stazioni` and `Statistiche` look inside them. Nothing waits while it holds a lock, so a lock
  that is taken is released.
- **Unlocked reads are steps of their own.** `find_seat` in `wait_for_station` and
  `can_work_today` advance one seat per step; the user's reads of
  `operator_process` and of the closing hour, and the director's read of
  `late_users` at midnight, are separate from the steps that use them.
- **Semaphores** are counters. `sem_timedwait` in `wait_for_station` gets a
  deadline of `minute_duration * 5` nanoseconds after the epoch, which is always
  past: it takes a token that is there and otherwise fails at once
  (`OpStationEvent`, `OpStationTimeout`).
- **Messages** keep type, kind, sender and ticket. `msgsnd` blocks on a full
  queue, `msgrcv` takes the oldest message of a type. No process installs a signal
  handler, so the `EINTR` branches are unreachable and not modelled.
- **Time** is a counter of minutes with a day of `DayMinutes` (1440 in the code);
  the process speeds are arbitrary, so the duration of a service, a pause or a
  walk is any number of director steps.
- **Random choices** (will the user go, how many services, which service, the
  walk-in minute, whether the operator pauses, the services of the seats) are
  nondeterministic. The service of each list entry is drawn where it is first
  used, since nothing depends on it earlier.
- **Opening and new-day tokens** are posted in one step: they are only waited for,
  so a waiter cannot tell. **Closing tokens** are posted one by one, because
  operators try for them and may find too few.
- **The users are fixed** in `Poste`, and in `Statistiche`: `check_new_users_queue`, which
  the loop calls once a minute, is in `Direzione` only.
- **The end**: `DirTerminate` stands for the loop of `SIGKILL`s. While a kill loop
  is under way the children not yet hit may step, and those hit do not: both are
  behaviours of the model before that step. `write_stats` gives up when its folder or
  its file cannot be created: `DirReport` may then end with no exit mode written.
- `begun` is a history variable (the day on which a process last took a new-day
  token); no action reads it.

Left out of `Poste` because nothing in a day reads it: the statistics other than
today's late users, which have a module of their own, and `stations_freed_event`,
whose only wait is a `sem_trywait` with its result ignored.

**The promise** (`Servizio`). A user asks, the office issues a ticket nobody else
has, the user presents it to an operator and is served with that ticket or, if it
is not, stays in the service; it can give up while it has not presented itself,
and the office closes once. `PosteServizio` reads a user's phase off its program
counter, the queue and the servers' hands: a user is "served" from the moment its
answer is sent, not when it receives it, and has a ticket from the moment the
dispenser sends it. `KeepsPromise` is `Servizio`'s specification under that mapping.

**The table** (`Stazioni`). A process takes the lock, looks at one counter per step,
decides, and makes its assignments one by one in the order of the source (`writes`)
before it unlocks. Midnight does the same for every counter; the services are drawn
when it takes the lock, which nobody can tell, since none is read before it is
written. What processes do between their visits to the table is left out, and so is
`stations_event`: an operator may search at any time. The table that `Tabella`
speaks of is the one with the lock holder's remaining assignments made, so a
critical section takes effect when it decides. `Poste` may therefore take it as one
step. The unlocked `find_seat` is outside this argument; `FindsAreMoments` says that
taking its test of one counter as one step loses nothing either. The history
variable `suited` remembers whether the counter suited at some moment of the test.

**The statistics** (`Statistiche`). Each `update_*` function is a sequence of
cells of the book, in the order of the source; `Lock`, one `Increment` after the
other and `Unlock` are steps. `pending` holds the updates a process has still to
make. Of the processes' days only the calls to these functions remain, in the order
`Operatore` and `Utente` make them. Midnight clears the day's half under the lock.
The kill takes the children in the order of their pids, each with its `pending`
and, if it has it, with the lock. The report is what it reads after that, if its file
can be created. It is a single step: no child is left to change anything.

**The director's life** (`Direzione`). A run of the program is `DirStart` to
`DirUnlink` or `DirDies`; a day is reduced to its minutes, since what a minute does
here is `check_new_users_queue`. What outlives a director is kept apart from what
it has in memory: the new-users queue with an id that is never used twice, so that a
client holding a removed one is told; the ticket queue, of which only the existence
matters; `/poste_stats`, of which only `configuration_file` matters, and
whether it was there before (`inherited`: only then can the first midnight find late
users and explode); the children (`procs`), each with the file it loaded, but for the
dispenser, which loads none. The two `init_shared_memory` calls are one
step, as are the two `mq_open` and the two `mq_close`: nobody opens the ticket queue
or `/poste_stations` from outside. `realloc` may move the array, after which `main`
holds a freed block (`dangling`): the pids it reads there are anything, represented
by their extremes — all still there, none. The next `realloc` is given the freed block:
it aborts, which is a `DirDies`, or returns a block of the size asked for. A death before the clean-up may take the
children along or not. `Ipcrm` is what the makefile and the README do about it.

**The configuration** (`Config`). A line is a key and a value, `atoi` included, and
what its comment reads as if it is too long for the buffer; a file is folded into
the compiled-in configuration.

Several actions have a neighbour that differs by a slip (`ErReplyDropped`,
`OpPollPeeking`, `UtClaimAnySeat`, `DirClosingTooFew`, ...). They are not part of
any specification; each shows that one of the properties notices such a slip,
when it takes the place of the action after it.

## The runs

Unless stated otherwise a run of `Poste` has one operator, one user, one seat, one
service, opening at minute 1, closing at minute 3, days of 4 minutes, `SimDuration`
2, a queue of 2 messages. Deadlock checking is off because the system stops: after
`write_stats`, or after the last director, nothing is left to run.

| Run | Module, `.cfg` | Instance | Checks | States |
|---|---|---|---|---|
| `messages` | `PosteServizio`, `Poste_messages` | 2 users, `ExplodeMax` 1, an early leave allowed | `TypeOK`, `RepliesMatch`, `OneMessagePerUser`, `NothingLost`, `TicketsUnique`, `SendsNeverBlock`, `FirstDayOneUserPerSeat`, `FirstDayHeldCounterHasUser`, `LateAreCounted`, `ExplosionReported`, `KeepsPromise` | 1.8 M |
| `progress` | `Poste`, `Poste_progress` | fair; 2 seats, 2 services, 2 services per list, early leave | `FirstDaySentHomeRightly`, `ServedOrDeserted`, `TicketAnswered` | 490 k |
| `closing` | `Poste`, `Poste_closing` | fair; 2 operators, 1 user; opening at minute 2 | `RegisteredIsPresent`, `StaffedHasPid`, `FirstDayTokensSuffice`, `FirstDayOpensOnTime`, `FirstDayOperatorsGoHome`, `FirstDayShiftsLast` | 594 k |
| `table` | `MCStazioni`, `Stazioni` | 2 operators, 2 users, 2 seats, 2 services, any number of days | `TypeOK`, `ActsAsOneTable`, `FindsAreMoments` | 480 k |
| `statistics` | `Statistiche`, `Statistiche` | fair; 1 operator, 2 users, 2 services; 1 visit, 1 shift, 1 midnight | `TypeOK`, `BooksBalance`, `RequestsAccounted`, `ReportOffByOne`, `ReportNotHeldUp` | 630 k |
| `director` | `MCDirezione`, `Direzione` | fair; 2 starts, 1 death, 2 clients asking for 2 and 1 users, days of 2 minutes, with a file or without | `TypeOK`, `RequestOnce`, `UsersCounted`, `ChildrenFit`, `CleanEndLeavesNothing`, `SameConfig`, `FilesAreUnderstood`, `ClientReturns` | 320 k |

Why these bounds are enough to be interesting.

- `DayMinutes` 4 leaves a minute before opening, a shift of two minutes and a
  minute after closing. Where users are to be served closing must be at
  least two minutes after opening: the earliest walk-in is a minute after opening, and
  a user that arrives with the shift over asks for nothing. In `closing` it is one
  minute, since there a user matters only for the tokens it takes or leaves, and two
  minutes come before it in which nobody may be let in.
- `SimDuration` 2 contains one lived day and the set-up of a second, at which
  processes of the first may still be at work; 3 contains a second lived day with
  left-over tokens.
- Two users make messages of different owners meet in the queue and compete for a
  seat. A queue
  of two messages is exactly the hypothesis of `SendsNeverBlock`: with one place
  less, a second user that sends finds it full.
- `progress` needs two services per user to distinguish an answer from the next
  request, and two seats with two services for a search that can go past the right
  counter, or find none. It has one user: with two, under fairness, TLC does not end in
  reasonable time, so `TicketAnswered` does not show that a user is not passed over by
  another at the dispenser. `messages` has two users and looks at safety only.
- In `closing` two operators have one seat. That they share it takes three visits to
  it, so one of the two has to come twice on a day, with the new-day token of the
  user; the same second round is what the closing tokens are checked against.
- The runs with one service have every operator find a counter of its kind.
  `shift_cut_short` uses two services, where one may not.
- `statistics`: one operator and two users put three processes at the lock, and
  midnight and kill at every point between two increments; a second visit only
  repeats the same updates. Two services let a total differ from a service's count
  and let an answer name another service than the one asked for.
- `table`: two users compete with one another, and one operator can take the counter
  the other is testing. All four are about one service (`Wanted`), the counters are
  of that one or the other: who is about another service makes no difference to a
  process but through the table, and midnight changes that anyway. Processes of a kind
  are interchangeable (symmetry). The run needs no counter of days: it has
  finitely many states.
- `director`: the second start finds what the first left, with or without `ipcrm`
  between; two requests make the array grow twice and leave one request in the queue
  when the director ends. The file a director may be given has two good values of one
  key, a bad one and a tail. Before the first start `FilesAreUnderstood` also looks at all
  2955 files (`Texts`) of up to three lines over a key that must be positive, one that may
  be 0 and one that is none, with values on either side of both bounds, and two lines
  with a comment too long: three lines are a good value, a bad one and another key or a
  second good one.

**Fairness.** `FairSpec` adds weak fairness of each process's step: a process that
can run is eventually scheduled. The operators and users sleep and block in the
kernel but are never held back otherwise. Nothing is assumed of the director.
A behaviour may therefore stop at any minute, and no liveness property can be
satisfied by the end of the simulation having to come: users and operators must
make the progress by themselves. Where a property says "unless `~Running`" it only
excuses the kill. For the same reason `FirstDayOperatorsGoHome` starts when the
minute after closing has begun, when all closing tokens are posted, and when every
user has begun the day. Without the second condition it is false: an operator that is
home early takes a user's new-day token, goes round again and takes the closing token
of another, for whom there is none. `FirstDayTokensSuffice` says that this is the only way.

In `Statistiche` fairness is only asked of the director once it has begun to kill:
a loop of `kill` and `waitpid` on processes that get `SIGKILL`, then the report, with
nothing to wait for. The children need none: `ReportNotHeldUp` says that they cannot
hold up the report. In `Direzione` the director's next step and each client's are
weakly fair; starting a director, its death and `ipcrm` are not. A client is thus
answered, or told that its queue is gone, because the director counts its minutes
and comes to its end, unless it dies, in which case its clients may wait for good.

Properties limited to the first day are so limited because they fail afterwards:
`FirstDayOneUserPerSeat` by `frees_another_seat`; `FirstDaySentHomeRightly`, and
`FirstDayOwnService` of the proofs, by a midnight that gives the counters other services while
an operator searches; `FirstDayOpensOnTime`, `FirstDayShiftsLast` and
`FirstDayTokensSuffice`, and with it `FirstDayOperatorsGoHome`, by tokens left over, of
which there may be too many or, after an operator's second round, too few.
`FirstDayHeldCounterHasUser` ends with the first closing hour, after which a late user
keeps its counter closed. They say nothing about the hazards of later days: what goes
wrong there is shown by the runs that end in a counterexample, or told under
[Disagreements](#disagreements-between-code-and-documents) and, in `PROJECT.json`,
listed as a hazard without a property.

`LateAreCounted` follows the users counted on the day they began, and leaves out one that
has passed the hour check before midnight and is counted after it. `ExplosionReported`
looks for explosions reported as timeouts; timeouts are reported as explosions.
`CleanEndLeavesNothing` demands dead children only where the array was never moved.

## Disagreements between code and documents

Six runs end in a counterexample; each states what a document or a comment of the
repository says. All of them are checked under `Spec`, as invariants or as
properties of single steps, so no counterexample rests on a process that does not
run.

| Run | Property | What happens |
|---|---|---|
| `operators_share_a_seat` | `OneOperatorPerSeat` | `wait_for_station` finds a seat without the lock, another operator takes it on its first search, with the lock, and `work_loop` takes it without testing it again |
| `waits_past_the_day` | `WaitEndsWithTheDay` | the receive of the service has no limit; the new day finds the user blocked, with nobody to answer |
| `frees_another_seat` | `FreesOwnSeat` | midnight clears the table under a user, who later frees the seat of another |
| `shift_cut_short` | `ShiftEndsAtClosing` | closing tokens nobody took, because an operator was slow or had no counter, are left for the next day |
| `success_without_reply` | `SuccessMeansAdded` | the director's end removes the queue under a client, which tests a status nobody wrote |
| `ipcrm_is_not_enough` | `IpcrmIsEnough` | `ipcrm` leaves `/poste_stats`; children load the dead director's configuration file |

The first four are runs of `Poste`, the last two of `MCDirezione`.

Consequences that have no run of their own: the first iteration of the director's
loop counts as a midnight (`direttore.c:409`), so a simulation lives one day fewer than
the `SIM_DURATION` days that the repository's `README.md` promises (lines 166, 394 and
453), and sets up the last in vain, which the theorem `OneDayShortCorrect` states for
every length; a user whose
operator leaves between its look at the table and its read of the pid writes to
pid 0 (`utente.c:278`), one of the ways to be deserted in `waits_past_the_day`;
opening tokens of users that stay at home let a process in before the opening
hour of the next day (`direttore.c:398`; `FirstDayOpensOnTime` says that it takes a
next day), as closing tokens do in `shift_cut_short`; a process back early takes the
new-day token of another and goes through the day a second time (`utente.c:389`,
`operatore.c:393`), and an operator that does so uses up a closing token, so that
another finds none and stays inside over midnight; users late after the
last reset make `write_stats` report an explosion for a simulation that ran its
length (`direttore.c:258`); a child killed inside an update leaves totals and
per-service counts of the report one apart (`ReportOffByOne` says no more than one);
a request is counted and never a success when the user is killed or deserted, and the
average waits are taken over the requests, not over the users served
(`direttore.c:138-144`).

## The proofs

Checked by TLAPS for every value of the constants, under assumptions on them that the
source justifies:

- `PidAssumption`, `StationsAssumption`, `BookAssumption`, `ClientAssumption`:
  operators and users are disjoint sets of positive numbers, finite where something
  is counted or queued; there is a service; a client asks for one user at least.
- `ConfigAssumption`, `DefaultAssumption`: the configuration consists of natural
  numbers, those that divide or size something positive. The loader rejects all
  others; the compiled-in values are such.
- `FilesAssumption`: a file is a sequence of lines, and the value in a line is an
  integer, which is what `atoi` returns of anything. It holds of the files a director is
  given (`Files`) and of those only looked at (`Texts`).
- `DistinctTypes`, a hypothesis of the theorems about messages and not an assumption:
  no user's pid equals 1 or `30000 + pid` of an operator (or of "nobody"). The code
  does not enforce it; without it a user's `msgrcv` could take a request meant for
  someone else.
- `Clients # {}`, a hypothesis of those about `Direzione`: its variable `client` holds
  the sender of the last request and needs a value.

| Theorem | States |
|---|---|
| `PosteProofs`: `TypeCorrect` | `Spec => []TypeOK` |
| `RegisteredCorrect`, `StaffedCorrect` | `[]RegisteredIsPresent`, `[]StaffedHasPid` |
| `MessageProofs`: `RepliesCorrect`, `OneMessageCorrect`, `NothingLostCorrect` | `[]RepliesMatch`, `[]OneMessagePerUser`, `[]NothingLost` |
| `SendsCorrect` | `[]SendsNeverBlock` |
| `TicketProofs`: `TicketsCorrect` | `[]TicketsUnique` |
| `PromiseKept` | `KeepsPromise`: `PosteServizio` implements `Servizio` |
| `DayProofs`: `OneUserPerSeatCorrect`, `HeldCounterCorrect`, `OwnServiceCorrect` | `[]FirstDayOneUserPerSeat`, `[]FirstDayHeldCounterHasUser`, `[]FirstDayOwnService` |
| `ExplosionCorrect`, `LateCountedCorrect` | `[]ExplosionReported`, `[]LateAreCounted` |
| `OneDayShortCorrect`, `OpensOnTimeCorrect`, `TokensSufficeCorrect` | `[]OneDayShort`, `[]FirstDayOpensOnTime`, `[]FirstDayTokensSuffice` |
| `ShiftsLastCorrect`, `SentHomeCorrect` | `FirstDayShiftsLast`, `FirstDaySentHomeRightly`, properties of steps |
| `StazioniProofs`: `TypesCorrect`, `FindsAreMomentsCorrect` | `[]TypeOK`, `FindsAreMoments` |
| `ActsAsOneTableCorrect` | `ActsAsOneTable`: `Stazioni` implements `Tabella` |
| `StatisticheProofs`: `TypesCorrect`, `BooksBalanceCorrect` | `[]TypeOK`, `[]BooksBalance` |
| `RequestsAccountedCorrect`, `ReportCorrect` | `[]RequestsAccounted`, `[]ReportOffByOne` |
| `DirezioneProofs`: `RequestOnceCorrect`, `ChildrenFitCorrect` | `[]RequestOnce`, `[]ChildrenFit` |
| `TypesCorrect`, `UsersCountedCorrect` | `[]TypeOK`, `[]UsersCounted` |
| `CleanEndCorrect`, `SameConfigCorrect` | `[]CleanEndLeavesNothing`, `[]SameConfig` |
| `LastValueCorrect`, `FilesUnderstoodCorrect` | `LastValueCounts` of all files, `[]FilesAreUnderstood` |

*Types* (`PosteProofs`). `TypeOK` is inductive because it also says which locals
are live where: an operator that is on duty has a seat of the table, a user at a
counter has one, a user with a request open still has a service on its list.
Without these the table's updates and `utLeft - 1` would leave their types. One
lemma per process, one step per action.

*Counters* (`PosteProofs`). `CounterInv`, the conjunction of the two properties,
is inductive together with the types. The interesting steps are `take_seat` by an
operator that finds another one there (it overwrites pid and status, the earlier
operator remains on duty but unregistered) and `release_seat` by either of the two
(it clears both fields, whoever's they are): registration may be lost, it is
never wrong.

*Messages* (`MessageProofs`). `MsgInv` is the conjunction of `RepliesMatch`,
`OneMessagePerUser` and `NothingLost`. None of the three is inductive alone: that
a reply fits its receiver rests on there being no second message for the same
user, and that in turn on a blocked user's state fitting its message. `UserByUser`
rewrites `MsgInv` as one formula per user (`UserOk`) and the absence of messages
about anybody else (`NoStrangers`); each action touches the messages of one user,
for whom `SentFor` and `ReceivedFor` apply, and keeps the others'
(`OthersKept`, `SentKeeps`, `ReceivedKeeps`). `KindOfType` is where
`DistinctTypes` enters: what is received under a user's pid is a reply.
`SendsNeverBlock` follows from `MsgInv`: a process about to send acts for a user
who has no message in the queue, so positions of the queue map one to one into
the remaining users and there is room.

*Tickets* (`TicketProofs`). `TicketInv` speaks of the tickets users hold and of
those in replies under way: all are different and below the dispenser's counter.
That what a user takes for its ticket is a ticket, and not the end of a service, is
`RepliesMatch`, so the theorem rests on `MsgInv` and needs `DistinctTypes` as well.

*The promise* (`TicketProofs`). Each step of one process is a step of `Servizio` about
one user, or a stutter. What others see of that user is read off the queue, and every
step that sends or receives moves the queue under all of them: `AnswersKept` says
that the answers about a user stay when a message about another goes, and `Views`
that an answer is for one who waits for it, so that its phase and ticket stay too. A
user that is nowhere near a counter must be seen to hold none (`Unseated`), or
giving up and being served could not be told apart. That a ticket is new is `TicketInv`.

*Days* (`DayProofs`). `DayInv` says that before the tokens of the first day are out
(`Dawn`) nobody has begun, so the first midnight clears the table under nobody;
that is what fails on later days. On it rests `SeatInv`, which is about the first
day: two users at counters sit at two counters marked occupied, a counter marked
occupied has a user until the shift is over, and an operator's counter is of its
service, since nothing changes services between its search and its claim. `EndInv`
compares the two readings of the late users: once the director has found too many
the count is never cleared again, and until the report no exit mode is written.

`LengthInv` follows the director through its last iteration: the loop ends with
`days_elapsed` at `SimDuration`, one minute after the midnight that set up the day
of that number. `PassedInv` is about the operator on its way past the counters: those
it has gone past are of another service, and on the first day remain so.

*Hours and tokens* (`DayProofs`). `HoursInv` says that until the second day is set up
the two clocks agree, that before an hour has struck its tokens are not there and
nobody is past their wait, and one inequality: the new-day tokens left, the users that
have begun and the operators in their round are together no more than the users and
the closing tokens, those counted that are still to be posted. Taking a new-day token
moves one from the first term to the second or third (an operator on its second
round takes a user's, whose place among those that have begun stays empty), a closing
token that is taken ends a round, and a user that begins twice only lowers the
sum. When every user has begun, the inequality leaves the operators in
their round and the tokens. It needs `CloseMinute > 0`, which `FirstDayTokensSuffice`
therefore names: minute 0 is no hour for the director (`direttore.c:403`), and an office
that closes then never posts a closing token.

*Late users* (`DayProofs`). A user marks itself late in one step with the count, so
`LateAreCounted` could only fail through the reset. `LateInv` adds that nobody has
begun a day the director has not set up: when the count is cleared no late user of
the new day exists. The mark of the day before stays until the user decides again,
and is not counted (`Late`).

*The table* (`StazioniProofs`). `Settled`, the table with the remaining assignments
made, changes only when a process decides, because nobody else writes meanwhile and
no field is assigned twice (`WriteInv`: `Proper`, and a non-empty list belongs to the
holder of the lock). A search under the lock has nothing left to write, so what it
looks at is the settled table, and what it has found so far is true of it
(`SearchInv`). The unlocked test reads the status first; `ServiceInv` says that a
counter's service is only rewritten after its status was cleared, so that the two
readings fit one moment.

*Statistics* (`StatisticheProofs`). `BooksBalance` says nothing while the lock is held,
so the invariant says what is the case then: `PendingInv`, that what is left of an
update is the end of one, and untouched while its process waits; `PlaceInv`, who can
be counting at all. `BalanceInv` is that an office's counter differs from the sum of
the services' by exactly what the holder of the lock has still to do, which a
midnight cannot disturb as it needs the lock. If the holder is dead, one counter may
be one off for good, and since nobody takes the lock again nothing is added to it.
`CountInv` is an equation between the book and the users: requests less successes is
the number of users whose request is counted and success is not (`Owing`). It turns
into an inequality when the children begin to die, which takes users out of the
count and nothing out of the book; hence "never more services than requests". The
sums are those of the community modules; their lemmas (`SumChanges` and others) are
inductions over subsets, done as in *Configuration* below.

*Configuration* (`DirezioneProofs`). `load_config` is a fold over the lines of a file.
`LoadIsRead` turns it into a function of the number of lines read, after which what
it computes is shown line by line. Induction rules that take a predicate are beyond
the provers here, so the induction is a search for the least counterexample: the set
of lengths for which the claim fails is a set of naturals, and if it is not empty it
has a least element (`LeastNat`; `LeastSubset` for sets, `FoldExists` for the function
a fold chooses). `LoadMakesSense` says that no file makes the loader end with a
configuration its own tests reject, and `LastValueCorrect` what it does end with, line
by line and within a line setting before tail. `SettingsInv` carries that through the
director's life: only requests for users change the configuration, and only upwards.

*Requests* (`DirezioneProofs`). `RequestAt` says of each client where its request
is: not sent, in the queue, in the director's hand with part of its users started,
answered, or lost with a director or a queue. Removing and sending messages keep
it for every other client. `FitInv` adds how far the director's array has grown
against the children it has started, from a configuration of which `LoadMakesSense`
is all one needs to know.

*The director's life* (`DirezioneProofs`). `LifeInv` has three parts. `LifeTypes`: pids
are below the last one given, so a new child is nobody else. `PlaceInv`: the array of
a working director is in the order of the pids, all of it alive, and a position tells
what runs there; `UsersCounted` is then a matter of counting positions. `TidyInv` is
what is on the machine at each step of a director, as long as none has died: the
segment's path is the director's own from the moment it is loaded, which is why every
later child loads the same, and is gone before the next director starts.

*Only model-checked*: the liveness properties `ClientReturns`, `ReportNotHeldUp`,
`FirstDayOperatorsGoHome`, `ServedOrDeserted` and `TicketAnswered`: the proof system
does not handle `ENABLED`, hence no fairness. Of `FirstDayOperatorsGoHome` the safety
part, that no operator goes without a token, is `TokensSufficeCorrect`. The properties
of the runs that end in a counterexample are false and have no theorem.

## Limits and plan

Not modelled so far, and why:

- *The midnight reset is one step* in `Poste`. `Stazioni` writes it field by field and
  shows that nobody who locks can tell, and that the unlocked test of one counter
  cannot either. An unlocked search of several counters can: it may meet the first
  counter cleared and the second not yet. The services are drawn at random, so the
  operator could have read the same off a table cleared at once.
- *Waiting and service times*: the two sums of minutes and the averages over them.
  A wait is the difference of two readings of the clock and is negative over
  midnight; the sums change in the step that counts a served user.
- *Pids that collide with message types*: `DistinctTypes` excludes them in `Poste`, and
  `Direzione` addresses messages by client. A pid of 10 would let a client receive
  its own request.
- *Undefined behaviour with unbounded outcomes*: what a `realloc` of a freed block may
  damage besides aborting, `open_shm`, an array of no elements
  in the children, a path longer than its field, more seats than the table has. Sizes
  that fit are assumed; `Config` shows that the loader passes any.
- *Receives that fail because a queue is removed from outside while a director runs*,
  and so the failure reply of `check_new_users_queue` to a sender it does not know.
- *The state a crash leaves in the table and the statistics*: `Poste` starts on clean
  segments; `Direzione` keeps only what it hands to the next run's children.
- *Tests, Dockerfile, printing and the CSV's layout*: no behaviour of the running
  system.

The order of the work, the core first:

1. (done) `PosteDefs`, `Erogatore`, `Operatore`, `Utente`, `Direttore`, `Poste`; runs
   and proofs above.
2. (done) `Servizio` and `PosteServizio`: the promise and the refinement.
3. (done) `Statistiche`.
4. (done) `Config`, `Direzione`, `MCDirezione`: the configuration, the new users, crash
   and restart.
5. (done) `Tabella`, `Stazioni`, `MCStazioni`: the table under its lock, and that the
   critical sections of `Poste` are single steps.
6. (done) Theorems: every invariant and action property of the passing runs, and the
   refinements of steps 2 and 5. Two theorems are about formulas no run checks:
   `FirstDayOwnService`, whose interesting case needs more operators and counters than TLC
   gets through beside a user, and `OneDayShort`, a fact about the length that takes no
   interleaving to see.
7. Waiting times across midnight; pids that collide with message types.
