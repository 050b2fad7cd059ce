------------------------------ MODULE Direttore ------------------------------
(***************************************************************************)
(* The director's main loop, one iteration per simulated minute, but for   *)
(* check_new_users_queue: the users are fixed here, see Direzione.         *)
(*                                                                         *)
(*   "minute"     the loop condition, the sleep and the opening hour       *)
(*   "closing"    the closing hour: tokens posted one by one               *)
(*   "midnight"   the test minutes_elapsed % 1440 == 0 and the explosion   *)
(*   "newDay"     start_new_day, the part under stats_lock                 *)
(*   "seats"      start_new_day, the part under stations_lock              *)
(*   "announce"   the new-day tokens                                       *)
(*   "advance"    the clock moves on                                       *)
(*   "terminate"  the children are killed                                  *)
(*   "report"     write_stats                                              *)
(*   "done"                                                                *)
(*                                                                         *)
(* Opening and new-day tokens are only waited for (sem_wait), so posting   *)
(* them together or one by one makes no difference to a waiter; closing    *)
(* tokens are tried for, and an operator may find too few of them posted.  *)
(***************************************************************************)
EXTENDS PosteDefs

VARIABLES
    dirPc,
    minutes_elapsed,
    days_elapsed,
    dirPosts,           \* closing tokens still to be posted
    exit_mode           \* what write_stats puts in the CSV file
dirVars == <<dirPc, minutes_elapsed, days_elapsed, dirPosts, exit_mode>>

DirPcs == {"minute", "closing", "midnight", "newDay", "seats", "announce",
           "advance", "terminate", "report", "done"}
ExitModes == {"none", "explode", "timeout"}

\* Killed children take no more steps.
Running == dirPc \notin {"report", "done"}

DirInit ==
    /\ dirPc = "minute" /\ minutes_elapsed = 0 /\ days_elapsed = 0
    /\ dirPosts = 0 /\ exit_mode = "none"

DirGoto(pc) == dirPc' = pc
DirAt(pc) == dirPc = pc
-----------------------------------------------------------------------------
\* A slip of the test: the remainder, as at midnight.
AtHourModulo(h) == minutes_elapsed % h = 0

AtHour(h) == minutes_elapsed = h /\ minutes_elapsed # 0

DirMinute ==
    /\ DirAt("minute")
    /\ \/ /\ days_elapsed >= SimDuration
          /\ DirGoto("terminate")
          /\ UNCHANGED <<open_poste_event, dirPosts>>
       \/ /\ days_elapsed < SimDuration
          /\ open_poste_event' = IF AtHour(OpenMinute)
                                 THEN open_poste_event + Cardinality(Operators)
                                                       + Cardinality(Users)
                                 ELSE open_poste_event
          /\ dirPosts' = IF AtHour(CloseMinute) THEN Cardinality(Operators) ELSE 0
          /\ DirGoto("closing")
    /\ UNCHANGED <<seatVars, clockVars, close_poste_event, day_update_event, late_users,
                   queue, begun, minutes_elapsed, days_elapsed, exit_mode>>

\* A slip of the loop: one token too few.
DirClosingTooFew ==
    /\ DirAt("closing")
    /\ \/ /\ dirPosts > 1
          /\ sem_post(close_poste_event)
          /\ dirPosts' = dirPosts - 1
          /\ UNCHANGED dirPc
       \/ /\ dirPosts <= 1
          /\ DirGoto(IF minutes_elapsed % DayMinutes = 0 THEN "midnight" ELSE "advance")
          /\ UNCHANGED <<close_poste_event, dirPosts>>
    /\ UNCHANGED <<seatVars, clockVars, open_poste_event, day_update_event, late_users,
                   queue, begun, minutes_elapsed, days_elapsed, exit_mode>>

DirClosing ==
    /\ DirAt("closing")
    /\ \/ /\ dirPosts > 0
          /\ sem_post(close_poste_event)
          /\ dirPosts' = dirPosts - 1
          /\ UNCHANGED dirPc
       \/ /\ dirPosts = 0
          /\ DirGoto(IF minutes_elapsed % DayMinutes = 0 THEN "midnight" ELSE "advance")
          /\ UNCHANGED <<close_poste_event, dirPosts>>
    /\ UNCHANGED <<seatVars, clockVars, open_poste_event, day_update_event, late_users,
                   queue, begun, minutes_elapsed, days_elapsed, exit_mode>>

\* A slip of midnight: the limit itself is too many.
DirMidnightAtLimit ==
    /\ DirAt("midnight")
    /\ days_elapsed' = days_elapsed + 1
    /\ DirGoto(IF late_users >= ExplodeMax THEN "terminate" ELSE "newDay")
    /\ UNCHANGED <<sharedVars, minutes_elapsed, dirPosts, exit_mode>>

\* The day is counted before the late users are, and they are read unlocked.
DirMidnight ==
    /\ DirAt("midnight")
    /\ days_elapsed' = days_elapsed + 1
    /\ DirGoto(IF late_users > ExplodeMax THEN "terminate" ELSE "newDay")
    /\ UNCHANGED <<sharedVars, minutes_elapsed, dirPosts, exit_mode>>

DirNewDay ==
    /\ DirAt("newDay")
    /\ current_day' = days_elapsed
    /\ late_users' = 0
    /\ DirGoto("seats")
    /\ UNCHANGED <<seatVars, current_minute, open_poste_event, close_poste_event,
                   day_update_event, queue, begun, minutes_elapsed, days_elapsed,
                   dirPosts, exit_mode>>

DirSeats ==
    /\ DirAt("seats")
    /\ \E s \in [Seats -> Services] : seats' = [i \in Seats |-> EmptySeat(s[i])]
    /\ DirGoto("announce")
    /\ UNCHANGED <<stations_event, clockVars, open_poste_event, close_poste_event,
                   day_update_event, late_users, queue, begun,
                   minutes_elapsed, days_elapsed, dirPosts, exit_mode>>

DirAnnounce ==
    /\ DirAt("announce")
    /\ day_update_event' = day_update_event + Cardinality(Users) + Cardinality(Operators)
    /\ minutes_elapsed' = 0
    /\ DirGoto("advance")
    /\ UNCHANGED <<seatVars, clockVars, open_poste_event, close_poste_event, late_users,
                   queue, begun, days_elapsed, dirPosts, exit_mode>>

DirAdvance ==
    /\ DirAt("advance")
    /\ minutes_elapsed' = minutes_elapsed + 1
    /\ current_minute' = minutes_elapsed + 1
    /\ DirGoto("minute")
    /\ UNCHANGED <<seatVars, current_day, open_poste_event, close_poste_event,
                   day_update_event, late_users, queue, begun,
                   days_elapsed, dirPosts, exit_mode>>
-----------------------------------------------------------------------------
\* SIGKILL to every child, then the wait for all of them.
DirTerminate ==
    /\ DirAt("terminate")
    /\ DirGoto("report")
    /\ UNCHANGED <<sharedVars, minutes_elapsed, days_elapsed, dirPosts, exit_mode>>

\* write_stats works the cause out again from today's count; it gives up, and the
\* director goes on, if the folder or the file cannot be created.
DirReport ==
    /\ DirAt("report")
    /\ \/ exit_mode' = IF late_users > ExplodeMax THEN "explode" ELSE "timeout"
       \/ UNCHANGED exit_mode
    /\ DirGoto("done")
    /\ UNCHANGED <<sharedVars, minutes_elapsed, days_elapsed, dirPosts>>

DirNext ==
    \/ DirMinute \/ DirClosing \/ DirMidnight
    \/ DirNewDay \/ DirSeats \/ DirAnnounce \/ DirAdvance
    \/ DirTerminate \/ DirReport

DirTypeOK ==
    /\ dirPc \in DirPcs
    /\ minutes_elapsed \in Nat /\ days_elapsed \in Nat /\ dirPosts \in Nat
    /\ exit_mode \in ExitModes
=============================================================================
