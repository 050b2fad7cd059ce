------------------------------- MODULE Tabella --------------------------------
(***************************************************************************)
(* The table of counters as those who lock it are meant to see it: every   *)
(* search, with the change it leads to, is one step.  An operator looks    *)
(* for a free counter of its service, or takes one it knows of otherwise;  *)
(* a user lists the staffed counters of a service and claims the first     *)
(* free one of its list; midnight clears all of them.                      *)
(***************************************************************************)
EXTENDS Integers

CONSTANTS Operators, Users, Seats, Services, NoSeat

VARIABLES
    table,              \* by counter: pid and status of the operator, user, service
    opService,          \* by operator, for good
    stage,              \* what each process is about
    list,               \* by user: the counters it has found
    place               \* by process: its counter
vars == <<table, opService, stage, list, place>>

Processes == Operators \cup Users
Cleared(s) == [operator_process |-> 0, operator_status |-> "FREE",
               user_status |-> "FREE", service_id |-> s]

Init == /\ table = [i \in Seats |-> Cleared(0)]
        /\ opService \in [Operators -> Services]
        /\ stage = [p \in Processes |-> IF p \in Operators THEN "out" ELSE "idle"]
        /\ list = [u \in Users |-> {}]
        /\ place = [p \in Processes |-> NoSeat]

Moves(p, from, to) == /\ stage[p] = from /\ stage'[p] = to
                      /\ stage' = [stage EXCEPT ![p] = to]
Suits(o, i) == table[i].operator_status = "FREE" /\ table[i].service_id = opService[o]
Valid(s) == {i \in Seats : table[i].operator_status = "OCCUPIED" /\ table[i].service_id = s}
First(S, i) == i \in S /\ \A j \in S : i <= j

Takes(o, i) == /\ table' = [table EXCEPT ![i].operator_process = o,
                                         ![i].operator_status = "OCCUPIED"]
               /\ place' = [place EXCEPT ![o] = i]
               /\ UNCHANGED <<opService, list>>

Seek(o) == /\ Moves(o, "out", "duty")
           /\ \E i \in Seats : First({j \in Seats : Suits(o, j)}, i) /\ Takes(o, i)
SeekInVain(o) == /\ Moves(o, "out", "wait")
                 /\ \A i \in Seats : ~Suits(o, i)
                 /\ UNCHANGED <<table, opService, list, place>>
Take(o) == Moves(o, "wait", "duty") /\ \E i \in Seats : Takes(o, i)
Leave(o) == /\ Moves(o, "duty", "out")
            /\ table' = [table EXCEPT ![place[o]].operator_process = 0,
                                      ![place[o]].operator_status = "FREE"]
            /\ place' = [place EXCEPT ![o] = NoSeat]
            /\ UNCHANGED <<opService, list>>
Resign(o) == Moves(o, "wait", "out") /\ UNCHANGED <<table, opService, list, place>>

Look(u) == /\ Moves(u, "idle", "listed")
           /\ \E s \in Services : Valid(s) # {} /\ list' = [list EXCEPT ![u] = Valid(s)]
           /\ UNCHANGED <<table, opService, place>>
Claim(u) == /\ Moves(u, "listed", "seated")
            /\ \E i \in list[u] :
                  /\ First({j \in list[u] : table[j].user_status = "FREE"}, i)
                  /\ table' = [table EXCEPT ![i].user_status = "OCCUPIED"]
                  /\ place' = [place EXCEPT ![u] = i]
            /\ list' = [list EXCEPT ![u] = {}]
            /\ UNCHANGED opService
Leaves(u, from) == /\ Moves(u, from, "idle")
                   /\ list' = [list EXCEPT ![u] = {}]
                   /\ place' = [place EXCEPT ![u] = NoSeat]
                   /\ UNCHANGED opService
GiveUp(u) == \E from \in {"listed", "seated"} : Leaves(u, from) /\ UNCHANGED table
Free(u) == /\ Leaves(u, "seated")
           /\ table' = [table EXCEPT ![place[u]].user_status = "FREE"]

NewDay == /\ UNCHANGED <<stage, list, place, opService>>
          /\ \E f \in [Seats -> Services] : table' = [i \in Seats |-> Cleared(f[i])]

Next == \/ \E o \in Operators : \/ Seek(o) \/ SeekInVain(o) \/ Take(o)
                                \/ Leave(o) \/ Resign(o)
        \/ \E u \in Users : Look(u) \/ Claim(u) \/ GiveUp(u) \/ Free(u)
        \/ NewDay

Spec == Init /\ [][Next]_vars
=============================================================================
