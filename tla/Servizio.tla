------------------------------ MODULE Servizio -------------------------------
(***************************************************************************)
(* What the post office promises its users, with nothing of how it keeps   *)
(* the promise: no dispenser, no operators, no counters and no messages.   *)
(*                                                                         *)
(* A user asks for a ticket and is issued the next number, one that nobody *)
(* else is ever issued.  It presents the ticket it was issued, is served   *)
(* for that ticket, once, and leaves; or it gives up before presenting it. *)
(* At any moment the office may close for good, and leaves everybody where *)
(* they are.                                                               *)
(***************************************************************************)
EXTENDS Integers

CONSTANTS Users, NoTicket

VARIABLES
    phase,              \* how far each user's current request has come
    ticket,             \* the ticket it was issued for it
    issued,             \* tickets issued so far; the number of the next one
    open
vars == <<phase, ticket, issued, open>>

Phases == {"away", "asking", "holding", "presented", "served"}

Init == /\ phase = [u \in Users |-> "away"]
        /\ ticket = [u \in Users |-> NoTicket]
        /\ issued = 0
        /\ open = TRUE

Moves(u, from, to) == open /\ phase[u] = from /\ phase' = [phase EXCEPT ![u] = to]
Goes(u, from) == /\ Moves(u, from, "away")
                 /\ ticket' = [ticket EXCEPT ![u] = NoTicket]
                 /\ UNCHANGED <<issued, open>>

Ask(u) == Moves(u, "away", "asking") /\ UNCHANGED <<ticket, issued, open>>

Issue(u) == /\ Moves(u, "asking", "holding")
            /\ ticket' = [ticket EXCEPT ![u] = issued]
            /\ issued' = issued + 1
            /\ UNCHANGED open

Present(u) == Moves(u, "holding", "presented") /\ UNCHANGED <<ticket, issued, open>>
Serve(u) == Moves(u, "presented", "served") /\ UNCHANGED <<ticket, issued, open>>
GiveUp(u) == Goes(u, "holding")
Leave(u) == Goes(u, "served")

Close == open /\ open' = FALSE /\ UNCHANGED <<phase, ticket, issued>>

Next == \/ \E u \in Users : \/ Ask(u) \/ Issue(u) \/ Present(u) \/ Serve(u)
                            \/ GiveUp(u) \/ Leave(u)
        \/ Close

Spec == Init /\ [][Next]_vars
=============================================================================
