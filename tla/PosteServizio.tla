---------------------------- MODULE PosteServizio ----------------------------
(***************************************************************************)
(* The simulation keeps the promise of Servizio.  A user's phase is read   *)
(* off its program counter and, while it is blocked in a receive, off the  *)
(* queue: it has been issued its ticket as soon as the dispenser's answer  *)
(* is in the queue, and has been served as soon as the operator's is.  The *)
(* ticket a request is about is the one its message carries, or the one    *)
(* its operator copied, while the request is out of the user's hands.      *)
(***************************************************************************)
EXTENDS Poste

Holds(u, kind) == \E i \in Positions : queue[i].kind = kind /\ Subject(queue[i]) = u

\* A user that gives up its wait for a counter holds none; a late one that was
\* served still has the number of its own.
PhaseOf(u) ==
    CASE utPc[u] = "awaitTicket" -> IF Holds(u, "ticket_response") THEN "holding" ELSE "asking"
      [] utPc[u] \in {"look", "claim", "seatWait", "readOp", "present"} -> "holding"
      [] utPc[u] = "awaitDone" -> IF Holds(u, "service_done") THEN "served" ELSE "presented"
      [] utPc[u] \in {"served", "free"} -> "served"
      [] utPc[u] = "late" -> IF utSeat[u] = NoSeat THEN "holding" ELSE "served"
      [] OTHER -> "away"

\* Every number that stands for u's ticket just now.
Copies(u) ==
    {queue[i].ticket : i \in {j \in Positions : /\ Subject(queue[j]) = u
                                                /\ queue[j].kind # "ticket_request"}}
        \cup {opTicket[o] : o \in {p \in Operators : Serving(p) /\ opCust[p] = u}}
TicketOf(u) == IF Copies(u) = {} THEN utTicket[u] ELSE CHOOSE n \in Copies(u) : TRUE

Promise == INSTANCE Servizio WITH
    phase <- [u \in Users |-> PhaseOf(u)],
    ticket <- [u \in Users |-> TicketOf(u)],
    issued <- ticket_counter,
    open <- Running

\* Every behaviour of the simulation is one the users were promised: tickets are
\* issued in sequence and never twice, a service is for the ticket presented, once
\* per presentation, and whoever leaves unserved leaves before presenting
\* (utente.c:234-311, operatore.c:277-310, erogatore_ticket.c:34-54).
KeepsPromise == Promise!Spec
=============================================================================
