------------------------------ MODULE Erogatore ------------------------------
(***************************************************************************)
(* The ticket dispenser: an endless loop that receives one ticket request, *)
(* answers it with the next number and counts it.                          *)
(***************************************************************************)
EXTENDS PosteDefs

VARIABLES
    erReq,              \* sender of the request being answered, 0 when receiving
    ticket_counter
erVars == <<erReq, ticket_counter>>

ErInit == erReq = 0 /\ ticket_counter = 0

\* The receive that opens the loop: any pending ticket request, oldest first.
ErReceive ==
    /\ erReq = 0
    /\ \E i \in 1 .. Len(queue) :
          /\ mq_receive(TicketRequestType, i)
          /\ erReq' = queue[i].pid
    /\ UNCHANGED ticket_counter

\* Slips of the reply: the counter is not advanced; the answer is dropped; the
\* same request is answered again.
ErReplyWithoutCounting ==
    /\ erReq # 0
    /\ mq_send(TicketResponse(erReq, ticket_counter))
    /\ erReq' = 0
    /\ UNCHANGED ticket_counter
ErReplyDropped ==
    /\ erReq # 0
    /\ erReq' = 0
    /\ ticket_counter' = ticket_counter + 1
    /\ UNCHANGED queue
ErReplyAgain ==
    /\ erReq # 0
    /\ mq_send(TicketResponse(erReq, ticket_counter))
    /\ ticket_counter' = ticket_counter + 1
    /\ UNCHANGED erReq

ErReply ==
    /\ erReq # 0
    /\ mq_send(TicketResponse(erReq, ticket_counter))
    /\ erReq' = 0
    /\ ticket_counter' = ticket_counter + 1

ErNext == /\ ErReceive \/ ErReply
          /\ UNCHANGED <<seats, stations_event, open_poste_event,
                         close_poste_event, day_update_event, current_minute,
                         current_day, late_users, begun>>

ErTypeOK == erReq \in Processes \cup {0} /\ ticket_counter \in Nat
=============================================================================
