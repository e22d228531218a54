-------------------------- MODULE TicketLifecycle --------------------------
(***************************************************************************)
(* The status graph of a ticket, as the baseline migration fills the table *)
(* ticket_status_transitions.  Every writer of tickets.status looks its    *)
(* action up in that table (findTicketTransition, resolveTicketStatus).    *)
(* The actions that leave the status alone (reclassify, assign,            *)
(* add_detail) are left out.                                               *)
(***************************************************************************)

TicketStatus == {"open", "routing", "resolving", "pending", "resolved",
                 "escalated", "closed"}

Transitions ==
  {<<"open", "startRun", "routing">>,      <<"open", "pend", "pending">>,
   <<"routing", "firstTool", "resolving">>, <<"routing", "pend", "pending">>,
   <<"resolving", "resolve", "resolved">>, <<"resolving", "pend", "pending">>,
   <<"resolving", "escalate", "escalated">>,
   <<"resolving", "fail", "escalated">>,
   <<"resolving", "exhaust", "escalated">>,
   <<"pending", "unpend", "open">>,        <<"pending", "resolve", "resolved">>,
   <<"resolved", "close", "closed">>,
   <<"resolved", "escalate", "escalated">>,
   <<"escalated", "startRun", "routing">>, <<"escalated", "close", "closed">>,
   <<"escalated", "escalate", "escalated">>,
   <<"closed", "reopen", "open">>}

HasEdge(s, a) == \E e \in Transitions : e[1] = s /\ e[2] = a

\* The status after action a; only meaningful where HasEdge(s, a).
After(s, a) == (CHOOSE e \in Transitions : e[1] = s /\ e[2] = a)[3]
=============================================================================
