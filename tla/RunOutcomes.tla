----------------------------- MODULE RunOutcomes -----------------------------
(* AgentRuns implements TicketRuns. *)
EXTENDS AgentRuns

\* The run of each ticket that was inserted last, and the tickets that others
\* than their runs have moved.
LatestOf == [t \in Ticket |-> Latest(t)]
Disturbed == {t \in Ticket : ~Alone(t)}

Promised == INSTANCE TicketRuns WITH status <- ticket, latest <- LatestOf,
                                     disturbed <- Disturbed

\* A ticket moves in one step with the run that owns it: one run is under way, the
\* latest one decides, and what it decided is final.  startTicketRun,
\* handleToolRequest, persistRunUpdate, cancelRun and reconcileOrphans keep this
\* between them, each with transactions of its own.
RunsAsPromised == Promised!Spec

\* The inductive invariant behind it: a tool call that found its run running meets
\* a routing ticket only while a run of it is under way, although the call does not
\* look at the run again when it moves the ticket.
ToolsHaveRun ==
  \A g \in Gen :
    LET t == TicketOf[handler[g].run] IN
    handler[g].phase = "tool" /\ Alone(t) /\ ticket[t] = "routing" =>
      \E r \in Run : TicketOf[r] = t /\ Running(r)
OutcomesInv == TicketsInv /\ ToolsHaveRun
=============================================================================
