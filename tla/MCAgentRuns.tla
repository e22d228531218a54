---------------------------- MODULE MCAgentRuns ----------------------------
(* Small instances of AgentRuns for TLC. *)
EXTENDS RunOutcomes, TLC

CONSTANTS r1, r2, t1, t2

\* Both runs are of one ticket, or each of its own; or there is one run.
SameTicket == r1 :> t1 @@ r2 :> t1
OwnTicket == r1 :> t1 @@ r2 :> t2
OneRun == r1 :> t1

\* Disturbances: the named ones so often, the others never.
Often(S, n) == [d \in Disturbance |-> IF d \in S THEN n ELSE 0]
Calm == Often({}, 0)
Cancels == Often({"cancel"}, 1)
AnythingOnce == Often(Disturbance, 1)
Restarts == Often({"restart"}, 1)
AllButHuman == Often(Disturbance \ {"human"}, 1)

\* Sound for safety properties where both runs are of one ticket.
Symmetry == Permutations(Run) \cup Permutations(Gen)
=============================================================================
