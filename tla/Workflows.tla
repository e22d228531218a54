----------------------------- MODULE Workflows -----------------------------
(***************************************************************************)
(* Workflow executions and their webhooks (api/src/server/workflows).      *)
(*                                                                         *)
(* fireEvent runs the actions of a workflow one after the other, renewing  *)
(* the execution's lease before each.  A webhook is a row that is claimed, *)
(* sent and concluded, by fireEvent itself or, where the event came from a *)
(* sweep, by the delivery sweep.  A claim has a lease too: the sweep takes *)
(* over what is still being delivered when it has run out.                 *)
(*                                                                         *)
(* An action is one statement or request with the code up to the next      *)
(* await.  Leases run out at any moment; a retry's delay is over when the  *)
(* sweep selects the row.                                                  *)
(***************************************************************************)
EXTENDS Integers, FiniteSets

CONSTANTS
  Exec,         \* workflow executions
  Actions,      \* webhook actions of each, in their order
  Queueing,     \* executions fired with queueWebhooks
  MaxAttempts,  \* webhook_deliveries.max_attempts, 5 by default
  MaxTroubles   \* bound: leases that run out over a living holder, statements
                \* that fail and restarts of the process, together

ASSUME WorkflowAssumption ==
  /\ Queueing \subseteq Exec
  /\ Actions \in Nat \ {0} /\ MaxAttempts \in Nat \ {0}
  /\ MaxTroubles \in Nat

Action == 1..Actions
Row == Exec \X Action       \* webhook_deliveries
Attempt == 0..MaxAttempts
NoClaim == 0                \* claimed_at is null

RowStatus == {"absent", "pending", "delivering", "retrying", "succeeded", "failed"}
\* A claim is named by the attempt it counted.
RowState == [status : RowStatus, attempts : Attempt, claim : Attempt]
Phase == {"none", "renew", "queue", "deliver", "await", "error", "over"}
Owner == {"event", "sweep"}
Request == [row : Row, claim : Attempt, owner : Owner,
            phase : {"sending", "taken", "refused"}]

VARIABLES
  execution,  \* workflow_executions.status
  lapsed,     \* executions whose lease has run out
  row,        \* webhook_deliveries
  stale,      \* rows whose claim's lease has run out
  firing,     \* where fireEvent stands in an execution
  requests,   \* deliverWebhook calls between their claim and their result
  sweep,      \* the delivery sweep
  due,        \* rows it has selected and not tried to claim
  sent,       \* history: requests sent for a row
  troubles    \* history: what went wrong

rowVars == <<execution, lapsed, row, stale>>
memoryVars == <<firing, requests, sweep, due>>
vars == <<rowVars, memoryVars, sent, troubles>>

Init ==
  /\ execution = [e \in Exec |-> "none"] /\ lapsed = {}
  /\ row = [r \in Row |-> [status |-> "absent", attempts |-> 0, claim |-> NoClaim]]
  /\ stale = {}
  /\ firing = [e \in Exec |-> [phase |-> "none", action |-> 1]]
  /\ requests = {} /\ sweep = "rest" /\ due = {}
  /\ sent = [r \in Row |-> 0]
  /\ troubles = 0

-----------------------------------------------------------------------------
(* fireEvent.                                                               *)

In(e, phase) == firing[e].phase = phase
Goes(e, phase) == [firing EXCEPT ![e].phase = phase]
\* The next action, or the end.
NextAction(e) ==
  IF firing[e].action < Actions
    THEN [firing EXCEPT ![e] = [phase |-> "renew", action |-> @.action + 1]]
    ELSE Goes(e, "over")

\* The execution is claimed, with a lease.
Fire(e) ==
  /\ execution[e] = "none" /\ In(e, "none")
  /\ execution' = [execution EXCEPT ![e] = "running"]
  /\ firing' = Goes(e, "renew")
  /\ UNCHANGED <<lapsed, row, stale, requests, sweep, due, sent, troubles>>

\* The lease is renewed whatever the row says.
Renew(e) ==
  /\ In(e, "renew")
  /\ lapsed' = lapsed \ {e}
  /\ firing' = Goes(e, "queue")
  /\ UNCHANGED <<execution, row, stale, requests, sweep, due, sent, troubles>>

Queue(e) ==
  /\ In(e, "queue")
  /\ row' = [row EXCEPT ![<<e, firing[e].action>>].status = "pending"]
  /\ firing' = IF e \in Queueing THEN NextAction(e) ELSE Goes(e, "deliver")
  /\ UNCHANGED <<execution, lapsed, stale, requests, sweep, due, sent, troubles>>

\* deliverWebhook's claim: what is pending or retrying, or is being delivered
\* under a lease that has run out, while attempts are left.
Fresh(r) == row[r].status \in {"pending", "retrying"} /\ row[r].attempts < MaxAttempts
Unlimited(r) == row[r].status \in {"pending", "retrying"} \/ r \in stale
Claimable(r) ==
  /\ row[r].status \in {"pending", "retrying"} \/ r \in stale
  /\ row[r].attempts < MaxAttempts
Claimed(r, owner) ==
  /\ row' = [row EXCEPT ![r].status = "delivering", ![r].attempts = @ + 1,
                        ![r].claim = row[r].attempts + 1]
  /\ stale' = stale \ {r}
  /\ requests' = requests \cup
       {[row |-> r, claim |-> row[r].attempts + 1, owner |-> owner,
         phase |-> "sending"]}

ClaimOwn(e) ==
  /\ In(e, "deliver")
  /\ LET r == <<e, firing[e].action>> IN
       IF Claimable(r)
         THEN Claimed(r, "event") /\ firing' = Goes(e, "await")
         ELSE firing' = NextAction(e) /\ UNCHANGED <<row, stale, requests>>
  /\ UNCHANGED <<execution, lapsed, sweep, due, sent, troubles>>

\* A statement of the loop throws.
ActionFails(e) ==
  /\ firing[e].phase \in {"renew", "queue", "deliver"}
  /\ troubles < MaxTroubles /\ troubles' = troubles + 1
  /\ firing' = Goes(e, "error")
  /\ UNCHANGED <<rowVars, requests, sweep, due, sent>>

\* The outcome is written whatever the row says.
Outcome(e) == IF In(e, "error") THEN "failed" ELSE "succeeded"
Finish(e) ==
  /\ In(e, "over") \/ In(e, "error")
  /\ execution' = [execution EXCEPT ![e] = Outcome(e)]
  /\ lapsed' = lapsed \ {e}
  /\ firing' = [firing EXCEPT ![e] = [phase |-> "none", action |-> 1]]
  /\ UNCHANGED <<row, stale, requests, sweep, due, sent, troubles>>

-----------------------------------------------------------------------------
(* deliverWebhook, once it holds a claim.                                   *)

\* sendWebhookRequest: the endpoint answers well, or not at all, or an error.
Send(q, phase) ==
  /\ q.phase = "sending" /\ phase \in {"taken", "refused"}
  /\ requests' = (requests \ {q}) \cup {[q EXCEPT !.phase = phase]}
  /\ sent' = [sent EXCEPT ![q.row] = @ + 1]
  /\ UNCHANGED <<rowVars, firing, sweep, due, troubles>>

\* webhookAttemptResult
AttemptResult(q) ==
  IF q.phase = "taken" THEN "succeeded"
  ELSE IF q.claim >= MaxAttempts THEN "failed" ELSE "retrying"

\* Only the holder of the claim may write the result.
Delivering(q) == row[q.row].status = "delivering"
Holds(q) == row[q.row].status = "delivering" /\ row[q.row].claim = q.claim
Conclude(q) ==
  /\ q.phase # "sending"
  /\ IF Holds(q)
       THEN /\ row' = [row EXCEPT ![q.row].status = AttemptResult(q),
                                  ![q.row].claim = NoClaim]
            /\ stale' = stale \ {q.row}
       ELSE UNCHANGED <<row, stale>>
  /\ requests' = requests \ {q}
  /\ firing' = IF q.owner = "event" THEN NextAction(q.row[1]) ELSE firing
  /\ UNCHANGED <<execution, lapsed, sweep, due, sent, troubles>>

-----------------------------------------------------------------------------
(* The sweeps.                                                              *)

\* sweepWebhookDeliveries: one at a time, and every row whose time has come.
Due == {r \in Row : Claimable(r)}
SelectDue ==
  /\ sweep = "rest"
  /\ due' \in {S \in SUBSET Due : \A r \in Due : row[r].status # "retrying" => r \in S}
  /\ sweep' = "delivering"
  /\ UNCHANGED <<rowVars, firing, requests, sent, troubles>>

\* Its rows are claimed side by side.
ClaimDue(r) ==
  /\ r \in due /\ due' = due \ {r}
  /\ IF Claimable(r) THEN Claimed(r, "sweep") ELSE UNCHANGED <<row, stale, requests>>
  /\ UNCHANGED <<execution, lapsed, firing, sweep, sent, troubles>>

SweepDone ==
  /\ sweep = "delivering" /\ due = {} /\ ~\E q \in requests : q.owner = "sweep"
  /\ sweep' = "rest"
  /\ UNCHANGED <<rowVars, firing, requests, due, sent, troubles>>

\* sweepExpiredWorkflowExecutions
ExpiredHeld(e) == execution[e] = "running" /\ e \in lapsed /\ ~In(e, "none")
Expired(e) == execution[e] = "running" /\ e \in lapsed
SweepExpired ==
  /\ \E e \in Exec : Expired(e)
  /\ execution' = [e \in Exec |-> IF Expired(e) THEN "failed" ELSE execution[e]]
  /\ lapsed' = {e \in lapsed : ~Expired(e)}
  /\ UNCHANGED <<row, stale, memoryVars, sent, troubles>>

-----------------------------------------------------------------------------
(* Time and failure.                                                        *)

\* A lease runs out; over a holder that lives, as often as the bound allows.
Lapse(held) ==
  /\ held => troubles < MaxTroubles
  /\ troubles' = IF held THEN troubles + 1 ELSE troubles

LeaseLapses(e) ==
  /\ execution[e] = "running" /\ e \notin lapsed
  /\ Lapse(~In(e, "none"))
  /\ lapsed' = lapsed \cup {e}
  /\ UNCHANGED <<execution, row, stale, memoryVars, sent>>

ClaimLapses(r) ==
  /\ row[r].status = "delivering" /\ r \notin stale
  /\ Lapse(\E q \in requests : q.row = r /\ q.claim = row[r].claim)
  /\ stale' = stale \cup {r}
  /\ UNCHANGED <<execution, lapsed, row, memoryVars, sent>>

Restart ==
  /\ troubles < MaxTroubles /\ troubles' = troubles + 1
  /\ firing' = [e \in Exec |-> [phase |-> "none", action |-> 1]]
  /\ requests' = {} /\ sweep' = "rest" /\ due' = {}
  /\ UNCHANGED <<rowVars, sent>>

FiringStep(e) == Renew(e) \/ Queue(e) \/ ClaimOwn(e) \/ Finish(e)
RequestStep == \E q \in requests : Conclude(q) \/ \E p \in {"taken", "refused"} : Send(q, p)
SweepStep == SelectDue \/ SweepDone \/ \E r \in Row : ClaimDue(r)

Next ==
  \/ \E e \in Exec : Fire(e) \/ FiringStep(e) \/ ActionFails(e) \/ LeaseLapses(e)
  \/ RequestStep \/ SweepStep \/ SweepExpired \/ Restart
  \/ \E r \in Row : ClaimLapses(r)

Spec == Init /\ [][Next]_vars

\* What is awaited returns; the sweeps run on the gateway's heartbeat; a lease
\* that nobody renews runs out; and a retry's delay is over some day.
Fairness ==
  /\ \A e \in Exec : WF_vars(FiringStep(e))
  /\ \A r \in Row : WF_vars(\E q \in requests : q.row = r /\
                              (Conclude(q) \/ \E p \in {"taken", "refused"} : Send(q, p)))
  /\ WF_vars(SweepStep) /\ WF_vars(SweepExpired)
  /\ \A r \in Row : SF_vars(SelectDue /\ r \in due')
  /\ \A e \in Exec : WF_vars(In(e, "none") /\ LeaseLapses(e))
  /\ \A r \in Row : WF_vars((~\E q \in requests : q.row = r) /\ ClaimLapses(r))
FairSpec == Spec /\ Fairness

-----------------------------------------------------------------------------
(* Properties.                                                              *)

\* Every variable has its type; no row counts more attempts than it may make.
TypeOK ==
  /\ execution \in [Exec -> {"none", "running", "succeeded", "failed"}]
  /\ lapsed \subseteq Exec
  /\ row \in [Row -> RowState] /\ stale \subseteq Row
  /\ firing \in [Exec -> [phase : Phase, action : Action]]
  /\ requests \subseteq Request
  /\ sweep \in {"rest", "delivering"} /\ due \subseteq Row
  /\ sent \in [Row -> Nat] /\ troubles \in 0..MaxTroubles

Settled(r) == row[r].status \in {"succeeded", "failed"}

Sending(r) == {q \in requests : q.row = r /\ q.phase = "sending"}

\* However claims are taken over and processes die, a webhook is sent no more
\* often than its attempts allow, and the row knows of every request.
SentWithinAttempts ==
  \A r \in Row :
    /\ sent[r] + Cardinality(Sending(r)) <= row[r].attempts
    /\ row[r].attempts <= MaxAttempts

\* A delivery is concluded by the request that holds its claim: a worker whose
\* lease ran out neither ends nor reschedules what another has taken over.
HolderConcludes ==
  [][\A r \in Row :
       row[r].status = "delivering" /\ row'[r].status # "delivering" =>
         \E q \in requests : /\ q.row = r /\ q.claim = row[r].claim
                             /\ row'[r].status = AttemptResult(q)]_vars

\* The inductive invariant behind these two.
\* An execution queues its webhooks in their order, each once: what it has yet to queue
\* has no row.
Unqueued(e, from) == \A a \in Action : a >= from => row[<<e, a>>].status = "absent"
QueuedInTurn ==
  /\ \A e \in Exec : execution[e] = "none" => In(e, "none") /\ Unqueued(e, 1)
  /\ \A e \in Exec : firing[e].phase \in {"renew", "queue"} => Unqueued(e, firing[e].action)
  /\ \A e \in Exec :
       firing[e].phase \in {"deliver", "await"} => Unqueued(e, firing[e].action + 1)
\* The loop waits for each request of its own, and for one at a time.
LoopAwaits ==
  \A q \in requests : q.owner = "event" =>
    /\ In(q.row[1], "await")
    /\ \A p \in requests : p.owner = "event" /\ p.row[1] = q.row[1] => p = q
\* Only what is being delivered has a claim that can run out.
StaleIsDelivering == \A r \in stale : row[r].status = "delivering"
WorkflowsInv ==
  /\ TypeOK /\ IsFiniteSet(requests) /\ QueuedInTurn /\ LoopAwaits /\ StaleIsDelivering
  /\ SentWithinAttempts

\* An execution ends: its own loop ends it, or the sweep does when the process
\* died over it.
ExecutionsEnd ==
  \A e \in Exec : execution[e] = "running" ~> execution[e] \in {"succeeded", "failed"}

\* A row whose last attempt nobody holds any more is not taken up again.
Stranded(r) ==
  /\ row[r].status = "delivering" /\ row[r].attempts = MaxAttempts
  /\ ~\E q \in requests : q.row = r /\ q.claim = row[r].claim

\* A queued webhook is delivered or given up, unless its last attempt died with
\* the process.
DeliveriesSettle ==
  \A r \in Row : row[r].status = "pending" ~> Settled(r) \/ Stranded(r)
=============================================================================
