-------------------------- MODULE DeviceProposals --------------------------
(***************************************************************************)
(* Commands that the agent proposes for a device and a person decides      *)
(* (api/src/server/tools/device-proposal.ts, routers/device-proposals.ts). *)
(*                                                                         *)
(* decideDeviceProposal is one call with many awaits: it expires what is   *)
(* overdue, writes the decision if the proposal is still open, takes it    *)
(* back if the decider is who asked for the run, reads the device, checks, *)
(* consumes the approval and only then dispatches the command, detached.   *)
(* An action is one statement with the code up to the next await.          *)
(***************************************************************************)
EXTENDS Integers, FiniteSets

CONSTANTS
  Proposal,  \* device_command_proposals rows
  Person,    \* holders of device.approve
  Nobody,    \* requested_by_id, approved_by_id: null
  Call,      \* bound: decideDeviceProposal calls
  Limit      \* bound: how often each disturbance happens

Disturbance == {"crash", "disable", "refuse"}
ASSUME ProposalAssumption ==
  Nobody \notin Person /\ Limit \in [Disturbance -> Nat]

Decision == {"approved", "rejected"}
Status == {"absent", "proposed", "approved", "rejected", "expired", "dispatched"}
Open == {"proposed", "approved"}
Row == [status : Status, requester : Person \cup {Nobody}, approver : Person \cup {Nobody}]
CallPhase == {"new", "deciding", "reverting", "reading", "consuming", "sending", "over"}
CallState == [phase : CallPhase, person : Person \cup {Nobody},
              proposal : Proposal, decision : Decision]

VARIABLES
  row,       \* the proposals
  overdue,   \* proposals whose expires_at has passed
  enabled,   \* devices.execution_enabled
  proposing, \* proposeDeviceCommand, between its reads and its insert
  call,      \* the decisions in progress
  sent,      \* history: commands given to dispatchDeviceTool for a proposal
  sender,    \* history: who decided what was sent
  closed,    \* history: proposals once swept as expired, or turned down
  spent      \* disturbances so far

vars == <<row, overdue, enabled, proposing, call, sent, sender, closed, spent>>
historyVars == <<sent, sender, closed>>

Spend(d) == spent[d] < Limit[d] /\ spent' = [spent EXCEPT ![d] = @ + 1]

NoRow == [status |-> "absent", requester |-> Nobody, approver |-> Nobody]
Init ==
  /\ row = [p \in Proposal |-> NoRow]
  /\ overdue = {} /\ enabled = TRUE /\ proposing = {}
  /\ call \in [Call -> {[phase |-> "new", person |-> Nobody, proposal |-> p,
                         decision |-> "approved"] : p \in Proposal}]
  /\ sent = [p \in Proposal |-> 0] /\ sender = [p \in Proposal |-> Nobody]
  /\ closed = {}
  /\ spent = [d \in Disturbance |-> 0]

-----------------------------------------------------------------------------
(* proposeDeviceCommand.                                                    *)

\* The device allows proposed commands; the run names who started it, or nobody.
ReadDevice(p) ==
  /\ row[p].status = "absent" /\ p \notin proposing
  /\ enabled
  /\ proposing' = proposing \cup {p}
  /\ UNCHANGED <<row, overdue, enabled, call, historyVars, spent>>

Propose(p) ==
  /\ p \in proposing /\ proposing' = proposing \ {p}
  /\ \E q \in Person \cup {Nobody} :
       row' = [row EXCEPT ![p] = [status |-> "proposed", requester |-> q,
                                  approver |-> Nobody]]
  /\ UNCHANGED <<overdue, enabled, call, historyVars, spent>>

\* PROPOSAL_TTL_MS passes.
BecomesOverdue(p) ==
  /\ row[p].status # "absent" /\ p \notin overdue
  /\ overdue' = overdue \cup {p}
  /\ UNCHANGED <<row, enabled, proposing, call, historyVars, spent>>

\* expireStaleProposals
StaleUndecided(p) == p \in overdue /\ row[p].status = "proposed"
Stale(p) == p \in overdue /\ row[p].status \in Open
Expire ==
  /\ row' = [p \in Proposal |->
               IF Stale(p) THEN [row[p] EXCEPT !.status = "expired"] ELSE row[p]]
  /\ closed' = closed \cup {p \in Proposal : Stale(p)}

\* The gateway's sweep, and every reading of the queue.
Sweep ==
  /\ \E p \in Proposal : Stale(p)
  /\ Expire
  /\ UNCHANGED <<overdue, enabled, proposing, call, sent, sender, spent>>

-----------------------------------------------------------------------------
(* decideDeviceProposal.                                                    *)

In(c, phase) == call[c].phase = phase
Goes(c, phase) == call' = [call EXCEPT ![c].phase = phase]
Of(c) == row[call[c].proposal]

\* Somebody decides: first what is overdue expires.
Ask(c, who, decision) ==
  /\ In(c, "new") /\ Of(c).status # "absent"
  /\ call' = [call EXCEPT ![c].phase = "deciding", ![c].person = who,
                          ![c].decision = decision]
  /\ Expire
  /\ UNCHANGED <<overdue, enabled, proposing, sent, sender, spent>>

\* The decision is written over an open proposal only; a second decider is told.
AnyStatus(p) == row[p].status # "absent"
Undecided(p) == row[p].status = "proposed"
NobodysRequest(c) == FALSE
OwnRequest(c) == Of(c).requester = call[c].person
Verb(c) == IF call[c].decision = "approved" THEN "approve" ELSE "reject"
Decided(c) == call[c].decision
Decide(c) ==
  /\ In(c, "deciding")
  /\ LET p == call[c].proposal IN
       IF Undecided(p)
         THEN /\ row' = [row EXCEPT ![p].status = Decided(c),
                                    ![p].approver = call[c].person]
              /\ Goes(c, IF OwnRequest(c) THEN "reverting" ELSE "reading")
              /\ closed' = IF call[c].decision = "rejected" /\ ~OwnRequest(c)
                             THEN closed \cup {p} ELSE closed
         ELSE Goes(c, "over") /\ UNCHANGED <<row, closed>>
  /\ UNCHANGED <<overdue, enabled, proposing, sent, sender, spent>>

\* Whoever started the run does not decide: the decision is taken back, whatever
\* the row says by now.
Revert(c) ==
  /\ In(c, "reverting")
  /\ row' = [row EXCEPT ![call[c].proposal].status = "proposed",
                        ![call[c].proposal].approver = Nobody]
  /\ Goes(c, "over")
  /\ UNCHANGED <<overdue, enabled, proposing, historyVars, spent>>

\* The device is read; assertProposalDispatchable looks at the row as it was
\* decided, and at the clock.
AnyTime(p) == TRUE
InTime(p) == p \notin overdue
Read(c) ==
  /\ In(c, "reading")
  /\ Goes(c, IF call[c].decision = "approved" /\ InTime(call[c].proposal) /\ enabled
               THEN "consuming" ELSE "over")
  /\ UNCHANGED <<row, overdue, enabled, proposing, historyVars, spent>>

\* consumeProposal
StillApproved(p) == row[p].status = "approved"
Consume(c) ==
  /\ In(c, "consuming")
  /\ LET p == call[c].proposal IN
       IF StillApproved(p)
         THEN row' = [row EXCEPT ![p].status = "dispatched"] /\ Goes(c, "sending")
         ELSE UNCHANGED row /\ Goes(c, "over")
  /\ UNCHANGED <<overdue, enabled, proposing, historyVars, spent>>

\* The detached dispatch: the gateway takes the command, or refuses it because
\* the device is away.
Dispatch(c, taken) ==
  /\ In(c, "sending")
  /\ IF taken
       THEN /\ sent' = [sent EXCEPT ![call[c].proposal] = @ + 1]
            /\ sender' = [sender EXCEPT ![call[c].proposal] = call[c].person]
            /\ UNCHANGED spent
       ELSE Spend("refuse") /\ UNCHANGED <<sent, sender>>
  /\ Goes(c, "over")
  /\ UNCHANGED <<row, overdue, enabled, proposing, closed>>

-----------------------------------------------------------------------------
\* An operator turns execution off or on again.
Switch ==
  /\ Spend("disable") /\ enabled' = ~enabled
  /\ UNCHANGED <<row, overdue, proposing, call, historyVars>>

\* The process dies: what was in progress is gone.
Restart ==
  /\ Spend("crash")
  /\ proposing' = {}
  /\ call' = [c \in Call |-> IF In(c, "new") THEN call[c] ELSE [call[c] EXCEPT !.phase = "over"]]
  /\ UNCHANGED <<row, overdue, enabled, historyVars>>

CallStep(c) ==
  \/ Decide(c) \/ Revert(c) \/ Read(c) \/ Consume(c)
  \/ \E taken \in BOOLEAN : Dispatch(c, taken)

Next ==
  \/ \E p \in Proposal : ReadDevice(p) \/ Propose(p) \/ BecomesOverdue(p)
  \/ Sweep \/ Switch \/ Restart
  \/ \E c \in Call : CallStep(c) \/ \E who \in Person, d \in Decision : Ask(c, who, d)

Spec == Init /\ [][Next]_vars

\* What is awaited returns, time passes, and the gateway sweeps.
Fairness ==
  /\ \A c \in Call : WF_vars(CallStep(c))
  /\ \A p \in Proposal : WF_vars(BecomesOverdue(p))
  /\ WF_vars(Sweep)
FairSpec == Spec /\ Fairness

-----------------------------------------------------------------------------
(* Properties.                                                              *)

\* Every variable has its type; a row holds a status of the schema.
TypeOK ==
  /\ row \in [Proposal -> Row] /\ overdue \subseteq Proposal
  /\ enabled \in BOOLEAN /\ proposing \subseteq Proposal
  /\ call \in [Call -> CallState]
  /\ sent \in [Proposal -> Nat] /\ sender \in [Proposal -> Person \cup {Nobody}]
  /\ closed \subseteq Proposal

\* An approval authorises one execution: however many people decide at once, and
\* whoever dies in between, a proposal's command is dispatched at most once.
DispatchedOnce == \A p \in Proposal : sent[p] <= 1

\* What was dispatched was decided by a person who had not asked for it.
SecondPerson ==
  \A p \in Proposal :
    sent[p] > 0 => sender[p] \in Person /\ sender[p] # row[p].requester

\* A proposal that was swept as expired, or turned down by somebody entitled to,
\* is never dispatched afterwards -- although a decision taken back in that
\* moment reopens the row.
ClosedStaysUnsent ==
  [][\A p \in closed : sent'[p] = sent[p]]_vars

\* The inductive invariant behind these three.
\* A call between its decision and its last await.
ActivePhase == {"reverting", "reading", "consuming", "sending"}
Active(c) == call[c].phase \in ActivePhase
\* A proposal is decided by one call at a time, and is no longer open to another.
OneDecider ==
  /\ \A c \in Call : Active(c) => Of(c).status \notin {"absent", "proposed"}
  /\ \A c, d \in Call :
       Active(c) /\ Active(d) /\ call[c].proposal = call[d].proposal => c = d
\* What a call that has gone past the question knows of its proposal and decider.
CallsKnowRows ==
  /\ \A c \in Call : In(c, "deciding") => Of(c).status # "absent"
  /\ \A c \in Call : call[c].phase \in {"deciding"} \cup ActivePhase => call[c].person \in Person
  /\ \A c \in Call : call[c].phase \in {"reading", "consuming", "sending"} => ~OwnRequest(c)
  /\ \A p \in proposing : row[p].status = "absent"
\* A command is sent by the call that consumed the approval, and the row stays so.
SendersConsumed ==
  /\ \A c \in Call : In(c, "sending") => Of(c).status = "dispatched" /\ sent[call[c].proposal] = 0
  /\ \A p \in Proposal : sent[p] > 0 =>
       row[p].status = "dispatched" /\ ~\E c \in Call : Active(c) /\ call[c].proposal = p
\* What was closed is overdue or turned down for good, and nobody is about to send it.
ClosedIsPast ==
  /\ \A p \in closed : p \in overdue \/ row[p].status = "rejected"
  /\ \A c \in Call : call[c].proposal \in closed =>
       /\ ~In(c, "sending")
       /\ In(c, "consuming") => Of(c).status # "approved"
       /\ In(c, "reverting") => call[c].proposal \in overdue
ProposalsInv ==
  /\ TypeOK /\ OneDecider /\ CallsKnowRows /\ SendersConsumed /\ ClosedIsPast
  /\ DispatchedOnce /\ SecondPerson

\* No proposal stays open: it is turned down, dispatched or expires, and one
\* that its own requester approved when the process died is no exception.
ProposalsClose ==
  \A p \in Proposal :
    row[p].status \in Open ~> row[p].status \in {"rejected", "expired", "dispatched"}
=============================================================================
