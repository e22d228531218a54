------------------------------ MODULE AxelLoop ------------------------------
(***************************************************************************)
(* One run of Axel's loop (agent/axel/loop.py `run`) and the gateway's     *)
(* tools behind it (api/src/server/tools/index.ts `executeTool` and        *)
(* change.ts).  The loop asks a model what to do next, calls one tool at a *)
(* time, and lets the model resolve the ticket only when every write it    *)
(* accepted has been read back.  The gateway opens a change for an image   *)
(* patch and closes it by a read, a failed patch or a sweep of overdue     *)
(* ones.  The model's answers, the tools and the clock are adversaries.    *)
(***************************************************************************)
EXTENDS Integers, FiniteSets

CONSTANTS
  Requests,     \* the tool calls the model may ask for
  Resources,    \* the deployments and devices they name
  Facets,       \* the facets of a device's state a read can ask for
  ActionFacets, \* DEVICE_ACTION_FACETS: what shows the effect of an action
  MaxTurns,     \* config.max_model_turns
  CallLimits,   \* the values of config.max_tool_calls considered
  MaxFailures   \* config.max_consecutive_failures

\* The environment of the run, and the other values an `environment` may have.
RunEnv == "run"
NoEnv  == "unset"

\* A device tool and the observation take no environment: the field is unset.
ClusterTools == {"cluster_patch_image", "cluster_read_deployment"}
ToolNames == ClusterTools \cup {"device_run_action", "device_computer_use", "device_read_state",
                                "device_propose_command", "cmdb_record_observation",
                                "knowledge_search", "knowledge_fetch"}

\* The read that verifies a write, and "none" for every other tool.
Verifier(tool) ==
  CASE tool = "cluster_patch_image" -> "cluster_read_deployment"
    [] tool \in {"device_run_action", "device_computer_use"} -> "device_read_state"
    [] OTHER -> "none"

Call == [tool : ToolNames, on : Resources \cup {"none"},
         does : DOMAIN ActionFacets \cup {"none"}, facets : SUBSET Facets,
         environment : {RunEnv, NoEnv, "other"}]

ASSUME LoopAssumption ==
  /\ Requests \subseteq Call
  /\ \A call \in Requests : call.tool \notin ClusterTools => call.environment = NoEnv
  /\ \A call \in Requests : call.tool = "device_run_action" <=> call.does # "none"
  /\ \A action \in DOMAIN ActionFacets : ActionFacets[action] \subseteq Facets
  /\ MaxTurns \in Nat \ {0}
  /\ CallLimits \subseteq Nat \ {0}
  /\ MaxFailures \in Nat \ {0}

\* The call the loop makes before it asks the model for any.
SearchCall == [tool |-> "knowledge_search", on |-> "none", does |-> "none", facets |-> {},
               environment |-> NoEnv]

\* A change per patch, and a patch takes a turn.
ChangeIds == 1..MaxTurns
NoChange  == 0

VARIABLES
  maxCalls,   \* config.max_tool_calls
  phase,      \* where the loop is: searching, asking the model, sending, waiting, over
  turns,      \* model_turns
  calls,      \* tool_calls
  failures,   \* consecutive_failures
  rejections, \* resolution_rejections
  observed,   \* recorded_cmdb_observation
  pending,    \* the writes still to be verified
  doing,      \* the payload of the call that is being made
  late,       \* the run's deadline has passed
  outcome,    \* the status the loop returned
  why,        \* the reason it gives
  linked,     \* the stream between the worker and the gateway is up
  gate,       \* the gateway's tool call: its step, and what it answers
  serving,    \* the payload of that call
  picked,     \* the change it opened or selected
  changes,    \* the status of each change
  overdue,    \* the changes whose verificationDeadlineAt has passed
  unseen      \* history: accepted writes that nothing has looked at since

counters  == <<turns, calls, failures, rejections>>
gateVars  == <<gate, serving, picked, changes, overdue>>
loopVars  == <<maxCalls, phase, counters, observed, pending, doing, late, outcome, why, linked,
               unseen>>
vars == <<loopVars, gateVars>>

-----------------------------------------------------------------------------
(* What discharges a verification. *)

\* A cluster call without an environment gets the run's.
Defaulted(call) ==
  IF call.tool \in ClusterTools /\ call.environment = NoEnv
  THEN [call EXCEPT !.environment = RunEnv] ELSE call

\* The read looks at a facet that shows what the action changed.
ObservesAction(write, read) ==
  write.does # "none" => read.facets \cap ActionFacets[write.does] # {}

\* A plausible bug: any read of the device counts.
SameDevice(write, read) == write.on = read.on

\* The names of both payloads agree, and so do their environments with the run's.
SameResource(write, read) ==
  /\ ObservesAction(write, read)
  /\ write.environment # NoEnv \/ read.environment # NoEnv
       => write.environment = RunEnv /\ read.environment = RunEnv
  /\ write.on = read.on

\* `pending` after a successful call.
PendingAfter(call) ==
  LET owed == IF Verifier(call.tool) # "none" THEN pending \cup {call} ELSE pending
  IN {write \in owed : ~(call.tool = Verifier(write.tool) /\ SameResource(write, call))}

\* History, in the words of the promise: this read shows what that write did.
Shows(read, write) ==
  \/ /\ write.tool = "cluster_patch_image" /\ read.tool = "cluster_read_deployment"
     /\ read.on = write.on /\ read.environment = write.environment
  \/ /\ write.tool = "device_run_action" /\ read.tool = "device_read_state"
     /\ read.on = write.on /\ read.facets \cap ActionFacets[write.does] # {}
  \/ /\ write.tool = "device_computer_use" /\ read.tool = "device_read_state"
     /\ read.on = write.on

UnseenAfter(call) ==
  IF Verifier(call.tool) # "none" THEN unseen \cup {call}
  ELSE {write \in unseen : ~Shows(call, write)}

-----------------------------------------------------------------------------
(* The loop: agent/axel/loop.py. *)

Init ==
  /\ maxCalls \in CallLimits
  /\ phase = "search" /\ turns = 0 /\ calls = 0 /\ failures = 0 /\ rejections = 0
  /\ observed = FALSE /\ pending = {} /\ late = FALSE /\ linked = TRUE
  /\ doing = SearchCall
  /\ outcome = "none" /\ why = "none"
  /\ gate = "idle" /\ serving = SearchCall /\ picked = NoChange
  /\ changes = [c \in ChangeIds |-> "absent"] /\ overdue = {} /\ unseen = {}

\* The loop returns, and its locals go with it; what a resolved run had seen is kept.
Over(status, reason) ==
  /\ phase' = "over" /\ outcome' = status /\ why' = reason
  /\ turns' = 0 /\ calls' = 0 /\ failures' = 0 /\ rejections' = 0
  /\ pending' = {} /\ doing' = SearchCall /\ late' = FALSE
  /\ IF status = "resolved" THEN UNCHANGED <<observed, unseen>>
     ELSE observed' = FALSE /\ unseen' = {}

GoesTo(next) == phase' = next /\ UNCHANGED <<outcome, why, late>>

\* The forced knowledge search: a failed one is reported and not counted.
SearchEnds ==
  /\ phase = "search"
  /\ calls' \in (IF late THEN {0} ELSE {0, 1})
  /\ GoesTo("think")
  /\ UNCHANGED <<maxCalls, turns, failures, rejections, observed, pending, doing, linked,
                 gateVars, unseen>>

\* The head of the while loop, and a model call that reaches the deadline.
TurnCeiling ==
  /\ phase = "think" /\ turns >= MaxTurns
  /\ Over("exhausted", "turns")
  /\ UNCHANGED <<maxCalls, linked, gateVars>>

ThinkTimesOut ==
  /\ phase = "think" /\ turns < MaxTurns /\ late
  /\ Over("exhausted", "deadline")
  /\ UNCHANGED <<maxCalls, linked, gateVars>>

\* The model answered, or its call raised, in time.
Answered ==
  /\ phase = "think" /\ turns < MaxTurns /\ ~late
  /\ UNCHANGED <<maxCalls, linked, gateVars>>

\* The loop goes on to `next`, one turn further.
TurnTo(next) ==
  /\ turns' = turns + 1
  /\ GoesTo(next)
  /\ UNCHANGED <<observed, pending, unseen>>

AtFailureCeiling == failures + 1 >= MaxFailures

\* One more failure in a row, and the ceiling on those: the model call raised, its decision
\* is invalid or of an unknown kind, or its tool is unknown or its input does not validate.
BadAnswer ==
  /\ Answered
  /\ IF AtFailureCeiling THEN Over("exhausted", "failures")
     ELSE /\ TurnTo("think")
          /\ failures' = failures + 1
          /\ UNCHANGED <<calls, rejections, doing>>

\* What keeps a ticket from being resolved.
Blocked == pending # {} \/ ~observed

Resolve ==
  /\ Answered /\ ~Blocked
  /\ Over("resolved", "decision")

\* The second rejected resolution in a row escalates; the failure ceiling is not looked at.
RejectResolution ==
  /\ Answered /\ Blocked
  /\ IF rejections + 1 >= 2 THEN Over("escalated", "rejections")
     ELSE /\ TurnTo("think")
          /\ failures' = failures + 1 /\ rejections' = rejections + 1
          /\ UNCHANGED <<calls, doing>>

Escalate == Answered /\ Over("escalated", "decision")

CallCeiling == Answered /\ calls >= maxCalls /\ Over("exhausted", "calls")

Counted == calls + 1

AskForCall ==
  /\ Answered /\ calls < maxCalls
  /\ \E request \in Requests : doing' = Defaulted(request)
  /\ calls' = Counted
  /\ TurnTo("send")
  /\ UNCHANGED <<failures, rejections>>

\* The reports before the call took time: the deadline is looked at again.
SendCall ==
  /\ phase = "send"
  /\ IF late THEN Over("exhausted", "deadline") /\ UNCHANGED <<gate, serving>>
     ELSE /\ GoesTo("wait")
          /\ IF linked THEN gate' = "called" /\ serving' = doing ELSE UNCHANGED <<gate, serving>>
          /\ UNCHANGED <<counters, observed, pending, doing, unseen>>
  /\ UNCHANGED <<maxCalls, linked, picked, changes, overdue>>

\* The answer is a success: it ends both rows of bad turns.
TakeSuccess ==
  /\ phase = "wait" /\ gate = "answered" /\ ~late
  /\ gate' = "idle" /\ UNCHANGED <<serving, picked>>
  /\ failures' = 0 /\ rejections' = 0
  /\ observed' = (observed \/ doing.tool = "cmdb_record_observation")
  /\ pending' = PendingAfter(doing) /\ unseen' = UnseenAfter(doing)
  /\ doing' = SearchCall
  /\ GoesTo("think")
  /\ UNCHANGED <<maxCalls, turns, calls, linked, changes, overdue>>

\* The answer is a refusal, an exception of the tool, or an output with an error in it.
TakeFailure ==
  /\ phase = "wait" /\ gate = "raised" /\ ~late
  /\ gate' = "idle" /\ UNCHANGED <<serving, picked>>
  /\ IF AtFailureCeiling THEN Over("exhausted", "failures")
     ELSE /\ failures' = failures + 1 /\ doing' = SearchCall
          /\ GoesTo("think")
          /\ UNCHANGED <<turns, calls, rejections, observed, pending, unseen>>
  /\ UNCHANGED <<maxCalls, linked, changes, overdue>>

\* A plausible bug: the tool is awaited without a timeout.
NoPhase == {}

\* The calls that are given up at the run's deadline.
TimedPhases == {"wait"}

CallTimesOut ==
  /\ phase \in TimedPhases /\ late
  /\ Over("exhausted", "deadline")
  /\ UNCHANGED <<maxCalls, linked, gateVars>>

DeadlinePasses ==
  /\ ~late /\ phase # "over" /\ late' = TRUE
  /\ UNCHANGED <<maxCalls, phase, counters, observed, pending, doing, outcome, why, linked,
                 gateVars, unseen>>

\* The stream is lost or the run is cancelled: its task is, at whatever it awaits.
LoseStream ==
  /\ phase # "over"
  /\ Over("failed", "lost") /\ linked' = FALSE
  /\ UNCHANGED <<maxCalls, gateVars>>

-----------------------------------------------------------------------------
(* The gateway: tools/index.ts and tools/change.ts. *)

\* The handler of the call goes on to `step`, or is done with it.
Handles(step) == gate' = step /\ UNCHANGED <<loopVars, serving>>
Ends(answer) ==
  /\ gate' = answer /\ serving' = SearchCall /\ picked' = NoChange
  /\ UNCHANGED <<loopVars>>

\* A change takes `status`; completing or sweeping one clears its deadline.
Becomes(c, status) ==
  changes' = [changes EXCEPT ![c] = status] /\ overdue' = overdue \ {c}

\* The call is refused, or fails before anything is written: another environment than the
\* run's (always), shadow mode, a bad image, a cluster or a device that does not answer.
GateRefuses ==
  /\ gate = "called"
  /\ Ends("raised")
  /\ UNCHANGED <<changes, overdue>>

\* The environment contract lets the call pass.
Allowed == serving.environment \in {RunEnv, NoEnv}

\* A tool that keeps no change: it answers, and its effect is elsewhere.
RunOther ==
  /\ gate = "called" /\ Allowed /\ serving.tool \notin ClusterTools
  /\ Ends("answered")
  /\ UNCHANGED <<changes, overdue>>

\* patchImageWithChange: the change is stored in progress before the patch is sent.
OpenChange ==
  /\ gate = "called" /\ Allowed /\ serving.tool = "cluster_patch_image"
  /\ \E c \in ChangeIds :
       /\ changes[c] = "absent" /\ \A older \in ChangeIds : older < c => changes[older] # "absent"
       /\ Becomes(c, "in_progress")
       /\ picked' = c
  /\ Handles("patching")

\* The patch was applied, and the rollout was polled to its end.
PatchApplied ==
  /\ gate = "patching"
  /\ Ends("answered")
  /\ UNCHANGED <<changes, overdue>>

\* The patch or a poll of its rollout raised: the change fails, whatever its status was by
\* then, unless that statement fails too.
PatchRaises ==
  /\ gate = "patching"
  /\ \/ Becomes(picked, "failed")
     \/ UNCHANGED <<changes, overdue>>
  /\ Ends("raised")

\* executeTool: a deployment read takes any change of the run in progress as the one it
\* verifies, whichever deployment that change is of.
SelectChange ==
  /\ gate = "called" /\ Allowed /\ serving.tool = "cluster_read_deployment"
  /\ LET open == {c \in ChangeIds : changes[c] = "in_progress"}
     IN picked' \in (IF open = {} THEN {NoChange} ELSE open)
  /\ Handles("reading")
  /\ UNCHANGED <<changes, overdue>>

ReadRaises ==
  /\ gate = "reading"
  /\ Ends("raised")
  /\ UNCHANGED <<changes, overdue>>

\* A plausible bug: the change selected before the read is completed as it is.
Selected(c) == c \in ChangeIds

\* The update after the read, guarded by the status.
Completable(c) == changes[c] = "in_progress"

ReadEnds ==
  /\ gate = "reading"
  /\ IF picked # NoChange /\ Completable(picked) THEN Becomes(picked, "completed")
     ELSE UNCHANGED <<changes, overdue>>
  /\ Ends("answered")

\* The gateway dies in the middle of a call, or of none; its rows stay.
GatewayDies ==
  /\ linked /\ linked' = FALSE
  /\ gate' = "idle" /\ serving' = SearchCall /\ picked' = NoChange
  /\ UNCHANGED <<maxCalls, phase, counters, observed, pending, doing, late, outcome, why,
                 changes, overdue, unseen>>

\* A plausible bug: the deadline is that of the call, and gone with it.
HasDeadlineInCall(c) == changes[c] = "in_progress" /\ picked = c

\* A change is stored with a verification deadline, five minutes ahead.
HasDeadline(c) == changes[c] = "in_progress"

ChangeFallsDue(c) ==
  /\ c \notin overdue /\ HasDeadline(c)
  /\ overdue' = overdue \cup {c}
  /\ UNCHANGED <<loopVars, gate, serving, picked, changes>>

ChangesFallDue == \E c \in ChangeIds : ChangeFallsDue(c)

\* sweepExpiredChangeVerifications: one statement for all of them.
SweepChanges ==
  LET expired == {c \in overdue : changes[c] = "in_progress"}
  IN /\ expired # {}
     /\ changes' = [c \in ChangeIds |-> IF c \in expired THEN "failed" ELSE changes[c]]
     /\ overdue' = overdue \ expired
     /\ UNCHANGED <<loopVars, gate, serving, picked>>

-----------------------------------------------------------------------------
LoopStep == SearchEnds \/ TurnCeiling \/ ThinkTimesOut \/ SendCall \/ CallTimesOut
ModelStep == BadAnswer \/ Resolve \/ RejectResolution \/ Escalate \/ CallCeiling
               \/ AskForCall
AnswerStep == TakeSuccess \/ TakeFailure
GateStep == GateRefuses \/ RunOther \/ OpenChange \/ PatchApplied \/ PatchRaises \/ SelectChange
              \/ ReadRaises \/ ReadEnds
Next ==
  \/ LoopStep \/ ModelStep \/ AnswerStep \/ GateStep
  \/ DeadlinePasses \/ LoseStream \/ GatewayDies \/ SweepChanges
  \/ ChangesFallDue

Spec == Init /\ [][Next]_vars

\* The clock advances, the event loop runs what is ready and its timers, and the gateway
\* sweeps; neither the model nor a tool need ever answer.
Fairness ==
  /\ WF_vars(LoopStep) /\ WF_vars(DeadlinePasses)
  /\ WF_vars(SweepChanges) /\ WF_vars(ChangesFallDue)

FairSpec == Spec /\ Fairness

-----------------------------------------------------------------------------
(* Properties. *)

(* Every variable has its type: the locals of `run` and of the gateway's handlers, and the  *)
(* rows of the changes.                                                                     *)
LoopTypes ==
  /\ maxCalls \in CallLimits
  /\ phase \in {"search", "think", "send", "wait", "over"}
  /\ turns \in Nat /\ calls \in Nat /\ failures \in Nat /\ rejections \in Nat
  /\ observed \in BOOLEAN /\ late \in BOOLEAN /\ linked \in BOOLEAN
  /\ pending \subseteq Call /\ doing \in Call /\ unseen \subseteq Call
  /\ outcome \in {"none", "resolved", "escalated", "exhausted", "failed"}
  /\ why \in {"none", "decision", "deadline", "calls", "turns", "failures", "rejections", "lost"}

GateTypes ==
  /\ gate \in {"idle", "called", "patching", "reading", "answered", "raised"}
  /\ serving \in Call
  /\ picked \in ChangeIds \cup {NoChange}
  /\ changes \in [ChangeIds -> {"absent", "in_progress", "completed", "failed"}]
  /\ overdue \subseteq ChangeIds

TypeOK == LoopTypes /\ GateTypes

(* A run resolves its ticket only after an observation was recorded and after every write   *)
(* it was told had succeeded was looked at by a later read of the same resource, with a     *)
(* facet that shows the action: the gate at loop.py:268 over `pending`.                     *)
ResolvedIsVerified == outcome = "resolved" => observed /\ unseen = {}

(* With a call ceiling above the turn ceiling, the turns always run out first: the search   *)
(* costs one call and each turn at most one, and the last turn is checked before its call,  *)
(* so the ceiling of loop.py:333 is dead from max_model_turns + 1 on.                       *)
CallCeilingUnreached == maxCalls > MaxTurns => why # "calls"

(* However long the model or a tool hangs, and whatever the run was doing, it is over once  *)
(* its deadline has passed: the timeouts at loop.py:222 and 389.                            *)
RunEnds == <>(phase = "over")

(* A change that was completed or failed stays so, whatever order a verifying read, the     *)
(* sweep and a patch that raises late come in: the guard at tools/index.ts:364.             *)
ClosedChangesStay ==
  [][\A c \in ChangeIds : changes[c] \in {"completed", "failed"} => changes'[c] = changes[c]]_vars

(* In the end no change of the run is open: each was closed by its read, by its failure or  *)
(* by the sweep of its deadline, also when the run ended or the gateway died over it:       *)
(* tools/change.ts:61.                                                                      *)
ChangesClose == <>[](\A c \in ChangeIds : changes[c] # "in_progress")

-----------------------------------------------------------------------------
(* The inductive invariant behind the safety properties. *)

\* A run that goes on has no outcome yet.
RunningIsOpen == phase # "over" => outcome = "none" /\ why = "none"

\* The search costs a call, and each turn at most one.
CallPerTurn ==
  /\ phase = "search" => turns = 0 /\ calls = 0
  /\ phase # "over" => turns <= MaxTurns /\ calls <= turns + 1

\* A named action is what device_run_action runs.
ActionsAreNamed ==
  \A write \in pending \cup {doing} : write.tool = "device_run_action" => write.does # "none"

\* What the history still misses, the loop still asks for.
UnseenIsPending == phase # "over" => unseen \subseteq pending

\* The change of a patch under way is not one that a read has completed.
PatchIsOpen ==
  gate = "patching" => picked \in ChangeIds /\ changes[picked] \in {"in_progress", "failed"}

LoopInv ==
  /\ RunningIsOpen /\ CallPerTurn /\ ActionsAreNamed /\ UnseenIsPending /\ PatchIsOpen
  /\ ResolvedIsVerified /\ CallCeilingUnreached
=============================================================================
