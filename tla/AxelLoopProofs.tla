--------------------------- MODULE AxelLoopProofs ---------------------------
(***************************************************************************)
(* AxelLoop for every set of requests, facets and ceilings: its types, that *)
(* a resolved run has read back what it wrote, that a call ceiling above   *)
(* the turns is never reached, and that a closed change stays closed.      *)
(***************************************************************************)
EXTENDS AxelLoop, TLAPS

-----------------------------------------------------------------------------
(* Calls and what verifies them. *)

(* The search the loop makes first is a call like those of the model (loop.py:174).         *)
LEMMA SearchIsCall == SearchCall \in Call /\ SearchCall.tool = "knowledge_search"
<1>1. "knowledge_search" \in ToolNames
  BY DEF ToolNames
<1>2. QED
  BY <1>1 DEF SearchCall, Call

(* Giving a call the run's environment leaves everything else of it as it was: loop.py:370. *)
LEMMA DefaultedIsCall ==
  ASSUME NEW request \in Requests
  PROVE  /\ Defaulted(request) \in Call
         /\ Defaulted(request).tool = "device_run_action" => Defaulted(request).does # "none"
<1>1. request \in Call /\ (request.tool = "device_run_action" => request.does # "none")
  BY LoopAssumption
<1>2. QED
  BY <1>1 DEF Defaulted, Call, RunEnv

(* What discharges an obligation shows what the write did: `_same_resource`, loop.py:530.   *)
LEMMA DischargeShows ==
  ASSUME NEW write \in Call, NEW read \in Call,
         write.tool = "device_run_action" => write.does # "none",
         read.tool = Verifier(write.tool), SameResource(write, read)
  PROVE  Shows(read, write)
<1>1. CASE write.tool = "cluster_patch_image"
  BY <1>1 DEF Verifier, SameResource, Shows, RunEnv, NoEnv
<1>2. CASE write.tool = "device_run_action"
  BY <1>2 DEF Verifier, SameResource, ObservesAction, Shows
<1>3. CASE write.tool = "device_computer_use"
  BY <1>3 DEF Verifier, SameResource, Shows
<1>4. CASE write.tool \notin {"cluster_patch_image", "device_run_action", "device_computer_use"}
  BY <1>4 DEF Verifier, Call, ToolNames, ClusterTools
<1>5. QED
  BY <1>1, <1>2, <1>3, <1>4

(* So a successful call keeps every unseen write among the pending ones: loop.py:446.       *)
LEMMA PendingCoversUnseen ==
  ASSUME NEW call \in Call, pending \subseteq Call, unseen \subseteq pending,
         \A write \in pending \cup {call} : write.tool = "device_run_action" => write.does # "none"
  PROVE  /\ UnseenAfter(call) \subseteq PendingAfter(call)
         /\ PendingAfter(call) \subseteq pending \cup {call}
<1>1. PendingAfter(call) \subseteq pending \cup {call}
  BY DEF PendingAfter
<1>2. CASE Verifier(call.tool) # "none"
  <2>1. \A write \in Call : call.tool # Verifier(write.tool)
    BY <1>2 DEF Verifier
  <2>2. QED
    BY <1>1, <1>2, <2>1 DEF UnseenAfter, PendingAfter
<1>3. CASE Verifier(call.tool) = "none"
  <2>1. SUFFICES ASSUME NEW write \in unseen, ~Shows(call, write)
                 PROVE  write \in PendingAfter(call)
    BY <1>1, <1>3 DEF UnseenAfter
  <2>2. ~(call.tool = Verifier(write.tool) /\ SameResource(write, call))
    BY <2>1, DischargeShows
  <2>3. QED
    BY <1>3, <2>2 DEF PendingAfter
<1>4. QED
  BY <1>1, <1>2, <1>3

-----------------------------------------------------------------------------
(* The invariant, in the loop's part and the gateway's. *)

LoopSide ==
  /\ LoopTypes /\ RunningIsOpen /\ CallPerTurn /\ ActionsAreNamed /\ UnseenIsPending
  /\ ResolvedIsVerified /\ CallCeilingUnreached

GateSide == GateTypes /\ PatchIsOpen

(* The invariant is that of the loop's variables and that of the gateway's.                 *)
LEMMA BothSides == (TypeOK /\ LoopInv) <=> (LoopSide /\ GateSide)
BY DEF TypeOK, LoopInv, LoopSide, GateSide

(* A run starts with its counters at zero, nothing owed and no change (loop.py:159).        *)
LEMMA InitHolds == Init => LoopSide /\ GateSide
<1> SUFFICES ASSUME Init PROVE LoopSide /\ GateSide
  OBVIOUS
<1>1. LoopTypes
  BY SearchIsCall DEF Init, LoopTypes
<1>2. RunningIsOpen /\ CallPerTurn /\ UnseenIsPending /\ ResolvedIsVerified /\ CallCeilingUnreached
  BY LoopAssumption
     DEF Init, RunningIsOpen, CallPerTurn, UnseenIsPending, ResolvedIsVerified, CallCeilingUnreached
<1>3. ActionsAreNamed
  BY SearchIsCall DEF Init, ActionsAreNamed
<1>4. GateTypes
  BY SearchIsCall DEF Init, GateTypes, NoChange
<1>5. PatchIsOpen
  BY DEF Init, PatchIsOpen
<1>6. QED
  BY <1>1, <1>2, <1>3, <1>4, <1>5 DEF LoopSide, GateSide

(* A step of the gateway alone leaves the loop's part as it was.                            *)
LEMMA LoopStill == LoopSide /\ UNCHANGED loopVars => LoopSide'
BY DEF LoopSide, LoopTypes, RunningIsOpen, CallPerTurn, ActionsAreNamed, UnseenIsPending,
       ResolvedIsVerified, CallCeilingUnreached, loopVars, counters

(* A step of the loop alone leaves the gateway's part as it was.                            *)
LEMMA GateStill == GateSide /\ UNCHANGED gateVars => GateSide'
BY DEF GateSide, GateTypes, PatchIsOpen, gateVars

(* A run that returns forgets its locals: what is asked is only of its outcome (loop.py:652). *)
LEMMA OverKeeps ==
  ASSUME LoopSide,
         NEW status \in {"resolved", "escalated", "exhausted", "failed"},
         NEW reason \in {"decision", "deadline", "calls", "turns", "failures", "rejections", "lost"},
         status = "resolved" => observed /\ unseen = {},
         reason = "calls" => maxCalls <= MaxTurns,
         Over(status, reason), maxCalls' = maxCalls, linked' \in BOOLEAN
  PROVE  LoopSide'
<1>1. LoopTypes'
  <2>1. observed' \in BOOLEAN /\ unseen' \in SUBSET Call
    <3>1. CASE status = "resolved"
      BY <3>1 DEF LoopSide, LoopTypes, Over
    <3>2. CASE status # "resolved"
      BY <3>2 DEF Over
    <3>3. QED
      BY <3>1, <3>2
  <2>2. maxCalls' \in CallLimits
    BY DEF LoopSide, LoopTypes
  <2>3. QED
    BY <2>1, <2>2, SearchIsCall DEF Over, LoopTypes
<1>2. RunningIsOpen' /\ CallPerTurn' /\ UnseenIsPending'
  BY DEF Over, RunningIsOpen, CallPerTurn, UnseenIsPending
<1>3. ActionsAreNamed'
  BY SearchIsCall DEF Over, ActionsAreNamed
<1>4. ResolvedIsVerified'
  BY DEF Over, ResolvedIsVerified
<1>5. CallCeilingUnreached'
  <2>1. maxCalls \in Nat /\ MaxTurns \in Nat
    BY LoopAssumption DEF LoopSide, LoopTypes
  <2>2. QED
    BY <2>1 DEF Over, CallCeilingUnreached
<1>6. QED
  BY <1>1, <1>2, <1>3, <1>4, <1>5 DEF LoopSide

(* A run that goes on keeps its outcome open: what is asked is of its counters and its      *)
(* obligations.                                                                             *)
LEMMA GoingOnKeeps ==
  ASSUME LoopSide, phase # "over",
         NEW next \in {"think", "send", "wait"}, GoesTo(next),
         maxCalls' = maxCalls, linked' \in BOOLEAN, observed' \in BOOLEAN,
         turns' \in Nat, calls' \in Nat, failures' \in Nat, rejections' \in Nat,
         turns' <= MaxTurns, calls' <= turns' + 1,
         pending' \subseteq Call, doing' \in Call, unseen' \subseteq pending', ActionsAreNamed'
  PROVE  LoopSide'
<1>1. outcome' = "none" /\ why' = "none" /\ phase' = next
  BY DEF LoopSide, RunningIsOpen, GoesTo
<1>2. LoopTypes'
  BY <1>1 DEF LoopSide, LoopTypes, GoesTo
<1>3. RunningIsOpen' /\ ResolvedIsVerified' /\ CallCeilingUnreached'
  BY <1>1 DEF RunningIsOpen, ResolvedIsVerified, CallCeilingUnreached
<1>4. CallPerTurn' /\ UnseenIsPending'
  BY <1>1 DEF CallPerTurn, UnseenIsPending
<1>5. QED
  BY <1>2, <1>3, <1>4 DEF LoopSide

(* What the loop knows while it goes on. *)
LEMMA GoingOn ==
  ASSUME LoopSide, phase # "over"
  PROVE  /\ maxCalls \in Nat /\ MaxTurns \in Nat /\ linked \in BOOLEAN /\ observed \in BOOLEAN
         /\ turns \in Nat /\ calls \in Nat /\ failures \in Nat /\ rejections \in Nat
         /\ turns <= MaxTurns /\ calls <= turns + 1
         /\ pending \subseteq Call /\ doing \in Call /\ unseen \subseteq pending
BY LoopAssumption DEF LoopSide, LoopTypes, CallPerTurn, UnseenIsPending

-----------------------------------------------------------------------------
(* The steps. *)

(* The forced search costs one call at most, before the first turn (loop.py:185).           *)
LEMMA SearchKeeps == LoopSide /\ SearchEnds => LoopSide'
<1> SUFFICES ASSUME LoopSide, SearchEnds PROVE LoopSide'
  OBVIOUS
<1>1. phase # "over" /\ turns = 0 /\ calls' \in {0, 1}
  BY DEF SearchEnds, LoopSide, CallPerTurn
<1>2. ActionsAreNamed'
  BY DEF SearchEnds, LoopSide, ActionsAreNamed
<1>3. QED
  BY <1>1, <1>2, GoingOn, GoingOnKeeps DEF SearchEnds

(* The returns that do not resolve the ticket. *)
LEMMA ReturnsKeep ==
  LoopSide /\ (TurnCeiling \/ ThinkTimesOut \/ Escalate \/ CallTimesOut \/ LoseStream) => LoopSide'
<1> SUFFICES ASSUME LoopSide PROVE
      (TurnCeiling \/ ThinkTimesOut \/ Escalate \/ CallTimesOut \/ LoseStream) => LoopSide'
  OBVIOUS
<1>0. linked \in BOOLEAN
  BY DEF LoopSide, LoopTypes
<1>1. ASSUME TurnCeiling PROVE LoopSide'
  BY <1>0, <1>1, OverKeeps DEF TurnCeiling
<1>2. ASSUME ThinkTimesOut PROVE LoopSide'
  BY <1>0, <1>2, OverKeeps DEF ThinkTimesOut
<1>3. ASSUME Escalate PROVE LoopSide'
  BY <1>0, <1>3, OverKeeps DEF Escalate, Answered
<1>4. ASSUME CallTimesOut PROVE LoopSide'
  BY <1>0, <1>4, OverKeeps DEF CallTimesOut
<1>5. ASSUME LoseStream PROVE LoopSide'
  BY <1>5, OverKeeps DEF LoseStream
<1>6. QED
  BY <1>1, <1>2, <1>3, <1>4, <1>5

(* Nothing pending, and so nothing unseen: the gate of loop.py:268. *)
LEMMA ResolveKeeps == LoopSide /\ Resolve => LoopSide'
<1> SUFFICES ASSUME LoopSide, Resolve PROVE LoopSide'
  OBVIOUS
<1>1. observed /\ unseen = {} /\ linked' \in BOOLEAN
  <2>1. observed /\ pending = {} /\ phase # "over" /\ linked' = linked
    BY DEF Resolve, Answered, Blocked
  <2>2. QED
    BY <2>1, GoingOn
<1>2. QED
  BY <1>1, OverKeeps DEF Resolve, Answered

(* The call ceiling is met below the turn ceiling, so it is not above it. *)
LEMMA CallCeilingKeeps == LoopSide /\ CallCeiling => LoopSide'
<1> SUFFICES ASSUME LoopSide, CallCeiling PROVE LoopSide'
  OBVIOUS
<1>1. maxCalls <= MaxTurns /\ linked' \in BOOLEAN /\ maxCalls' = maxCalls
  <2>1. phase # "over" /\ turns < MaxTurns /\ calls >= maxCalls /\ linked' = linked
    BY DEF CallCeiling, Answered
  <2>2. QED
    BY <2>1, GoingOn DEF CallCeiling, Answered
<1>2. Over("exhausted", "calls")
  BY DEF CallCeiling
<1>3. QED
  BY <1>1, <1>2, OverKeeps

(* A bad answer, and a resolution that is not accepted yet. *)
LEMMA BadTurnKeeps == LoopSide /\ (BadAnswer \/ RejectResolution) => LoopSide'
<1> SUFFICES ASSUME LoopSide, BadAnswer \/ RejectResolution PROVE LoopSide'
  OBVIOUS
<1>1. phase # "over" /\ turns < MaxTurns /\ maxCalls' = maxCalls /\ linked' = linked
  BY DEF BadAnswer, RejectResolution, Answered
<1>2. CASE Over("exhausted", "failures") \/ Over("escalated", "rejections")
  BY <1>1, <1>2, GoingOn, OverKeeps
<1>3. CASE /\ TurnTo("think") /\ UNCHANGED <<calls, doing>> /\ failures' = failures + 1
           /\ rejections' \in {rejections, rejections + 1}
  <2>1. GoesTo("think") /\ turns' = turns + 1 /\ UNCHANGED <<observed, pending, unseen>>
    BY <1>3 DEF TurnTo
  <2>2. ActionsAreNamed'
    BY <1>3, <2>1 DEF LoopSide, ActionsAreNamed
  <2>3. /\ turns' \in Nat /\ calls' \in Nat /\ failures' \in Nat /\ rejections' \in Nat
        /\ turns' <= MaxTurns /\ calls' <= turns' + 1
    BY <1>1, <1>3, <2>1, GoingOn
  <2>4. QED
    BY <1>1, <1>3, <2>1, <2>2, <2>3, GoingOn, GoingOnKeeps
<1>4. QED
  BY <1>2, <1>3 DEF BadAnswer, RejectResolution

(* A turn goes on with the call the model asked for. *)
LEMMA AskKeeps == LoopSide /\ AskForCall => LoopSide'
<1> SUFFICES ASSUME LoopSide, AskForCall PROVE LoopSide'
  OBVIOUS
<1>1. phase # "over" /\ turns < MaxTurns /\ maxCalls' = maxCalls /\ linked' = linked
  BY DEF AskForCall, Answered
<1>2. /\ GoesTo("send") /\ turns' = turns + 1 /\ calls' = calls + 1
      /\ UNCHANGED <<observed, pending, unseen, failures, rejections>>
  BY DEF AskForCall, TurnTo, Counted
<1>3. doing' \in Call /\ (doing'.tool = "device_run_action" => doing'.does # "none")
  <2>1. PICK request \in Requests : doing' = Defaulted(request)
    BY DEF AskForCall
  <2>2. QED
    BY <2>1, DefaultedIsCall
<1>4. ActionsAreNamed'
  BY <1>2, <1>3 DEF LoopSide, ActionsAreNamed
<1>5. /\ turns' \in Nat /\ calls' \in Nat /\ failures' \in Nat /\ rejections' \in Nat
      /\ turns' <= MaxTurns /\ calls' <= turns' + 1
  BY <1>1, <1>2, GoingOn
<1>6. QED
  BY <1>1, <1>2, <1>3, <1>4, <1>5, GoingOn, GoingOnKeeps

(* The call is sent, or given up at the deadline. *)
LEMMA SendKeeps == LoopSide /\ GateSide /\ SendCall => LoopSide' /\ GateSide'
<1> SUFFICES ASSUME LoopSide, GateSide, SendCall PROVE LoopSide' /\ GateSide'
  OBVIOUS
<1>1. phase # "over" /\ maxCalls' = maxCalls /\ linked' = linked
  BY DEF SendCall
<1>2. CASE late
  <2>1. Over("exhausted", "deadline") /\ UNCHANGED gateVars
    BY <1>2 DEF SendCall, gateVars
  <2>2. QED
    BY <1>1, <2>1, GoingOn, OverKeeps, GateStill
<1>3. CASE ~late
  <2>1. GoesTo("wait") /\ UNCHANGED <<counters, observed, pending, doing, unseen>>
    BY <1>3 DEF SendCall
  <2>2. ActionsAreNamed'
    BY <2>1 DEF LoopSide, ActionsAreNamed
  <2>3. UNCHANGED <<turns, calls, failures, rejections>>
    BY <2>1 DEF counters
  <2>4. LoopSide'
    BY <1>1, <2>1, <2>2, <2>3, GoingOn, GoingOnKeeps
  <2>5. \/ gate' = "called" /\ serving' = doing
        \/ UNCHANGED <<gate, serving>>
    BY <1>3 DEF SendCall
  <2>6. doing \in Call /\ UNCHANGED <<picked, changes, overdue>>
    BY <1>1, GoingOn DEF SendCall
  <2>7. GateSide'
    BY <2>5, <2>6 DEF GateSide, GateTypes, PatchIsOpen
  <2>8. QED
    BY <2>4, <2>7
<1>4. QED
  BY <1>2, <1>3

(* The answer frees the gateway's handler. *)
LEMMA AnswerFreesGate ==
  ASSUME GateSide, gate' = "idle", UNCHANGED <<serving, picked, changes, overdue>>
  PROVE  GateSide'
BY DEF GateSide, GateTypes, PatchIsOpen

(* A success: what it leaves unseen, it leaves pending. *)
LEMMA TakeSuccessKeeps == LoopSide /\ GateSide /\ TakeSuccess => LoopSide' /\ GateSide'
<1> SUFFICES ASSUME LoopSide, GateSide, TakeSuccess PROVE LoopSide' /\ GateSide'
  OBVIOUS
<1>1. phase # "over" /\ maxCalls' = maxCalls /\ linked' = linked
  BY DEF TakeSuccess
<1>2. GateSide'
  BY AnswerFreesGate DEF TakeSuccess
<1>3. ActionsAreNamed
  BY DEF LoopSide
<1>4. unseen' \subseteq pending' /\ pending' \subseteq pending \cup {doing}
  BY <1>1, <1>3, GoingOn, PendingCoversUnseen DEF TakeSuccess, ActionsAreNamed
<1>5. pending' \subseteq Call
  BY <1>1, <1>4, GoingOn
<1>6. ActionsAreNamed'
  BY <1>3, <1>4, SearchIsCall DEF ActionsAreNamed, TakeSuccess
<1>7. observed' \in BOOLEAN
  BY DEF TakeSuccess
<1>8. /\ GoesTo("think") /\ doing' = SearchCall /\ UNCHANGED <<turns, calls>>
      /\ failures' = 0 /\ rejections' = 0
  BY DEF TakeSuccess
<1>9. LoopSide'
  BY <1>1, <1>4, <1>5, <1>6, <1>7, <1>8, SearchIsCall, GoingOn, GoingOnKeeps
<1>10. QED
  BY <1>2, <1>9

(* A failure adds to the row of failures, or ends the run at their ceiling.                 *)
LEMMA TakeFailureKeeps == LoopSide /\ GateSide /\ TakeFailure => LoopSide' /\ GateSide'
<1> SUFFICES ASSUME LoopSide, GateSide, TakeFailure PROVE LoopSide' /\ GateSide'
  OBVIOUS
<1>1. phase # "over" /\ maxCalls' = maxCalls /\ linked' = linked
  BY DEF TakeFailure
<1>2. GateSide'
  BY AnswerFreesGate DEF TakeFailure
<1>3. CASE Over("exhausted", "failures")
  BY <1>1, <1>2, <1>3, GoingOn, OverKeeps
<1>4. CASE /\ failures' = failures + 1 /\ doing' = SearchCall /\ GoesTo("think")
           /\ UNCHANGED <<turns, calls, rejections, observed, pending, unseen>>
  <2>1. ActionsAreNamed'
    BY <1>4, SearchIsCall DEF LoopSide, ActionsAreNamed
  <2>2. failures' \in Nat
    BY <1>1, <1>4, GoingOn
  <2>3. QED
    BY <1>1, <1>2, <1>4, <2>1, <2>2, SearchIsCall, GoingOn, GoingOnKeeps
<1>5. QED
  BY <1>3, <1>4 DEF TakeFailure

(* The deadline passes: nothing else changes.                                               *)
LEMMA DeadlineKeeps == LoopSide /\ DeadlinePasses => LoopSide'
BY DEF DeadlinePasses, counters, LoopSide, LoopTypes, RunningIsOpen, CallPerTurn, ActionsAreNamed,
       UnseenIsPending, ResolvedIsVerified, CallCeilingUnreached

(* The gateway's steps keep the loop as it is, and the patched change in progress or failed. *)
LEMMA GateStepKeeps == LoopSide /\ GateSide /\ GateStep => LoopSide' /\ GateSide'
<1> SUFFICES ASSUME LoopSide, GateSide, GateStep PROVE LoopSide' /\ GateSide'
  OBVIOUS
<1>1. LoopSide'
  <2>1. UNCHANGED loopVars
    BY DEF GateStep, GateRefuses, RunOther, OpenChange, PatchApplied, PatchRaises, SelectChange,
           ReadRaises, ReadEnds, Ends, Handles
  <2>2. QED
    BY <2>1, LoopStill
<1>2. CASE GateRefuses \/ RunOther \/ PatchApplied \/ ReadRaises
  <2>1. /\ gate' \in {"raised", "answered"} /\ serving' = SearchCall /\ picked' = NoChange
        /\ UNCHANGED <<changes, overdue>>
    BY <1>2 DEF GateRefuses, RunOther, PatchApplied, ReadRaises, Ends
  <2>2. QED
    BY <1>1, <2>1, SearchIsCall DEF GateSide, GateTypes, PatchIsOpen
<1>3. CASE OpenChange
  <2>1. PICK c \in ChangeIds : Becomes(c, "in_progress") /\ picked' = c
    BY <1>3 DEF OpenChange
  <2>2. gate' = "patching" /\ serving' = serving
    BY <1>3 DEF OpenChange, Handles
  <2>3. QED
    BY <1>1, <2>1, <2>2 DEF GateSide, GateTypes, PatchIsOpen, Becomes
<1>4. CASE PatchRaises
  <2>1. gate' = "raised" /\ serving' = SearchCall /\ picked' = NoChange
    BY <1>4 DEF PatchRaises, Ends
  <2>2. Becomes(picked, "failed") \/ UNCHANGED <<changes, overdue>>
    BY <1>4 DEF PatchRaises
  <2>3. QED
    BY <1>1, <2>1, <2>2, SearchIsCall DEF GateSide, GateTypes, PatchIsOpen, Becomes
<1>5. CASE SelectChange
  <2>1. gate' = "reading" /\ serving' = serving /\ UNCHANGED <<changes, overdue>>
    BY <1>5 DEF SelectChange, Handles
  <2>2. picked' \in ChangeIds \cup {NoChange}
    BY <1>5 DEF SelectChange
  <2>3. QED
    BY <1>1, <2>1, <2>2 DEF GateSide, GateTypes, PatchIsOpen
<1>6. CASE ReadEnds
  <2>1. gate' = "answered" /\ serving' = SearchCall /\ picked' = NoChange
    BY <1>6 DEF ReadEnds, Ends
  <2>2. Becomes(picked, "completed") \/ UNCHANGED <<changes, overdue>>
    BY <1>6 DEF ReadEnds
  <2>3. QED
    BY <1>1, <2>1, <2>2, SearchIsCall DEF GateSide, GateTypes, PatchIsOpen, Becomes
<1>7. QED
  BY <1>2, <1>3, <1>4, <1>5, <1>6 DEF GateStep

(* A gateway that dies forgets its call; the loop keeps all it knows.                       *)
LEMMA GatewayDiesKeeps == LoopSide /\ GateSide /\ GatewayDies => LoopSide' /\ GateSide'
<1> SUFFICES ASSUME LoopSide, GateSide, GatewayDies PROVE LoopSide' /\ GateSide'
  OBVIOUS
<1>1. LoopSide'
  BY DEF GatewayDies, counters, LoopSide, LoopTypes, RunningIsOpen, CallPerTurn, ActionsAreNamed,
         UnseenIsPending, ResolvedIsVerified, CallCeilingUnreached
<1>2. GateSide'
  BY SearchIsCall DEF GatewayDies, GateSide, GateTypes, PatchIsOpen
<1>3. QED
  BY <1>1, <1>2

(* The deadlines pass and the sweep fails what is overdue: a patch under way finds its      *)
(* change failed, never completed.                                                          *)
LEMMA SweepKeeps ==
  LoopSide /\ GateSide /\ (SweepChanges \/ ChangesFallDue) => LoopSide' /\ GateSide'
<1> SUFFICES ASSUME LoopSide, GateSide, SweepChanges \/ ChangesFallDue PROVE LoopSide' /\ GateSide'
  OBVIOUS
<1>1. UNCHANGED loopVars /\ UNCHANGED <<gate, serving, picked>>
  BY DEF SweepChanges, ChangesFallDue, ChangeFallsDue
<1>2. LoopSide'
  BY <1>1, LoopStill
<1>3. CASE SweepChanges
  <2> DEFINE expired == {c \in overdue : changes[c] = "in_progress"}
  <2>1. /\ changes' = [c \in ChangeIds |-> IF c \in expired THEN "failed" ELSE changes[c]]
        /\ overdue' = overdue \ expired
    BY <1>3 DEF SweepChanges
  <2>2. QED
    BY <1>1, <1>2, <2>1 DEF GateSide, GateTypes, PatchIsOpen
<1>4. CASE ChangesFallDue
  <2>1. PICK c \in ChangeIds : overdue' = overdue \cup {c} /\ changes' = changes
    BY <1>4 DEF ChangesFallDue, ChangeFallsDue
  <2>2. QED
    BY <1>1, <1>2, <2>1 DEF GateSide, GateTypes, PatchIsOpen
<1>5. QED
  BY <1>3, <1>4

(* Every step keeps both parts.                                                             *)
LEMMA NextKeeps == LoopSide /\ GateSide /\ [Next]_vars => LoopSide' /\ GateSide'
<1> SUFFICES ASSUME LoopSide, GateSide, [Next]_vars PROVE LoopSide' /\ GateSide'
  OBVIOUS
<1>1. CASE UNCHANGED vars
  BY <1>1, LoopStill, GateStill DEF vars
<1>2. CASE SearchEnds \/ TurnCeiling \/ ThinkTimesOut \/ CallTimesOut \/ ModelStep
             \/ DeadlinePasses \/ LoseStream
  <2>1. UNCHANGED gateVars
    BY <1>2 DEF SearchEnds, TurnCeiling, ThinkTimesOut, CallTimesOut, ModelStep, BadAnswer, Resolve,
                RejectResolution, Escalate, CallCeiling, AskForCall, Answered, DeadlinePasses, LoseStream
  <2>2. LoopSide'
    BY <1>2, SearchKeeps, ReturnsKeep, ResolveKeeps, CallCeilingKeeps, BadTurnKeeps, AskKeeps,
       DeadlineKeeps DEF ModelStep
  <2>3. QED
    BY <2>1, <2>2, GateStill
<1>3. QED
  BY <1>1, <1>2, SendKeeps, TakeSuccessKeeps, TakeFailureKeeps, GateStepKeeps, GatewayDiesKeeps,
     SweepKeeps DEF Next, LoopStep, AnswerStep

-----------------------------------------------------------------------------
(* The theorems. *)

(* The inductive invariant of one run of Axel's loop and the gateway's change gate.         *)
THEOREM LoopInvariant == Spec => [](TypeOK /\ LoopInv)
<1>1. Init => LoopSide /\ GateSide
  BY InitHolds
<1>2. LoopSide /\ GateSide /\ [Next]_vars => (LoopSide /\ GateSide)'
  BY NextKeeps
<1>3. LoopSide /\ GateSide => TypeOK /\ LoopInv
  BY BothSides
<1>4. QED
  BY <1>1, <1>2, <1>3, PTL DEF Spec

(* A run resolves only after every write it was told had succeeded was looked at by a later *)
(* read of the same resource, and an observation was recorded: loop.py:268 and 446.         *)
THEOREM ResolvedIsVerifiedHolds == Spec => []ResolvedIsVerified
<1>1. TypeOK /\ LoopInv => ResolvedIsVerified
  BY DEF LoopInv
<1>2. QED
  BY <1>1, LoopInvariant, PTL

(* With a call ceiling above the turn ceiling, no run ends for its calls: loop.py:333.      *)
THEOREM CallCeilingUnreachedHolds == Spec => []CallCeilingUnreached
<1>1. TypeOK /\ LoopInv => CallCeilingUnreached
  BY DEF LoopInv
<1>2. QED
  BY <1>1, LoopInvariant, PTL

(* A step that touches a closed change is none: a patch opens an absent one and fails its   *)
(* own, a read completes one in progress, the sweep fails those in progress.                *)
LEMMA StepKeepsClosed ==
  ASSUME TypeOK, PatchIsOpen, [Next]_vars,
         NEW c \in ChangeIds, changes[c] \in {"completed", "failed"}
  PROVE  changes'[c] = changes[c]
<1>1. changes \in [ChangeIds -> {"absent", "in_progress", "completed", "failed"}]
  BY DEF TypeOK, GateTypes
<1>2. CASE changes' = changes
  BY <1>2
<1>3. CASE OpenChange
  <2>1. PICK d \in ChangeIds : changes[d] = "absent" /\ Becomes(d, "in_progress")
    BY <1>3 DEF OpenChange
  <2>2. QED
    BY <1>1, <2>1 DEF Becomes
<1>4. CASE PatchRaises
  BY <1>1, <1>4 DEF PatchRaises, PatchIsOpen, Becomes
<1>5. CASE ReadEnds
  BY <1>1, <1>5 DEF ReadEnds, Completable, Becomes
<1>6. CASE SweepChanges
  BY <1>1, <1>6 DEF SweepChanges
<1>7. CASE ~(OpenChange \/ PatchRaises \/ ReadEnds \/ SweepChanges)
  <2>1. changes' = changes
    BY <1>7 DEF Next, vars, gateVars, LoopStep, ModelStep, AnswerStep, GateStep, SearchEnds,
       TurnCeiling, ThinkTimesOut, SendCall, CallTimesOut, BadAnswer, Resolve, RejectResolution,
       Escalate, CallCeiling, AskForCall, Answered, TakeSuccess, TakeFailure, GateRefuses, RunOther,
       PatchApplied, SelectChange, ReadRaises, DeadlinePasses, LoseStream, GatewayDies,
       ChangesFallDue, ChangeFallsDue
  <2>2. QED
    BY <2>1
<1>8. QED
  BY <1>3, <1>4, <1>5, <1>6, <1>7

(* A closed change stays as it was closed, for any number of patches, reads and sweeps, and *)
(* also when a patch raises after the sweep: tools/index.ts:364.                            *)
THEOREM ClosedChangesStayHolds == Spec => ClosedChangesStay
<1>1. /\ TypeOK /\ LoopInv /\ [Next]_vars
      => [\A c \in ChangeIds : changes[c] \in {"completed", "failed"} => changes'[c] = changes[c]]_vars
  BY StepKeepsClosed DEF LoopInv
<1>2. QED
  BY <1>1, LoopInvariant, PTL DEF Spec, ClosedChangesStay
=============================================================================
