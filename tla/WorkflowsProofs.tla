-------------------------- MODULE WorkflowsProofs --------------------------
(***************************************************************************)
(* Workflows for every set of executions and every number of actions and   *)
(* attempts: types, no webhook sent more often than its attempts allow, no *)
(* delivery concluded by anyone but the holder of its claim.               *)
(***************************************************************************)
EXTENDS Workflows, FiniteSetTheorems, TLAPS

-----------------------------------------------------------------------------
(* Rows, requests and where the loop goes next. *)

(* The row of an action of an execution, and what a row and a request are made of. *)
LEMMA RowFacts ==
  /\ \A e \in Exec, a \in Action : <<e, a>> \in Row
  /\ \A r \in Row : r[1] \in Exec /\ r[2] \in Action /\ r = <<r[1], r[2]>>
  /\ \A q \in Request : /\ q.row \in Row /\ q.claim \in Attempt
                        /\ q.owner \in {"event", "sweep"}
                        /\ q.phase \in {"sending", "taken", "refused"}
BY DEF Row, Request, Owner

(* After an action comes the next one, at its renewal, or the end (workflows/runtime.ts:82). *)
LEMMA NextActionFacts ==
  ASSUME firing \in [Exec -> [phase : Phase, action : Action]], NEW e \in Exec,
         firing' = NextAction(e)
  PROVE  /\ firing' \in [Exec -> [phase : Phase, action : Action]]
         /\ \A f \in Exec \ {e} : firing'[f] = firing[f]
         /\ \/ /\ firing'[e].phase = "renew"
               /\ firing'[e].action = firing[e].action + 1
            \/ /\ firing'[e].phase = "over"
               /\ firing'[e].action = firing[e].action
<1>1. firing[e] \in [phase : Phase, action : Action] /\ "renew" \in Phase /\ "over" \in Phase
  BY DEF Phase
<1>2. Actions \in Nat \ {0}
  BY WorkflowAssumption
<1>3. CASE firing[e].action < Actions
  <2>1. firing' = [firing EXCEPT ![e] = [phase |-> "renew", action |-> firing[e].action + 1]]
    BY <1>3 DEF NextAction
  <2>2. firing[e].action + 1 \in Action
    BY <1>1, <1>2, <1>3 DEF Action
  <2>3. QED
    BY <1>1, <2>1, <2>2
<1>4. CASE ~(firing[e].action < Actions)
  <2>1. firing' = [firing EXCEPT ![e].phase = "over"]
    BY <1>4 DEF NextAction, Goes
  <2>2. QED
    BY <1>1, <2>1
<1>5. QED
  BY <1>3, <1>4

(* The loop moves within an action and leaves the other executions' loops alone. *)
LEMMA GoesFacts ==
  ASSUME firing \in [Exec -> [phase : Phase, action : Action]], NEW e \in Exec,
         NEW phase \in Phase, firing' = Goes(e, phase)
  PROVE  /\ firing' \in [Exec -> [phase : Phase, action : Action]]
         /\ firing'[e].phase = phase
         /\ firing'[e].action = firing[e].action
         /\ \A f \in Exec \ {e} : firing'[f] = firing[f]
BY DEF Goes

(* A claim counts an attempt, names itself after it and adds one request (webhooks.ts:83). *)
LEMMA ClaimedFacts ==
  ASSUME row \in [Row -> RowState], stale \subseteq Row, requests \subseteq Request,
         NEW r \in Row, NEW owner \in Owner, Claimable(r), Claimed(r, owner)
  PROVE  /\ row' \in [Row -> RowState] /\ stale' \subseteq Row /\ requests' \subseteq Request
         /\ row'[r].status = "delivering" /\ row'[r].attempts = row[r].attempts + 1
         /\ \A s \in Row \ {r} : row'[s] = row[s]
         /\ \E q \in Request : /\ q.row = r /\ q.owner = owner /\ q.phase = "sending"
                               /\ requests' = requests \cup {q}
<1> USE WorkflowAssumption
<1>1. row[r] \in RowState /\ row[r].attempts \in Attempt /\ row[r].attempts < MaxAttempts
  BY DEF RowState, Claimable
<1>2. row[r].attempts + 1 \in Attempt /\ "delivering" \in RowStatus
  BY <1>1 DEF Attempt, RowStatus
<1>3. row' \in [Row -> RowState] /\ row'[r].status = "delivering"
      /\ row'[r].attempts = row[r].attempts + 1
      /\ \A s \in Row \ {r} : row'[s] = row[s]
  BY <1>1, <1>2 DEF Claimed, RowState
<1>4. PICK q : q = [row |-> r, claim |-> row[r].attempts + 1, owner |-> owner, phase |-> "sending"]
  OBVIOUS
<1>5. q \in Request /\ q.row = r /\ q.owner = owner /\ q.phase = "sending"
  BY <1>2, <1>4 DEF Request
<1>6. requests' = requests \cup {q} /\ stale' = stale \ {r}
  BY <1>4 DEF Claimed
<1>7. QED
  BY <1>3, <1>5, <1>6

-----------------------------------------------------------------------------
(* The invariant, step by step. *)

(* What is proved of each step beside the types. *)
Rest ==
  /\ IsFiniteSet(requests) /\ QueuedInTurn /\ LoopAwaits /\ StaleIsDelivering
  /\ SentWithinAttempts
Parts == TypeOK /\ Rest

(* Nothing is queued and nothing sent before the first event. *)
LEMMA InitHolds == Init => Parts
<1> SUFFICES ASSUME Init PROVE Parts
  OBVIOUS
<1> USE WorkflowAssumption
<1>1. TypeOK
  <2>1. row \in [Row -> RowState]
    BY DEF Init, RowState, RowStatus, Attempt, NoClaim
  <2>2. firing \in [Exec -> [phase : Phase, action : Action]]
    BY DEF Init, Phase, Action
  <2>3. QED
    BY <2>1, <2>2 DEF Init, TypeOK
<1>2. IsFiniteSet(requests) /\ \A r \in Row : Sending(r) = {}
  BY FS_EmptySet DEF Init, Sending
<1>3. QueuedInTurn
  BY RowFacts DEF Init, QueuedInTurn, Unqueued, In
<1>4. LoopAwaits /\ StaleIsDelivering
  BY DEF Init, LoopAwaits, StaleIsDelivering
<1>5. SentWithinAttempts
  <2> SUFFICES ASSUME NEW r \in Row
               PROVE  /\ sent[r] + Cardinality(Sending(r)) <= row[r].attempts
                      /\ row[r].attempts <= MaxAttempts
    BY DEF SentWithinAttempts
  <2>1. Cardinality(Sending(r)) = 0
    BY <1>2, FS_EmptySet
  <2>2. sent[r] = 0 /\ row[r].attempts = 0
    BY DEF Init
  <2>3. MaxAttempts \in Nat
    BY DEF WorkflowAssumption
  <2>4. QED
    BY <2>1, <2>2, <2>3
<1>6. QED
  BY <1>1, <1>2, <1>3, <1>4, <1>5 DEF Parts, Rest

(* A step that leaves every row as absent or present as it was, and moves no execution to a *)
(* place with more left to queue, keeps the order of the queue. *)
LEMMA TurnKept ==
  ASSUME Parts, firing' \in [Exec -> [phase : Phase, action : Action]],
         \A r \in Row : row[r].status = "absent" => row'[r].status = "absent",
         \A e \in Exec : execution'[e] = "none" => execution[e] = "none" /\ In(e, "none")',
         \A e \in Exec :
           \/ firing'[e] = firing[e]
           \/ firing'[e].phase \notin {"renew", "queue", "deliver", "await"}
           \/ firing'[e].phase \in {"renew", "queue"} /\ Unqueued(e, firing'[e].action)
           \/ firing'[e].phase \in {"deliver", "await"} /\ Unqueued(e, firing'[e].action + 1)
  PROVE  QueuedInTurn'
<1>1. \A e \in Exec, n \in Nat : Unqueued(e, n) => Unqueued(e, n)'
  BY RowFacts DEF Unqueued
<1>2. \A e \in Exec : firing[e].action \in Nat /\ firing'[e].action \in Nat
  BY DEF Parts, TypeOK, Action
<1>3. \A e \in Exec : execution'[e] = "none" => In(e, "none")' /\ Unqueued(e, 1)'
  BY <1>1 DEF Parts, Rest, QueuedInTurn
<1>4. ASSUME NEW e \in Exec, firing'[e].phase \in {"renew", "queue"}
      PROVE  Unqueued(e, firing[e].action)' /\ Unqueued(e, firing'[e].action)
  <2>1. Unqueued(e, firing'[e].action)
    BY <1>4 DEF Parts, Rest, QueuedInTurn
  <2>2. Unqueued(e, firing[e].action)'
    BY <2>1, RowFacts DEF Unqueued
  <2>3. QED
    BY <2>1, <2>2
<1>5. ASSUME NEW e \in Exec, firing'[e].phase \in {"deliver", "await"}
      PROVE  Unqueued(e, firing[e].action + 1)'
  <2>1. Unqueued(e, firing'[e].action + 1)
    BY <1>5 DEF Parts, Rest, QueuedInTurn
  <2>2. QED
    BY <2>1, RowFacts DEF Unqueued
<1>6. QED
  BY <1>3, <1>4, <1>5 DEF QueuedInTurn

(* The count of a row holds on while nothing is sent and no attempt counted for it. *)
LEMMA CountKept ==
  ASSUME Parts, NEW r \in Row, sent' = sent, row' \in [Row -> RowState],
         row'[r].attempts = row[r].attempts, requests' \subseteq requests
  PROVE  sent'[r] + Cardinality(Sending(r)') <= row'[r].attempts /\ row'[r].attempts <= MaxAttempts
<1>1. IsFiniteSet(Sending(r)) /\ Sending(r)' \subseteq Sending(r)
  BY FS_Subset DEF Parts, Rest, Sending
<1>2. /\ Cardinality(Sending(r)') \in Nat /\ Cardinality(Sending(r)) \in Nat
      /\ Cardinality(Sending(r)') <= Cardinality(Sending(r))
  BY <1>1, FS_Subset, FS_CardinalityType
<1>3. sent[r] \in Nat /\ row[r].attempts \in Nat
  BY DEF Parts, TypeOK, RowState, Attempt
<1>4. QED
  BY <1>2, <1>3 DEF Parts, Rest, SentWithinAttempts

(* A claim makes room for the one request it starts. *)
LEMMA ClaimedKeeps ==
  ASSUME Parts, NEW r \in Row, NEW owner \in Owner, Claimable(r), Claimed(r, owner), sent' = sent
  PROVE  /\ IsFiniteSet(requests') /\ StaleIsDelivering' /\ SentWithinAttempts'
         /\ \A s \in Row : row[s].status = "absent" => row'[s].status = "absent"
<1> USE WorkflowAssumption
<1>1. /\ row \in [Row -> RowState] /\ stale \subseteq Row /\ requests \subseteq Request
      /\ IsFiniteSet(requests) /\ sent \in [Row -> Nat]
  BY DEF Parts, Rest, TypeOK
<1>2. /\ row' \in [Row -> RowState]
      /\ row'[r].status = "delivering" /\ row'[r].attempts = row[r].attempts + 1
      /\ \A s \in Row \ {r} : row'[s] = row[s]
  BY <1>1, ClaimedFacts
<1>3. PICK q \in Request : q.row = r /\ q.phase = "sending" /\ requests' = requests \cup {q}
  BY <1>1, ClaimedFacts
<1>4. IsFiniteSet(requests')
  BY <1>1, <1>3, FS_AddElement
<1>5. StaleIsDelivering'
  BY <1>1, <1>2 DEF Claimed, Parts, Rest, StaleIsDelivering
<1>6. \A s \in Row : row[s].status = "absent" => row'[s].status = "absent"
  BY <1>2 DEF Claimable, Parts, Rest, StaleIsDelivering
<1>7. \A s \in Row : IsFiniteSet(Sending(s)) /\ Cardinality(Sending(s)) \in Nat
  BY <1>1, FS_Subset, FS_CardinalityType DEF Sending
<1>8. ASSUME NEW s \in Row
      PROVE  sent'[s] + Cardinality(Sending(s)') <= row'[s].attempts /\ row'[s].attempts <= MaxAttempts
  <2>1. /\ sent[s] \in Nat /\ row[s].attempts \in Nat /\ row'[s].attempts \in Attempt
        /\ sent[s] + Cardinality(Sending(s)) <= row[s].attempts
    BY <1>1, <1>2 DEF RowState, Attempt, Parts, Rest, SentWithinAttempts
  <2>2. CASE s = r
    <3>1. Sending(s)' = Sending(s) \cup {q}
      BY <1>3, <2>2 DEF Sending
    <3>2. Cardinality(Sending(s)') <= Cardinality(Sending(s)) + 1 /\ Cardinality(Sending(s)') \in Nat
      <4>1. /\ IsFiniteSet(Sending(s) \cup {q})
            /\ Cardinality(Sending(s) \cup {q}) = IF q \in Sending(s) THEN Cardinality(Sending(s))
                                                 ELSE Cardinality(Sending(s)) + 1
        BY <1>7, FS_AddElement
      <4>2. QED
        BY <1>7, <3>1, <4>1
    <3>3. QED
      BY <1>2, <1>7, <2>1, <2>2, <3>2 DEF Attempt
  <2>3. CASE s # r
    <3>1. Sending(s)' = Sending(s)
      BY <1>3, <2>3 DEF Sending
    <3>2. QED
      BY <1>2, <2>1, <2>3, <3>1 DEF Attempt
  <2>4. QED
    BY <2>2, <2>3
<1>9. SentWithinAttempts'
  BY <1>8 DEF SentWithinAttempts
<1>10. QED
  BY <1>4, <1>5, <1>6, <1>9

(* A request that ends no other loop's wait, and a loop that stays where it awaits one, keep *)
(* the wait. *)
LEMMA AwaitKept ==
  ASSUME Parts, requests' \subseteq requests,
         \A q \in requests' : q.owner = "event" => firing'[q.row[1]] = firing[q.row[1]]
  PROVE  LoopAwaits'
BY DEF Parts, Rest, LoopAwaits, In

(* The loop's own moves: a lease is renewed, a step fails, an execution begins or ends.      *)
(* No row and no request is touched, and nobody who awaits moves.                            *)
LEMMA LoopMoves ==
  ASSUME Parts, UNCHANGED <<row, requests, sent>>, stale' \subseteq stale,
         \A e \in Exec : firing'[e] = firing[e] \/ ~In(e, "await")
  PROVE  /\ IsFiniteSet(requests') /\ LoopAwaits' /\ StaleIsDelivering' /\ SentWithinAttempts'
<1>1. requests \subseteq Request /\ row' \in [Row -> RowState]
  BY DEF Parts, TypeOK
<1>2. LoopAwaits'
  <2>1. \A q \in requests : q.owner = "event" => q.row[1] \in Exec /\ In(q.row[1], "await")
    BY <1>1, RowFacts DEF Parts, Rest, LoopAwaits
  <2>2. QED
    BY <2>1, AwaitKept
<1>3. SentWithinAttempts'
  BY <1>1, CountKept DEF SentWithinAttempts
<1>4. QED
  BY <1>2, <1>3 DEF Parts, Rest, StaleIsDelivering

(* An event fires, a lease is renewed, a statement fails, an execution ends. *)
LEMMA FiringKeeps ==
  ASSUME Parts, NEW e \in Exec, Fire(e) \/ Renew(e) \/ ActionFails(e) \/ Finish(e)
  PROVE  Rest' /\ TypeOK'
<1>1. /\ firing \in [Exec -> [phase : Phase, action : Action]]
      /\ UNCHANGED <<row, requests, sent, stale, sweep, due>>
      /\ execution \in [Exec -> {"none", "running", "succeeded", "failed"}]
  BY DEF Fire, Renew, ActionFails, Finish, rowVars, Parts, TypeOK
<1>2. {"renew", "queue", "error", "none"} \subseteq Phase /\ 1 \in Action
  BY WorkflowAssumption DEF Phase, Action
<1>3. firing' \in [Exec -> [phase : Phase, action : Action]]
  BY <1>1, <1>2, GoesFacts DEF Fire, Renew, ActionFails, Finish
<1>4. /\ firing'[e].phase \in {"renew", "queue", "error", "none"} /\ ~In(e, "await")
      /\ firing'[e].phase \in {"renew", "queue"} => firing'[e].action = firing[e].action
      /\ \A f \in Exec \ {e} : firing'[f] = firing[f]
  BY <1>1, <1>2, GoesFacts DEF Fire, Renew, ActionFails, Finish, In
<1>5. firing'[e].phase \in {"renew", "queue"} => Unqueued(e, firing[e].action)
  <2>1. CASE Fire(e)
    <3>1. Unqueued(e, 1) /\ firing[e].action \in Action
      BY <1>1, <2>1 DEF Fire, Parts, Rest, QueuedInTurn
    <3>2. QED
      BY <3>1 DEF Unqueued, Action
  <2>2. CASE Renew(e)
    BY <2>2 DEF Renew, In, Parts, Rest, QueuedInTurn
  <2>3. CASE ActionFails(e) \/ Finish(e)
    BY <1>1, <1>2, <2>3, GoesFacts DEF ActionFails, Finish
  <2>4. QED
    BY <2>1, <2>2, <2>3
<1>6. /\ execution' \in [Exec -> {"none", "running", "succeeded", "failed"}]
      /\ lapsed' \subseteq Exec /\ troubles' \in 0..MaxTroubles
      /\ \A f \in Exec : execution'[f] = "none" => execution[f] = "none" /\ In(f, "none")'
  <2>1. CASE Fire(e)
    BY <1>1, <1>4, <2>1 DEF Fire, Parts, Rest, TypeOK, QueuedInTurn, In
  <2>2. CASE Renew(e)
    BY <1>1, <1>4, <2>2 DEF Renew, Parts, Rest, TypeOK, QueuedInTurn, In
  <2>3. CASE ActionFails(e)
    BY <1>1, <1>4, <2>3, WorkflowAssumption DEF ActionFails, rowVars, Parts, Rest, TypeOK, QueuedInTurn, In
  <2>4. CASE Finish(e)
    BY <1>1, <1>4, <2>4 DEF Finish, Outcome, Parts, Rest, TypeOK, QueuedInTurn, In
  <2>5. QED
    BY <2>1, <2>2, <2>3, <2>4
<1>7. QueuedInTurn'
  BY <1>1, <1>3, <1>4, <1>5, <1>6, TurnKept
<1>8. IsFiniteSet(requests') /\ LoopAwaits' /\ StaleIsDelivering' /\ SentWithinAttempts'
  BY <1>1, <1>4, LoopMoves
<1>9. TypeOK'
  BY <1>1, <1>3, <1>6 DEF Parts, TypeOK
<1>10. QED
  BY <1>7, <1>8, <1>9 DEF Rest

(* What is queued had no row, so no claim on it and no request for it is touched. *)
LEMMA QueueKeeps ==
  ASSUME Parts, NEW e \in Exec, Queue(e)
  PROVE  Rest' /\ TypeOK'
<1> DEFINE a == firing[e].action
           r == <<e, a>>
<1>1. /\ firing \in [Exec -> [phase : Phase, action : Action]] /\ In(e, "queue") /\ a \in Action
      /\ UNCHANGED <<execution, lapsed, stale, requests, sweep, due, sent, troubles>>
      /\ row' = [row EXCEPT ![r].status = "pending"] /\ row \in [Row -> RowState]
      /\ firing' = IF e \in Queueing THEN NextAction(e) ELSE Goes(e, "deliver")
  BY DEF Queue, Parts, TypeOK
<1>2. r \in Row /\ row[r].status = "absent" /\ Unqueued(e, a)
  BY <1>1, RowFacts DEF Parts, Rest, QueuedInTurn, Unqueued, In, Action
<1>3. /\ row' \in [Row -> RowState] /\ row'[r].status = "pending"
      /\ row'[r].attempts = row[r].attempts
      /\ \A s \in Row \ {r} : row'[s] = row[s]
  BY <1>1, <1>2 DEF RowState, RowStatus
<1>4. /\ firing' \in [Exec -> [phase : Phase, action : Action]]
      /\ \A f \in Exec \ {e} : firing'[f] = firing[f]
      /\ \/ firing'[e].phase = "renew" /\ firing'[e].action = a + 1
         \/ firing'[e].phase = "over"
         \/ firing'[e].phase = "deliver" /\ firing'[e].action = a
  <2>1. "deliver" \in Phase
    BY DEF Phase
  <2>2. QED
    BY <1>1, <2>1, NextActionFacts, GoesFacts
<1>5. TypeOK'
  BY <1>1, <1>3, <1>4 DEF Parts, TypeOK
<1>6. \A b \in Action : b >= a + 1 => row'[<<e, b>>].status = "absent"
  BY <1>1, <1>2, <1>3, RowFacts DEF Unqueued, Action
<1>7. QueuedInTurn'
  <2>1. ASSUME NEW f \in Exec \ {e}, NEW n \in Nat, Unqueued(f, n)
        PROVE  Unqueued(f, n)'
    BY <1>3, <2>1, RowFacts DEF Unqueued
  <2>2. \A f \in Exec : execution'[f] = "none" => f # e /\ In(f, "none")' /\ Unqueued(f, 1)'
    BY <1>1, <1>4, <2>1 DEF Parts, Rest, QueuedInTurn, In
  <2>3. ASSUME NEW f \in Exec, firing'[f].phase \in {"renew", "queue"}
        PROVE  \A b \in Action : b >= firing'[f].action => row'[<<f, b>>].status = "absent"
    <3>1. CASE f = e
      BY <1>4, <1>6, <2>3, <3>1
    <3>2. CASE f # e
      BY <1>3, <1>4, <2>3, <3>2, RowFacts DEF Parts, Rest, QueuedInTurn, Unqueued
    <3>3. QED
      BY <3>1, <3>2
  <2>4. ASSUME NEW f \in Exec, firing'[f].phase \in {"deliver", "await"}
        PROVE  \A b \in Action : b >= firing'[f].action + 1 => row'[<<f, b>>].status = "absent"
    <3>1. CASE f = e
      BY <1>4, <1>6, <2>4, <3>1
    <3>2. CASE f # e
      BY <1>3, <1>4, <2>4, <3>2, RowFacts DEF Parts, Rest, QueuedInTurn, Unqueued
    <3>3. QED
      BY <3>1, <3>2
  <2>5. QED
    BY <2>2, <2>3, <2>4 DEF QueuedInTurn, Unqueued
<1>8. LoopAwaits'
  <2>1. \A q \in requests : q.owner = "event" => q.row[1] \in Exec \ {e}
    <3>1. requests \subseteq Request
      BY DEF Parts, TypeOK
    <3>2. QED
      BY <1>1, <3>1, RowFacts DEF Parts, Rest, LoopAwaits, In
  <2>2. QED
    BY <1>1, <1>4, <2>1, AwaitKept
<1>9. StaleIsDelivering'
  BY <1>1, <1>2, <1>3 DEF Parts, Rest, TypeOK, StaleIsDelivering
<1>10. SentWithinAttempts'
  BY <1>1, <1>3, CountKept DEF SentWithinAttempts
<1>11. QED
  BY <1>1, <1>5, <1>7, <1>8, <1>9, <1>10 DEF Rest, Parts

(* The loop claims a row of its own and awaits its request, or leaves the row to who has it. *)
LEMMA ClaimOwnKeeps ==
  ASSUME Parts, NEW e \in Exec, ClaimOwn(e)
  PROVE  Rest' /\ TypeOK'
<1> DEFINE a == firing[e].action
           r == <<e, a>>
<1>1. /\ firing \in [Exec -> [phase : Phase, action : Action]] /\ In(e, "deliver") /\ a \in Action
      /\ UNCHANGED <<execution, lapsed, sweep, due, sent, troubles>>
      /\ row \in [Row -> RowState] /\ stale \subseteq Row /\ requests \subseteq Request
      /\ Unqueued(e, a + 1)
  BY DEF ClaimOwn, In, Parts, Rest, TypeOK, QueuedInTurn
<1>2. r \in Row /\ "await" \in Phase /\ "event" \in Owner
  BY <1>1, RowFacts DEF Phase, Owner
<1>3. \A q \in requests : q.owner = "event" => q.row[1] \in Exec \ {e}
  BY <1>1, RowFacts DEF Parts, Rest, LoopAwaits, In
<1>4. CASE Claimable(r)
  <2>1. Claimed(r, "event") /\ firing' = Goes(e, "await")
    BY <1>4 DEF ClaimOwn
  <2>2. /\ firing' \in [Exec -> [phase : Phase, action : Action]]
        /\ firing'[e].phase = "await" /\ firing'[e].action = a
        /\ \A f \in Exec \ {e} : firing'[f] = firing[f]
    BY <1>1, <1>2, <2>1, GoesFacts
  <2>3. row' \in [Row -> RowState] /\ stale' \subseteq Row /\ requests' \subseteq Request
    BY <1>1, <1>2, <1>4, <2>1, ClaimedFacts
  <2>4. PICK q \in Request : q.row = r /\ q.owner = "event" /\ requests' = requests \cup {q}
    BY <1>1, <1>2, <1>4, <2>1, ClaimedFacts
  <2>5. /\ IsFiniteSet(requests') /\ StaleIsDelivering' /\ SentWithinAttempts'
        /\ \A s \in Row : row[s].status = "absent" => row'[s].status = "absent"
    BY <1>1, <1>2, <1>4, <2>1, ClaimedKeeps
  <2>6. QueuedInTurn'
    <3>1. \A f \in Exec : execution'[f] = "none" => f # e /\ execution[f] = "none" /\ In(f, "none")'
      BY <1>1, <2>2 DEF Parts, Rest, QueuedInTurn, In
    <3>2. QED
      BY <1>1, <2>2, <2>5, <3>1, TurnKept
  <2>7. LoopAwaits'
    <3>1. \A p \in requests : p.owner = "event" => In(p.row[1], "await")'
      BY <1>3, <2>2 DEF Parts, Rest, LoopAwaits, In
    <3>2. q.row[1] = e /\ In(e, "await")'
      BY <2>2, <2>4 DEF In
    <3>3. QED
      BY <1>3, <2>4, <3>1, <3>2 DEF Parts, Rest, LoopAwaits
  <2>8. TypeOK'
    BY <1>1, <2>2, <2>3 DEF Parts, TypeOK
  <2>9. QED
    BY <2>5, <2>6, <2>7, <2>8 DEF Rest
<1>5. CASE ~Claimable(r)
  <2>1. firing' = NextAction(e) /\ UNCHANGED <<row, stale, requests>>
    BY <1>5 DEF ClaimOwn
  <2>2. /\ firing' \in [Exec -> [phase : Phase, action : Action]]
        /\ \A f \in Exec \ {e} : firing'[f] = firing[f]
        /\ \/ firing'[e].phase = "renew" /\ firing'[e].action = a + 1
           \/ firing'[e].phase = "over"
    BY <1>1, <2>1, NextActionFacts
  <2>3. QueuedInTurn'
    <3>1. \A f \in Exec : execution'[f] = "none" => f # e /\ execution[f] = "none" /\ In(f, "none")'
      BY <1>1, <2>2 DEF Parts, Rest, QueuedInTurn, In
    <3>2. QED
      BY <1>1, <2>1, <2>2, <3>1, TurnKept
  <2>4. IsFiniteSet(requests') /\ LoopAwaits' /\ StaleIsDelivering' /\ SentWithinAttempts'
    <3>1. \A f \in Exec : firing'[f] = firing[f] \/ ~In(f, "await")
      BY <1>1, <2>2 DEF In
    <3>2. QED
      BY <1>1, <2>1, <3>1, LoopMoves
  <2>5. TypeOK'
    BY <1>1, <2>1, <2>2 DEF Parts, TypeOK
  <2>6. QED
    BY <2>3, <2>4, <2>5 DEF Rest
<1>6. QED
  BY <1>4, <1>5

(* The sweep claims a row it selected, if it is still to be had. *)
LEMMA ClaimDueKeeps ==
  ASSUME Parts, NEW r \in Row, ClaimDue(r)
  PROVE  Rest' /\ TypeOK'
<1>1. /\ UNCHANGED <<execution, lapsed, firing, sweep, sent, troubles>> /\ due' \subseteq Row
      /\ firing \in [Exec -> [phase : Phase, action : Action]]
      /\ row \in [Row -> RowState] /\ stale \subseteq Row /\ requests \subseteq Request
  BY DEF ClaimDue, Parts, TypeOK
<1>2. CASE Claimable(r)
  <2>1. Claimed(r, "sweep") /\ "sweep" \in Owner
    BY <1>2 DEF ClaimDue, Owner
  <2>2. row' \in [Row -> RowState] /\ stale' \subseteq Row /\ requests' \subseteq Request
    BY <1>1, <1>2, <2>1, ClaimedFacts
  <2>3. PICK q \in Request : q.row = r /\ q.owner = "sweep" /\ requests' = requests \cup {q}
    BY <1>1, <1>2, <2>1, ClaimedFacts
  <2>4. /\ IsFiniteSet(requests') /\ StaleIsDelivering' /\ SentWithinAttempts'
        /\ \A s \in Row : row[s].status = "absent" => row'[s].status = "absent"
    BY <1>1, <1>2, <2>1, ClaimedKeeps
  <2>5. QueuedInTurn'
    <3>1. \A f \in Exec : execution'[f] = "none" => execution[f] = "none" /\ In(f, "none")'
      BY <1>1 DEF Parts, Rest, QueuedInTurn, In
    <3>2. QED
      BY <1>1, <2>4, <3>1, TurnKept
  <2>6. LoopAwaits'
    BY <1>1, <2>3 DEF Parts, Rest, LoopAwaits, In
  <2>7. TypeOK'
    BY <1>1, <2>2 DEF Parts, TypeOK
  <2>8. QED
    BY <2>4, <2>5, <2>6, <2>7 DEF Rest
<1>3. CASE ~Claimable(r)
  <2>1. UNCHANGED <<row, stale, requests>>
    BY <1>3 DEF ClaimDue
  <2>2. QueuedInTurn' /\ TypeOK'
    BY <1>1, <2>1 DEF Parts, Rest, TypeOK, QueuedInTurn, Unqueued, In
  <2>3. QED
    BY <1>1, <2>1, <2>2, LoopMoves DEF Rest
<1>4. QED
  BY <1>2, <1>3

(* The request goes out: what was counted as about to be sent is now counted as sent. *)
LEMMA SendKeeps ==
  ASSUME Parts, NEW q \in requests, NEW phase \in {"taken", "refused"}, Send(q, phase)
  PROVE  Rest' /\ TypeOK'
<1>1. /\ UNCHANGED <<rowVars, firing, sweep, due, troubles>> /\ q.phase = "sending"
      /\ requests \subseteq Request /\ q \in Request /\ IsFiniteSet(requests)
      /\ row \in [Row -> RowState] /\ sent \in [Row -> Nat] /\ q.row \in Row
  BY RowFacts DEF Send, Parts, Rest, TypeOK
<1>2. PICK n : n = [q EXCEPT !.phase = phase]
  OBVIOUS
<1>3. n \in Request /\ n.row = q.row /\ n.owner = q.owner /\ n.phase # "sending"
  BY <1>1, <1>2 DEF Request
<1>4. requests' = (requests \ {q}) \cup {n} /\ sent' = [sent EXCEPT ![q.row] = @ + 1]
  BY <1>2 DEF Send
<1>5. IsFiniteSet(requests')
  BY <1>1, <1>4, FS_RemoveElement, FS_AddElement
<1>6. TypeOK'
  BY <1>1, <1>3, <1>4 DEF rowVars, Parts, TypeOK
<1>7. QueuedInTurn' /\ StaleIsDelivering'
  BY <1>1 DEF rowVars, Parts, Rest, QueuedInTurn, Unqueued, StaleIsDelivering, In
<1>8. LoopAwaits'
  BY <1>1, <1>3, <1>4 DEF Parts, Rest, LoopAwaits, In
<1>9. ASSUME NEW r \in Row
      PROVE  sent'[r] + Cardinality(Sending(r)') <= row'[r].attempts /\ row'[r].attempts <= MaxAttempts
  <2>1. /\ IsFiniteSet(Sending(r)) /\ Cardinality(Sending(r)) \in Nat
        /\ sent[r] \in Nat /\ row' = row /\ row[r].attempts \in Nat
        /\ sent[r] + Cardinality(Sending(r)) <= row[r].attempts /\ row[r].attempts <= MaxAttempts
    BY <1>1, FS_Subset, FS_CardinalityType
       DEF Sending, rowVars, RowState, Attempt, Parts, Rest, SentWithinAttempts
  <2>2. CASE r = q.row
    <3>1. Sending(r)' = Sending(r) \ {q} /\ q \in Sending(r)
      BY <1>1, <1>3, <1>4, <2>2 DEF Sending
    <3>2. Cardinality(Sending(r) \ {q}) = Cardinality(Sending(r)) - 1
      BY <2>1, <3>1, FS_RemoveElement
    <3>3. sent'[r] = sent[r] + 1
      BY <1>1, <1>4, <2>2
    <3>4. QED
      BY <2>1, <3>1, <3>2, <3>3
  <2>3. CASE r # q.row
    <3>1. Sending(r)' = Sending(r)
      BY <1>3, <1>4, <2>3 DEF Sending
    <3>2. sent'[r] = sent[r]
      BY <1>1, <1>4, <2>3
    <3>3. QED
      BY <2>1, <3>1, <3>2
  <2>4. QED
    BY <2>2, <2>3
<1>10. QED
  BY <1>5, <1>6, <1>7, <1>8, <1>9 DEF Rest, SentWithinAttempts

(* A result is written by the holder of the claim alone; the loop that waited goes on. *)
LEMMA ConcludeKeeps ==
  ASSUME Parts, NEW q \in requests, Conclude(q)
  PROVE  Rest' /\ TypeOK'
<1>1. /\ UNCHANGED <<execution, lapsed, sweep, due, sent, troubles>>
      /\ requests' = requests \ {q} /\ requests \subseteq Request /\ q \in Request
      /\ row \in [Row -> RowState] /\ stale \subseteq Row /\ IsFiniteSet(requests)
      /\ firing \in [Exec -> [phase : Phase, action : Action]]
      /\ q.row \in Row /\ q.row[1] \in Exec
  BY RowFacts DEF Conclude, Parts, Rest, TypeOK
<1>2. AttemptResult(q) \in {"succeeded", "failed", "retrying"} /\ NoClaim \in Attempt
  BY WorkflowAssumption DEF AttemptResult, NoClaim, Attempt
<1>3. /\ row' \in [Row -> RowState] /\ stale' \subseteq stale
      /\ \A r \in Row : /\ row'[r].attempts = row[r].attempts
                        /\ row[r].status = "absent" => row'[r].status = "absent"
                        /\ row'[r] = row[r] \/ r \notin stale'
  <2>1. CASE Holds(q)
    <3>1. /\ row' = [row EXCEPT ![q.row].status = AttemptResult(q), ![q.row].claim = NoClaim]
          /\ stale' = stale \ {q.row}
      BY <2>1 DEF Conclude
    <3>2. row[q.row] \in RowState /\ row[q.row].status = "delivering" /\ AttemptResult(q) \in RowStatus
      BY <1>1, <1>2, <2>1 DEF Holds, RowStatus
    <3>3. row' \in [Row -> RowState] /\ row'[q.row].attempts = row[q.row].attempts
          /\ \A r \in Row \ {q.row} : row'[r] = row[r]
      BY <1>1, <1>2, <3>1, <3>2 DEF RowState
    <3>4. QED
      BY <1>1, <3>1, <3>2, <3>3
  <2>2. CASE ~Holds(q)
    BY <1>1, <2>2 DEF Conclude
  <2>3. QED
    BY <2>1, <2>2
<1>4. /\ firing' \in [Exec -> [phase : Phase, action : Action]]
      /\ \A f \in Exec : \/ firing'[f] = firing[f]
                         \/ /\ q.owner = "event" /\ f = q.row[1]
                            /\ \/ firing'[f].phase = "renew" /\ firing'[f].action = firing[f].action + 1
                               \/ firing'[f].phase = "over"
  <2>1. CASE q.owner = "event"
    BY <1>1, <2>1, NextActionFacts DEF Conclude
  <2>2. CASE q.owner # "event"
    BY <1>1, <2>2 DEF Conclude
  <2>3. QED
    BY <2>1, <2>2
<1>5. q.owner = "event" => In(q.row[1], "await") /\ Unqueued(q.row[1], firing[q.row[1]].action + 1)
  BY <1>1 DEF Parts, Rest, LoopAwaits, QueuedInTurn, In
<1>6. QueuedInTurn'
  <2>1. \A f \in Exec : execution'[f] = "none" => execution[f] = "none" /\ In(f, "none")'
    BY <1>1, <1>4, <1>5 DEF Parts, Rest, QueuedInTurn, In
  <2>2. QED
    BY <1>3, <1>4, <1>5, <2>1, TurnKept
<1>7. LoopAwaits'
  <2>1. \A p \in requests' : p.owner = "event" => p.row[1] \in Exec /\ firing'[p.row[1]] = firing[p.row[1]]
    BY <1>1, <1>4, RowFacts DEF Parts, Rest, LoopAwaits
  <2>2. QED
    BY <1>1, <2>1, AwaitKept
<1>8. StaleIsDelivering'
  BY <1>1, <1>3 DEF Parts, Rest, StaleIsDelivering
<1>9. SentWithinAttempts'
  BY <1>1, <1>3, CountKept DEF SentWithinAttempts
<1>10. IsFiniteSet(requests')
  BY <1>1, FS_RemoveElement
<1>11. TypeOK'
  BY <1>1, <1>3, <1>4 DEF Parts, TypeOK
<1>12. QED
  BY <1>6, <1>7, <1>8, <1>9, <1>10, <1>11 DEF Rest

(* A death of the process forgets every loop and every request and touches no row. *)
LEMMA RestartKeeps ==
  ASSUME Parts, Restart
  PROVE  Rest' /\ TypeOK'
<1>1. /\ UNCHANGED <<rowVars, sent>> /\ requests' = {} /\ due' = {} /\ sweep' = "rest"
      /\ firing' = [e \in Exec |-> [phase |-> "none", action |-> 1]]
      /\ row \in [Row -> RowState] /\ troubles' \in 0..MaxTroubles
  BY WorkflowAssumption DEF Restart, Parts, TypeOK
<1>2. firing' \in [Exec -> [phase : Phase, action : Action]]
  BY <1>1, WorkflowAssumption DEF Phase, Action
<1>3. \A e \in Exec : firing'[e].phase = "none"
  BY <1>1
<1>4. QueuedInTurn'
  <2>1. \A f \in Exec : execution'[f] = "none" => execution[f] = "none" /\ In(f, "none")'
    BY <1>1, <1>3 DEF rowVars, In
  <2>2. QED
    BY <1>1, <1>2, <1>3, <2>1, TurnKept DEF rowVars
<1>5. IsFiniteSet(requests') /\ LoopAwaits' /\ StaleIsDelivering'
  BY <1>1, FS_EmptySet DEF rowVars, Parts, Rest, LoopAwaits, StaleIsDelivering
<1>6. SentWithinAttempts'
  BY <1>1, CountKept DEF rowVars, SentWithinAttempts
<1>7. TypeOK'
  BY <1>1, <1>2 DEF rowVars, Parts, TypeOK
<1>8. QED
  BY <1>4, <1>5, <1>6, <1>7 DEF Rest

(* A lease that runs out makes a claim stale only while its row is being delivered; the      *)
(* sweeps' own bookkeeping touches neither rows nor requests.                                *)
LEMMA AsideKeeps ==
  ASSUME Parts, UNCHANGED <<row, firing, requests, sent>>,
         \A e \in Exec : execution'[e] = "none" => execution[e] = "none",
         \A r \in stale' : r \in stale \/ row[r].status = "delivering"
  PROVE  Rest'
<1>1. row' \in [Row -> RowState]
  BY DEF Parts, TypeOK
<1>2. QueuedInTurn'
  BY DEF Parts, Rest, QueuedInTurn, Unqueued, In
<1>3. LoopAwaits' /\ StaleIsDelivering' /\ IsFiniteSet(requests')
  BY DEF Parts, Rest, LoopAwaits, StaleIsDelivering, In
<1>4. SentWithinAttempts'
  BY <1>1, CountKept DEF SentWithinAttempts
<1>5. QED
  BY <1>2, <1>3, <1>4 DEF Rest

(* Every step keeps the invariant. *)
LEMMA StepKeeps == Parts /\ [Next]_vars => Parts'
<1> SUFFICES ASSUME Parts, [Next]_vars PROVE Rest' /\ TypeOK'
  BY DEF Parts
<1>1. ASSUME NEW e \in Exec, Fire(e) \/ FiringStep(e) \/ ActionFails(e)
      PROVE  Rest' /\ TypeOK'
  BY <1>1, FiringKeeps, QueueKeeps, ClaimOwnKeeps DEF FiringStep
<1>2. ASSUME NEW e \in Exec, LeaseLapses(e)
      PROVE  Rest' /\ TypeOK'
  <2>1. UNCHANGED <<row, firing, requests, sent, execution, stale>>
    BY <1>2 DEF LeaseLapses, memoryVars
  <2>2. TypeOK'
    BY <1>2, WorkflowAssumption DEF LeaseLapses, Lapse, memoryVars, Parts, TypeOK
  <2>3. QED
    BY <2>1, <2>2, AsideKeeps
<1>3. ASSUME NEW r \in Row, ClaimLapses(r)
      PROVE  Rest' /\ TypeOK'
  <2>1. /\ UNCHANGED <<row, firing, requests, sent, execution>>
        /\ stale' = stale \cup {r} /\ row[r].status = "delivering"
    BY <1>3 DEF ClaimLapses, memoryVars
  <2>2. TypeOK'
    BY <1>3, WorkflowAssumption DEF ClaimLapses, Lapse, memoryVars, Parts, TypeOK
  <2>3. QED
    BY <2>1, <2>2, AsideKeeps
<1>4. CASE RequestStep
  BY <1>4, SendKeeps, ConcludeKeeps DEF RequestStep
<1>5. CASE SweepStep
  <2>1. CASE SelectDue \/ SweepDone
    <3>1. UNCHANGED <<row, firing, requests, sent, execution, stale>>
      BY <2>1 DEF SelectDue, SweepDone, rowVars
    <3>2. TypeOK'
      BY <2>1 DEF SelectDue, SweepDone, Due, rowVars, Parts, TypeOK
    <3>3. QED
      BY <3>1, <3>2, AsideKeeps
  <2>2. QED
    BY <1>5, <2>1, ClaimDueKeeps DEF SweepStep
<1>6. CASE SweepExpired
  <2>1. /\ UNCHANGED <<row, firing, requests, sent, stale>>
        /\ \A e \in Exec : execution'[e] = "none" => execution[e] = "none"
    BY <1>6 DEF SweepExpired, memoryVars
  <2>2. TypeOK'
    BY <1>6 DEF SweepExpired, memoryVars, Parts, TypeOK
  <2>3. QED
    BY <2>1, <2>2, AsideKeeps
<1>7. CASE Restart
  BY <1>7, RestartKeeps
<1>8. CASE UNCHANGED vars
  <2>1. UNCHANGED <<row, firing, requests, sent, execution, stale>>
    BY <1>8 DEF vars, rowVars, memoryVars
  <2>2. TypeOK'
    BY <1>8 DEF vars, rowVars, memoryVars, Parts, TypeOK
  <2>3. QED
    BY <2>1, <2>2, AsideKeeps
<1>9. QED
  BY <1>1, <1>2, <1>3, <1>4, <1>5, <1>6, <1>7, <1>8 DEF Next

-----------------------------------------------------------------------------
(* The theorems. *)

(* The inductive invariant: an action is queued once and in its turn, the loop waits for     *)
(* each request of its own, a stale claim is one under delivery (runtime.ts:59-244).         *)
THEOREM WorkflowsInvariant == Spec => []WorkflowsInv
<1>1. Parts => WorkflowsInv
  BY DEF Parts, Rest, WorkflowsInv
<1>2. QED
  BY <1>1, InitHolds, StepKeeps, PTL DEF Spec

(* A webhook is sent no more often than its attempts allow (webhooks.ts:83-114).          *)
THEOREM SentWithinAttemptsHolds == Spec => []SentWithinAttempts
<1>1. WorkflowsInv => SentWithinAttempts
  BY DEF WorkflowsInv
<1>2. QED
  BY <1>1, WorkflowsInvariant, PTL

(* A row under delivery leaves that state by the result of the request that holds its claim. *)
LEMMA StepConcludes ==
  ASSUME WorkflowsInv, [Next]_vars, NEW r \in Row,
         row[r].status = "delivering", row'[r].status # "delivering"
  PROVE  \E q \in requests : /\ q.row = r /\ q.claim = row[r].claim
                             /\ row'[r].status = AttemptResult(q)
<1>1. /\ row \in [Row -> RowState] /\ row[r] \in RowState /\ requests \subseteq Request
      /\ firing \in [Exec -> [phase : Phase, action : Action]]
  BY DEF WorkflowsInv, TypeOK
<1>2. row' # row
  OBVIOUS
<1>3. ASSUME NEW e \in Exec, Queue(e) PROVE FALSE
  <2>1. LET s == <<e, firing[e].action>> IN row[s].status = "absent" /\ s \in Row
    BY <1>1, <1>3, RowFacts DEF Queue, In, WorkflowsInv, QueuedInTurn, Unqueued, Action
  <2>2. QED
    BY <1>1, <1>3, <2>1 DEF Queue
<1>4. ASSUME NEW s \in Row, NEW owner \in Owner, Claimed(s, owner) PROVE FALSE
  BY <1>1, <1>4 DEF Claimed, RowState
<1>5. ASSUME NEW e \in Exec, ClaimOwn(e) PROVE FALSE
  <2>1. <<e, firing[e].action>> \in Row /\ "event" \in Owner
    BY <1>1, RowFacts DEF Owner
  <2>2. QED
    BY <1>2, <1>4, <1>5, <2>1 DEF ClaimOwn
<1>6. ASSUME NEW s \in Row, ClaimDue(s) PROVE FALSE
  BY <1>2, <1>4, <1>6 DEF ClaimDue, Owner
<1>7. PICK q \in requests : Conclude(q)
  BY <1>2, <1>3, <1>5, <1>6
     DEF Next, vars, rowVars, memoryVars, Fire, FiringStep, Renew, Finish, ActionFails, LeaseLapses,
         RequestStep, Send, SweepStep, SelectDue, SweepDone, SweepExpired, Restart, ClaimLapses
<1>8. Holds(q) /\ q.row \in Row
  BY <1>1, <1>2, <1>7, RowFacts DEF Conclude
<1>9. row' = [row EXCEPT ![q.row].status = AttemptResult(q), ![q.row].claim = NoClaim]
  BY <1>7, <1>8 DEF Conclude
<1>10. q.row = r
  BY <1>1, <1>8, <1>9
<1>11. row'[r].status = AttemptResult(q) /\ q.claim = row[r].claim
  BY <1>1, <1>8, <1>9, <1>10 DEF RowState, Holds
<1>12. QED
  BY <1>10, <1>11

(* A worker whose lease ran out neither ends nor reschedules what another has taken over     *)
(* (webhooks.ts:134-150).                                                                  *)
THEOREM HolderConcludesHolds == Spec => HolderConcludes
<1>1. WorkflowsInv /\ [Next]_vars =>
        [\A r \in Row :
           row[r].status = "delivering" /\ row'[r].status # "delivering" =>
             \E q \in requests : /\ q.row = r /\ q.claim = row[r].claim
                                 /\ row'[r].status = AttemptResult(q)]_vars
  BY StepConcludes
<1>2. QED
  BY <1>1, WorkflowsInvariant, PTL DEF Spec, HolderConcludes
=============================================================================
