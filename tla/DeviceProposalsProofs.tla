------------------------ MODULE DeviceProposalsProofs ------------------------
(***************************************************************************)
(* DeviceProposals for every set of proposals, people and calls: types, at *)
(* most one dispatch of a proposal, by a second person, never after it was *)
(* closed.                                                                 *)
(***************************************************************************)
EXTENDS DeviceProposals, TLAPS

-----------------------------------------------------------------------------
(* Types. *)

(* A call that goes on is still a call (routers/device-proposals.ts:83-151). *)
LEMMA GoesTyped ==
  ASSUME call \in [Call -> CallState], NEW c \in Call, NEW phase \in CallPhase, Goes(c, phase)
  PROVE  /\ call' \in [Call -> CallState]
         /\ call'[c] = [call[c] EXCEPT !.phase = phase]
         /\ call'[c].phase = phase
         /\ call'[c].person = call[c].person
         /\ call'[c].proposal = call[c].proposal
         /\ call'[c].decision = call[c].decision
         /\ \A d \in Call \ {c} : call'[d] = call[d]
BY DEF Goes, CallState

(* Expiring keeps every row a row: only the status of stale ones changes (expireStaleProposals). *)
LEMMA ExpireRows ==
  ASSUME row \in [Proposal -> Row], Expire, NEW p \in Proposal
  PROVE  /\ row' \in [Proposal -> Row]
         /\ row'[p].requester = row[p].requester
         /\ Stale(p) => row'[p].status = "expired" /\ p \in closed'
         /\ ~Stale(p) => row'[p] = row[p] /\ (p \in closed' <=> p \in closed)
<1>1. row' = [q \in Proposal |-> IF Stale(q) THEN [row[q] EXCEPT !.status = "expired"] ELSE row[q]]
  BY DEF Expire
<1>2. "expired" \in Status
  BY DEF Status
<1>3. row' \in [Proposal -> Row]
  BY <1>1, <1>2 DEF Row
<1>4. row[p] \in Row
  OBVIOUS
<1>5. QED
  BY <1>1, <1>3, <1>4 DEF Expire, Row

(* Every step keeps every type. *)
LEMMA TypesKept == TypeOK /\ [Next]_vars => TypeOK'
<1> SUFFICES ASSUME TypeOK, [Next]_vars PROVE TypeOK'
  OBVIOUS
<1> USE ProposalAssumption
<1>1. /\ row \in [Proposal -> Row] /\ call \in [Call -> CallState]
      /\ sent \in [Proposal -> Nat] /\ sender \in [Proposal -> Person \cup {Nobody}]
      /\ overdue \subseteq Proposal /\ proposing \subseteq Proposal /\ closed \subseteq Proposal
      /\ enabled \in BOOLEAN
  BY DEF TypeOK
<1>2. ASSUME NEW p \in Proposal, ReadDevice(p) \/ BecomesOverdue(p) PROVE TypeOK'
  BY <1>1, <1>2 DEF ReadDevice, BecomesOverdue, historyVars, TypeOK
<1>3. ASSUME NEW p \in Proposal, Propose(p) PROVE TypeOK'
  <2>1. "proposed" \in Status
    BY DEF Status
  <2>2. row' \in [Proposal -> Row]
    BY <1>1, <1>3, <2>1 DEF Propose, Row
  <2>3. QED
    BY <1>1, <1>3, <2>2 DEF Propose, historyVars, TypeOK
<1>4. CASE Sweep
  <2>1. row' \in [Proposal -> Row] /\ closed' \subseteq Proposal
    <3>1. Expire
      BY <1>4 DEF Sweep
    <3>2. closed' \subseteq Proposal
      BY <1>1, <3>1 DEF Expire
    <3>3. PICK p \in Proposal : TRUE
      BY <1>4 DEF Sweep
    <3>4. QED
      BY <1>1, <3>1, <3>2, ExpireRows
  <2>2. QED
    BY <1>1, <1>4, <2>1 DEF Sweep, TypeOK
<1>5. CASE Switch
  BY <1>1, <1>5 DEF Switch, historyVars, TypeOK
<1>6. CASE Restart
  <2>1. "over" \in CallPhase
    BY DEF CallPhase
  <2>2. call' \in [Call -> CallState]
    BY <1>1, <1>6, <2>1 DEF Restart, CallState, In
  <2>3. QED
    BY <1>1, <1>6, <2>2 DEF Restart, historyVars, TypeOK
<1>7. ASSUME NEW c \in Call, NEW who \in Person, NEW decision \in Decision, Ask(c, who, decision)
      PROVE  TypeOK'
  <2>1. "deciding" \in CallPhase
    BY DEF CallPhase
  <2>2. call' \in [Call -> CallState]
    <3> DEFINE asked == [call[c] EXCEPT !.phase = "deciding", !.person = who,
                                        !.decision = decision]
    <3>1. call[c] \in CallState /\ call \in [Call -> CallState]
      BY <1>1
    <3>2. asked \in CallState
      BY <2>1, <3>1 DEF CallState
    <3>3. call' = [call EXCEPT ![c] = asked]
      BY <1>7, <3>1 DEF Ask
    <3> HIDE DEF asked
    <3> QED
      BY <3>1, <3>2, <3>3
  <2>3. Expire /\ call[c].proposal \in Proposal
    BY <1>1, <1>7 DEF Ask, CallState
  <2>4. row' \in [Proposal -> Row] /\ closed' \subseteq Proposal
    BY <1>1, <2>3, ExpireRows DEF Expire
  <2>5. QED
    BY <1>1, <1>7, <2>2, <2>4 DEF Ask, TypeOK
<1>8. ASSUME NEW c \in Call, CallStep(c) PROVE TypeOK'
  <2>1. {"reverting", "reading", "consuming", "sending", "over"} \subseteq CallPhase
    BY DEF CallPhase
  <2>2. call[c] \in CallState /\ call[c].proposal \in Proposal /\ call[c].decision \in Decision
        /\ call[c].person \in Person \cup {Nobody}
    BY <1>1 DEF CallState
  <2>3. Decision \subseteq Status /\ {"proposed", "dispatched"} \subseteq Status
    BY DEF Decision, Status
  <2>4. row[call[c].proposal] \in Row
    BY <1>1, <2>2
  <2>5. CASE Decide(c)
    <3>1. call' \in [Call -> CallState]
      BY <1>1, <2>1, <2>5, GoesTyped DEF Decide
    <3>2. row' \in [Proposal -> Row] /\ closed' \subseteq Proposal
      BY <1>1, <2>2, <2>3, <2>4, <2>5 DEF Decide, Decided, Row
    <3>3. QED
      BY <1>1, <2>5, <3>1, <3>2 DEF Decide, TypeOK
  <2>6. CASE Revert(c)
    <3>1. call' \in [Call -> CallState]
      BY <1>1, <2>1, <2>6, GoesTyped DEF Revert
    <3>2. row' \in [Proposal -> Row]
      BY <1>1, <2>2, <2>3, <2>4, <2>6 DEF Revert, Row
    <3>3. QED
      BY <1>1, <2>6, <3>1, <3>2 DEF Revert, historyVars, TypeOK
  <2>7. CASE Read(c)
    <3>1. call' \in [Call -> CallState]
      BY <1>1, <2>1, <2>7, GoesTyped DEF Read
    <3>2. QED
      BY <1>1, <2>7, <3>1 DEF Read, historyVars, TypeOK
  <2>8. CASE Consume(c)
    <3>1. call' \in [Call -> CallState]
      BY <1>1, <2>1, <2>8, GoesTyped DEF Consume
    <3>2. row' \in [Proposal -> Row]
      BY <1>1, <2>2, <2>3, <2>4, <2>8 DEF Consume, Row
    <3>3. QED
      BY <1>1, <2>8, <3>1, <3>2 DEF Consume, historyVars, TypeOK
  <2>9. ASSUME NEW taken \in BOOLEAN, Dispatch(c, taken) PROVE TypeOK'
    <3>1. call' \in [Call -> CallState]
      BY <1>1, <2>1, <2>9, GoesTyped DEF Dispatch
    <3>2. sent' \in [Proposal -> Nat] /\ sender' \in [Proposal -> Person \cup {Nobody}]
      BY <1>1, <2>2, <2>9 DEF Dispatch
    <3>3. QED
      BY <1>1, <2>9, <3>1, <3>2 DEF Dispatch, TypeOK
  <2>10. QED
    BY <1>8, <2>5, <2>6, <2>7, <2>8, <2>9 DEF CallStep
<1>9. CASE UNCHANGED vars
  BY <1>1, <1>9 DEF vars, historyVars, TypeOK
<1>10. QED
  BY <1>2, <1>3, <1>4, <1>5, <1>6, <1>7, <1>8, <1>9 DEF Next

-----------------------------------------------------------------------------
(* The invariant, step by step. *)

(* What is proved of each step beside its types. *)
Rest == OneDecider /\ CallsKnowRows /\ SendersConsumed /\ ClosedIsPast /\ DispatchedOnce /\ SecondPerson
Parts == TypeOK /\ Rest

(* At first no call stands anywhere and nothing is proposed. *)
LEMMA InitHolds == Init => Parts
<1> SUFFICES ASSUME Init PROVE Parts
  OBVIOUS
<1> USE ProposalAssumption
<1>1. \A c \in Call : call[c].phase = "new" /\ call[c].proposal \in Proposal
  BY DEF Init
<1>2. TypeOK
  <2>1. call \in [Call -> CallState]
    BY DEF Init, CallState, CallPhase, Decision
  <2>2. row \in [Proposal -> Row]
    BY DEF Init, NoRow, Row, Status
  <2>3. QED
    BY <2>1, <2>2 DEF Init, TypeOK
<1>3. \A c \in Call : ~Active(c) /\ ~In(c, "deciding")
  BY <1>1 DEF Active, ActivePhase, In
<1>4. OneDecider
  BY <1>3 DEF OneDecider
<1>5. CallsKnowRows
  BY <1>1 DEF Init, CallsKnowRows, ActivePhase, In
<1>6. SendersConsumed /\ DispatchedOnce /\ SecondPerson
  BY <1>1 DEF Init, SendersConsumed, DispatchedOnce, SecondPerson, In
<1>7. ClosedIsPast
  BY DEF Init, ClosedIsPast
<1>8. QED
  BY <1>2, <1>4, <1>5, <1>6, <1>7 DEF Parts, Rest

(* A proposal is inserted while nobody could decide it: it has no row yet. *)
LEMMA ProposeKeeps ==
  ASSUME Parts, NEW p \in Proposal, Propose(p)
  PROVE  Rest'
<1>1. /\ row \in [Proposal -> Row] /\ call' = call /\ row[p].status = "absent"
      /\ proposing' = proposing \ {p} /\ row'[p].status = "proposed"
      /\ \A q \in Proposal \ {p} : row'[q] = row[q]
      /\ UNCHANGED <<overdue, sent, sender, closed>>
  BY DEF Parts, Rest, TypeOK, CallsKnowRows, Propose, historyVars
<1>2. \A c \in Call : call[c].proposal \in Proposal
  BY DEF Parts, TypeOK, CallState
<1>3. \A c \in Call : call[c].proposal = p => ~Active(c) /\ ~In(c, "deciding")
  BY <1>1 DEF Parts, Rest, OneDecider, CallsKnowRows, Of
<1>4. p \notin closed \/ p \in overdue
  BY <1>1 DEF Parts, Rest, ClosedIsPast
<1>5. sent[p] \in Nat /\ ~(sent[p] > 0)
  BY <1>1 DEF Parts, Rest, SendersConsumed, TypeOK
<1>6. \A c \in Call : /\ Active(c)' <=> Active(c)
                      /\ call[c].proposal # p => Of(c)' = Of(c)
  BY <1>1, <1>2 DEF Active, Of
<1>7. OneDecider'
  BY <1>1, <1>3, <1>6 DEF Parts, Rest, OneDecider
<1>8. CallsKnowRows'
  BY <1>1, <1>2, <1>3, <1>6 DEF Parts, Rest, CallsKnowRows, TypeOK, In, Active, ActivePhase, OwnRequest
<1>9. SendersConsumed' /\ DispatchedOnce' /\ SecondPerson'
  BY <1>1, <1>3, <1>5, <1>6
     DEF Parts, Rest, SendersConsumed, DispatchedOnce, SecondPerson, TypeOK, In, Active, ActivePhase
<1>10. ClosedIsPast'
  BY <1>1, <1>3, <1>4, <1>6 DEF Parts, Rest, ClosedIsPast, TypeOK, In, Active, ActivePhase
<1>11. QED
  BY <1>7, <1>8, <1>9, <1>10 DEF Rest

(* Expiring closes what is open and overdue: nobody is sending that, and a second decider *)
(* who holds an approval of it can no longer consume it. *)
LEMMA ExpireKeeps ==
  ASSUME Parts, Expire, overdue' = overdue, proposing' = proposing, sent' = sent, sender' = sender,
         call' \in [Call -> CallState],
         \A c \in Call : /\ call'[c].proposal = call[c].proposal
                         /\ \/ call'[c] = call[c]
                            \/ /\ Of(c).status # "absent" /\ call'[c].phase = "deciding"
                               /\ call'[c].person \in Person
  PROVE  Rest'
<1>1. /\ row \in [Proposal -> Row] /\ row' \in [Proposal -> Row]
      /\ sent \in [Proposal -> Nat] /\ proposing \subseteq Proposal /\ closed \subseteq Proposal
      /\ closed' \subseteq Proposal
      /\ \A c \in Call : call[c].proposal \in Proposal
  <2>1. CASE Proposal = {}
    BY <2>1 DEF Parts, TypeOK, CallState, Expire
  <2>2. CASE Proposal # {}
    BY <2>2, ExpireRows DEF Parts, TypeOK, CallState, Expire
  <2>3. QED
    BY <2>1, <2>2
<1>2. \A p \in Proposal :
        /\ row'[p].requester = row[p].requester
        /\ Stale(p) => row'[p].status = "expired" /\ p \in closed'
        /\ ~Stale(p) => row'[p] = row[p] /\ (p \in closed' <=> p \in closed)
  BY <1>1, ExpireRows
<1>3. \A c \in Call : Active(c)' => Active(c) /\ call'[c] = call[c]
  BY DEF Active, ActivePhase
<1>4. \A c \in Call : In(c, "sending") => ~Stale(call[c].proposal)
  BY DEF Parts, Rest, SendersConsumed, Stale, Open, Of
<1>5. \A c \in Call : Of(c)' = row'[call[c].proposal]
  BY DEF Of
<1>6. OneDecider'
  BY <1>1, <1>2, <1>3, <1>5 DEF Parts, Rest, OneDecider, Of
<1>7. CallsKnowRows'
  <2>1. \A c \in Call : In(c, "deciding")' => Of(c)'.status # "absent"
    BY <1>1, <1>2, <1>5 DEF Parts, Rest, CallsKnowRows, Of, In
  <2>2. \A c \in Call : call'[c].phase \in {"deciding"} \cup ActivePhase => call'[c].person \in Person
    BY DEF Parts, Rest, CallsKnowRows
  <2>3. \A c \in Call : call'[c].phase \in {"reading", "consuming", "sending"} => ~OwnRequest(c)'
    BY <1>1, <1>2, <1>5 DEF Parts, Rest, CallsKnowRows, OwnRequest, Of
  <2>4. \A p \in proposing' : row'[p].status = "absent"
    BY <1>1, <1>2 DEF Parts, Rest, CallsKnowRows, Stale, Open
  <2>5. QED
    BY <2>1, <2>2, <2>3, <2>4 DEF CallsKnowRows
<1>8. SendersConsumed'
  <2>1. \A c \in Call : In(c, "sending")' => Of(c)'.status = "dispatched" /\ sent'[call'[c].proposal] = 0
    BY <1>1, <1>2, <1>4, <1>5 DEF Parts, Rest, SendersConsumed, Of, In
  <2>2. \A p \in Proposal : sent'[p] > 0 => row'[p].status = "dispatched"
    BY <1>1, <1>2 DEF Parts, Rest, SendersConsumed, Stale, Open
  <2>3. \A p \in Proposal : sent'[p] > 0 => ~\E c \in Call : Active(c)' /\ call'[c].proposal = p
    BY <1>3 DEF Parts, Rest, SendersConsumed
  <2>4. QED
    BY <2>1, <2>2, <2>3 DEF SendersConsumed
<1>9. DispatchedOnce' /\ SecondPerson'
  BY <1>2 DEF Parts, Rest, DispatchedOnce, SecondPerson
<1>10. ClosedIsPast'
  <2>1. \A p \in closed' : p \in overdue' \/ row'[p].status = "rejected"
    BY <1>1, <1>2 DEF Parts, Rest, ClosedIsPast, Stale
  <2>2. SUFFICES ASSUME NEW c \in Call, call'[c].proposal \in closed', Active(c)'
                 PROVE  /\ ~In(c, "sending")'
                        /\ In(c, "consuming")' => Of(c)'.status # "approved"
                        /\ In(c, "reverting")' => call'[c].proposal \in overdue'
    BY <2>1 DEF ClosedIsPast, In, Active, ActivePhase
  <2>3. call'[c] = call[c] /\ call[c].proposal \in Proposal
    BY <1>1, <1>3, <2>2
  <2>4. CASE Stale(call[c].proposal)
    BY <1>2, <1>4, <1>5, <2>3, <2>4 DEF In, Stale
  <2>5. CASE ~Stale(call[c].proposal)
    BY <1>2, <1>5, <2>2, <2>3, <2>5 DEF Parts, Rest, ClosedIsPast, In, Of
  <2>6. QED
    BY <2>4, <2>5
<1>11. QED
  BY <1>6, <1>7, <1>8, <1>9, <1>10 DEF Rest

(* What a call and its proposal are, and what every other call keeps when this one goes on. *)
LEMMA CallFacts ==
  ASSUME Parts, NEW c \in Call, NEW phase \in CallPhase, Goes(c, phase)
  PROVE  /\ \A d \in Call : call[d].proposal \in Proposal /\ call'[d].proposal = call[d].proposal
         /\ \A d \in Call : call'[d].person = call[d].person
         /\ \A d \in Call \ {c} : call'[d] = call[d]
         /\ call'[c].phase = phase
<1>1. call \in [Call -> CallState]
  BY DEF Parts, TypeOK
<1>2. \A d \in Call : call[d].proposal \in Proposal
  BY <1>1 DEF CallState
<1>3. QED
  BY <1>1, <1>2, GoesTyped

(* A call that ends without touching a row leaves nothing behind. *)
LEMMA EndKeeps ==
  ASSUME Parts, NEW c \in Call, Goes(c, "over"),
         UNCHANGED <<row, overdue, proposing, sent, sender, closed>>
  PROVE  Rest'
<1>1. "over" \in CallPhase
  BY DEF CallPhase
<1>2. \A d \in Call : /\ Active(d)' => Active(d) /\ d # c
                      /\ In(d, "deciding")' => In(d, "deciding") /\ d # c
                      /\ d # c => call'[d] = call[d]
                      /\ call'[d].proposal = call[d].proposal
                      /\ Of(d)' = Of(d)
                      /\ call'[d].phase # "over" => d # c
  BY <1>1, CallFacts DEF Active, ActivePhase, In, Of
<1>3. OneDecider'
  BY <1>2 DEF Parts, Rest, OneDecider
<1>4. CallsKnowRows'
  BY <1>2 DEF Parts, Rest, CallsKnowRows, In, OwnRequest, ActivePhase
<1>5. SendersConsumed' /\ DispatchedOnce' /\ SecondPerson'
  BY <1>2 DEF Parts, Rest, SendersConsumed, DispatchedOnce, SecondPerson, In
<1>6. ClosedIsPast'
  BY <1>2 DEF Parts, Rest, ClosedIsPast, In
<1>7. QED
  BY <1>3, <1>4, <1>5, <1>6 DEF Rest

(* A decision is written over an undecided proposal, so no other call is at it. *)
LEMMA DecideKeeps ==
  ASSUME Parts, NEW c \in Call, Decide(c), Undecided(call[c].proposal)
  PROVE  Rest'
<1> DEFINE p == call[c].proposal
           own == OwnRequest(c)
           next == IF own THEN "reverting" ELSE "reading"
<1>1. /\ In(c, "deciding") /\ Goes(c, next) /\ next \in CallPhase
      /\ UNCHANGED <<overdue, proposing, sent, sender>>
      /\ row' = [row EXCEPT ![p].status = Decided(c), ![p].approver = call[c].person]
      /\ closed' = IF call[c].decision = "rejected" /\ ~own THEN closed \cup {p} ELSE closed
  BY DEF Decide, CallPhase
<1>2. /\ \A d \in Call : call[d].proposal \in Proposal /\ call'[d].proposal = call[d].proposal
                         /\ call'[d].person = call[d].person
      /\ \A d \in Call \ {c} : call'[d] = call[d]
      /\ call'[c].phase = next
  BY <1>1, CallFacts
<1> HIDE DEF next
<1>3. /\ row[p].status = "proposed" /\ row[p] \in Row /\ call[c].person \in Person
      /\ Decided(c) \in {"approved", "rejected"} /\ Decided(c) = call[c].decision
  <2>1. row[p].status = "proposed" /\ row[p] \in Row
    BY <1>2 DEF Undecided, Parts, TypeOK
  <2>2. call[c].person \in Person
    BY <1>1 DEF Parts, Rest, CallsKnowRows, In
  <2>3. call[c].decision \in Decision
    BY DEF Parts, TypeOK, CallState
  <2>4. QED
    BY <2>1, <2>2, <2>3 DEF Decision, Decided
<1>4. /\ row'[p].status = Decided(c) /\ row'[p].requester = row[p].requester
      /\ \A q \in Proposal \ {p} : row'[q] = row[q]
      /\ \A q \in Proposal : row'[q].requester = row[q].requester
  BY <1>1, <1>2, <1>3 DEF Parts, TypeOK, Row
<1>5. \A d \in Call : Active(d) => call[d].proposal # p
  BY <1>3 DEF Parts, Rest, OneDecider, Of
<1>6. (next = "reverting" /\ own) \/ (next = "reading" /\ ~own)
  BY DEF next
<1>7. /\ Active(c)' /\ ~Active(c)
      /\ \A d \in Call \ {c} : Active(d)' <=> Active(d)
  BY <1>1, <1>2, <1>6 DEF Active, ActivePhase, In
<1>8. /\ Of(c)' = row'[p]
      /\ \A d \in Call : call[d].proposal # p => Of(d)' = Of(d)
  BY <1>2, <1>4 DEF Of
<1>9. sent[p] \in Nat /\ ~(sent[p] > 0)
  BY <1>2, <1>3 DEF Parts, Rest, SendersConsumed, TypeOK
<1>10. p \in closed => p \in overdue
  BY <1>3 DEF Parts, Rest, ClosedIsPast
<1> HIDE DEF own
<1>11. OneDecider'
  BY <1>2, <1>3, <1>4, <1>5, <1>7, <1>8 DEF Parts, Rest, OneDecider
<1>12. CallsKnowRows'
  <2>1. \A d \in Call : In(d, "deciding")' => Of(d)'.status # "absent"
    BY <1>2, <1>3, <1>4, <1>6, <1>8 DEF Parts, Rest, CallsKnowRows, In, Of
  <2>2. \A d \in Call : call'[d].phase \in {"deciding"} \cup ActivePhase => call'[d].person \in Person
    BY <1>2, <1>3 DEF Parts, Rest, CallsKnowRows
  <2>3. \A d \in Call : call'[d].phase \in {"reading", "consuming", "sending"} => ~OwnRequest(d)'
    <3>1. \A d \in Call : OwnRequest(d)' <=> OwnRequest(d)
      BY <1>2, <1>4 DEF OwnRequest, Of
    <3>2. QED
      BY <1>2, <1>6, <3>1 DEF Parts, Rest, CallsKnowRows, own
  <2>4. \A q \in proposing' : row'[q].status = "absent"
    BY <1>1, <1>3, <1>4 DEF Parts, Rest, CallsKnowRows, TypeOK
  <2>5. QED
    BY <2>1, <2>2, <2>3, <2>4 DEF CallsKnowRows
<1>13. SendersConsumed'
  <2>1. \A d \in Call : In(d, "sending")' => d # c /\ In(d, "sending") /\ Active(d)
    BY <1>2, <1>6 DEF In, Active, ActivePhase
  <2>2. \A d \in Call : In(d, "sending")' => Of(d)'.status = "dispatched" /\ sent'[call'[d].proposal] = 0
    BY <1>1, <1>2, <1>5, <1>8, <2>1 DEF Parts, Rest, SendersConsumed
  <2>3. \A q \in Proposal : sent'[q] > 0 => row'[q].status = "dispatched"
    BY <1>1, <1>4, <1>9 DEF Parts, Rest, SendersConsumed
  <2>4. \A q \in Proposal : sent'[q] > 0 => ~\E d \in Call : Active(d)' /\ call'[d].proposal = q
    BY <1>1, <1>2, <1>7, <1>9 DEF Parts, Rest, SendersConsumed
  <2>5. QED
    BY <2>2, <2>3, <2>4 DEF SendersConsumed
<1>14. DispatchedOnce' /\ SecondPerson'
  BY <1>1, <1>4 DEF Parts, Rest, DispatchedOnce, SecondPerson
<1>15. ClosedIsPast'
  <2>1. \A q \in closed' : q \in overdue' \/ row'[q].status = "rejected"
    BY <1>1, <1>3, <1>4, <1>10 DEF Parts, Rest, ClosedIsPast, TypeOK
  <2>2. ASSUME NEW d \in Call, call'[d].proposal \in closed'
        PROVE  /\ ~In(d, "sending")'
               /\ In(d, "consuming")' => Of(d)'.status # "approved"
               /\ In(d, "reverting")' => call'[d].proposal \in overdue'
    <3>1. CASE d = c
      BY <1>1, <1>2, <1>3, <1>6, <1>10, <2>2, <3>1 DEF In
    <3>2. CASE d # c /\ Active(d)
      BY <1>1, <1>2, <1>5, <1>8, <2>2, <3>2 DEF Parts, Rest, ClosedIsPast, In
    <3>3. CASE d # c /\ ~Active(d)
      BY <1>2, <3>3 DEF Active, ActivePhase, In
    <3>4. QED
      BY <3>1, <3>2, <3>3
  <2>3. QED
    BY <2>1, <2>2 DEF ClosedIsPast
<1>16. QED
  BY <1>11, <1>12, <1>13, <1>14, <1>15 DEF Rest

(* The decision taken back reopens the row; the call is the only one at it, and what was *)
(* closed meanwhile is overdue. *)
LEMMA RevertKeeps ==
  ASSUME Parts, NEW c \in Call, Revert(c)
  PROVE  Rest'
<1> DEFINE p == call[c].proposal
<1>1. /\ In(c, "reverting") /\ Goes(c, "over") /\ "over" \in CallPhase
      /\ UNCHANGED <<overdue, proposing, sent, sender, closed>>
      /\ row' = [row EXCEPT ![p].status = "proposed", ![p].approver = Nobody]
  BY DEF Revert, CallPhase, historyVars
<1>2. /\ \A d \in Call : call[d].proposal \in Proposal /\ call'[d].proposal = call[d].proposal
                         /\ call'[d].person = call[d].person
      /\ \A d \in Call \ {c} : call'[d] = call[d]
      /\ call'[c].phase = "over"
  BY <1>1, CallFacts
<1>3. row[p] \in Row /\ Active(c)
  BY <1>1, <1>2 DEF Parts, TypeOK, In, Active, ActivePhase
<1>4. /\ row'[p].status = "proposed"
      /\ \A q \in Proposal \ {p} : row'[q] = row[q]
      /\ \A q \in Proposal : row'[q].requester = row[q].requester
  BY <1>1, <1>2, <1>3 DEF Parts, TypeOK, Row
<1>5. \A d \in Call : Active(d) /\ d # c => call[d].proposal # p
  BY <1>3 DEF Parts, Rest, OneDecider
<1>6. /\ \A d \in Call : Active(d)' => d # c /\ Active(d)
      /\ \A d \in Call : call[d].proposal # p => Of(d)' = Of(d)
      /\ \A d \in Call : call[d].proposal = p => Of(d)' = row'[p]
  BY <1>1, <1>2, <1>4 DEF Active, ActivePhase, Of
<1>7. sent[p] \in Nat /\ ~(sent[p] > 0)
  BY <1>2, <1>3 DEF Parts, Rest, SendersConsumed, TypeOK
<1>8. p \in closed => p \in overdue
  BY <1>1 DEF Parts, Rest, ClosedIsPast
<1>9. row[p].status # "absent"
  BY <1>3 DEF Parts, Rest, OneDecider, Of
<1>10. OneDecider'
  BY <1>2, <1>5, <1>6 DEF Parts, Rest, OneDecider
<1>11. CallsKnowRows'
  <2>1. \A d \in Call : In(d, "deciding")' => Of(d)'.status # "absent"
    BY <1>2, <1>4, <1>6 DEF Parts, Rest, CallsKnowRows, In
  <2>2. \A d \in Call : call'[d].phase \in {"deciding"} \cup ActivePhase => call'[d].person \in Person
    BY <1>2 DEF Parts, Rest, CallsKnowRows, ActivePhase
  <2>3. \A d \in Call : call'[d].phase \in {"reading", "consuming", "sending"} => ~OwnRequest(d)'
    <3>1. \A d \in Call : OwnRequest(d)' <=> OwnRequest(d)
      BY <1>2, <1>4 DEF OwnRequest, Of
    <3>2. QED
      BY <1>2, <3>1 DEF Parts, Rest, CallsKnowRows
  <2>4. \A q \in proposing' : row'[q].status = "absent"
    BY <1>1, <1>4, <1>9 DEF Parts, Rest, CallsKnowRows, TypeOK
  <2>5. QED
    BY <2>1, <2>2, <2>3, <2>4 DEF CallsKnowRows
<1>12. SendersConsumed'
  <2>1. \A d \in Call : In(d, "sending")' => d # c /\ In(d, "sending") /\ Active(d)
    BY <1>2 DEF In, Active, ActivePhase
  <2>2. \A d \in Call : In(d, "sending")' => Of(d)'.status = "dispatched" /\ sent'[call'[d].proposal] = 0
    BY <1>1, <1>2, <1>5, <1>6, <2>1 DEF Parts, Rest, SendersConsumed
  <2>3. \A q \in Proposal : sent'[q] > 0 => row'[q].status = "dispatched"
    BY <1>1, <1>4, <1>7 DEF Parts, Rest, SendersConsumed
  <2>4. \A q \in Proposal : sent'[q] > 0 => ~\E d \in Call : Active(d)' /\ call'[d].proposal = q
    BY <1>1, <1>2, <1>6 DEF Parts, Rest, SendersConsumed
  <2>5. QED
    BY <2>2, <2>3, <2>4 DEF SendersConsumed
<1>13. DispatchedOnce' /\ SecondPerson'
  BY <1>1, <1>4 DEF Parts, Rest, DispatchedOnce, SecondPerson
<1>14. ClosedIsPast'
  <2>1. \A q \in closed' : q \in overdue' \/ row'[q].status = "rejected"
    BY <1>1, <1>4, <1>8 DEF Parts, Rest, ClosedIsPast, TypeOK
  <2>2. ASSUME NEW d \in Call, call'[d].proposal \in closed'
        PROVE  /\ ~In(d, "sending")'
               /\ In(d, "consuming")' => Of(d)'.status # "approved"
               /\ In(d, "reverting")' => call'[d].proposal \in overdue'
    <3>1. CASE Active(d)'
      BY <1>1, <1>2, <1>4, <1>5, <1>6, <2>2, <3>1 DEF Parts, Rest, ClosedIsPast, In
    <3>2. CASE ~Active(d)'
      BY <3>2 DEF Active, ActivePhase, In
    <3>3. QED
      BY <3>1, <3>2
  <2>3. QED
    BY <2>1, <2>2 DEF ClosedIsPast
<1>15. QED
  BY <1>10, <1>11, <1>12, <1>13, <1>14 DEF Rest

(* The device is read: an approval in time goes on to be consumed, and what was closed is *)
(* not in time or not approved. *)
LEMMA ReadKeeps ==
  ASSUME Parts, NEW c \in Call, Read(c)
  PROVE  Rest'
<1> DEFINE p == call[c].proposal
<1>1. /\ In(c, "reading")
      /\ UNCHANGED <<row, overdue, proposing, sent, sender, closed>>
      /\ Goes(c, "over") \/ (Goes(c, "consuming") /\ p \notin overdue)
  BY DEF Read, historyVars, InTime
<1>2. CASE Goes(c, "over")
  BY <1>1, <1>2, EndKeeps
<1>3. CASE Goes(c, "consuming") /\ p \notin overdue
  <2>1. "consuming" \in CallPhase
    BY DEF CallPhase
  <2>2. /\ \A d \in Call : call[d].proposal \in Proposal /\ call'[d].proposal = call[d].proposal
                           /\ call'[d].person = call[d].person
        /\ \A d \in Call \ {c} : call'[d] = call[d]
        /\ call'[c].phase = "consuming"
    BY <1>3, <2>1, CallFacts
  <2>3. \A d \in Call : /\ Active(d)' <=> Active(d)
                        /\ Of(d)' = Of(d) /\ (OwnRequest(d)' <=> OwnRequest(d))
                        /\ In(d, "deciding")' => In(d, "deciding")
                        /\ In(d, "sending")' => In(d, "sending")
                        /\ In(d, "reverting")' => In(d, "reverting")
                        /\ call'[d].phase \in {"reading", "consuming", "sending"} =>
                             call[d].phase \in {"reading", "consuming", "sending"}
    BY <1>1, <2>2 DEF Active, ActivePhase, Of, In, OwnRequest
  <2>4. OneDecider'
    BY <2>2, <2>3 DEF Parts, Rest, OneDecider
  <2>5. CallsKnowRows'
    <3>1. \A d \in Call : call'[d].phase \in {"deciding"} \cup ActivePhase => call'[d].person \in Person
      BY <1>1, <2>2 DEF Parts, Rest, CallsKnowRows, ActivePhase, In
    <3>2. QED
      BY <1>1, <2>3, <3>1 DEF Parts, Rest, CallsKnowRows
  <2>6. SendersConsumed' /\ DispatchedOnce' /\ SecondPerson'
    BY <1>1, <2>2, <2>3 DEF Parts, Rest, SendersConsumed, DispatchedOnce, SecondPerson
  <2>7. ClosedIsPast'
    <3>1. p \in closed => row[p].status = "rejected"
      BY <1>3 DEF Parts, Rest, ClosedIsPast
    <3>2. \A d \in Call : call'[d].proposal \in closed' => (In(d, "consuming")' => Of(d)'.status # "approved")
      BY <1>1, <2>2, <2>3, <3>1 DEF Parts, Rest, ClosedIsPast, In, Of
    <3>3. QED
      BY <1>1, <2>2, <2>3, <3>2 DEF Parts, Rest, ClosedIsPast
  <2>8. QED
    BY <2>4, <2>5, <2>6, <2>7 DEF Rest
<1>4. QED
  BY <1>1, <1>2, <1>3

(* The approval is consumed: the row is dispatched and the call, the only one at it, sends. *)
LEMMA ConsumeKeeps ==
  ASSUME Parts, NEW c \in Call, Consume(c)
  PROVE  Rest'
<1> DEFINE p == call[c].proposal
<1>1. /\ In(c, "consuming") /\ UNCHANGED <<overdue, proposing, sent, sender, closed>>
  BY DEF Consume, historyVars
<1>2. CASE ~StillApproved(p)
  <2>1. UNCHANGED row /\ Goes(c, "over")
    BY <1>2 DEF Consume
  <2>2. QED
    BY <1>1, <2>1, EndKeeps
<1>3. CASE StillApproved(p)
  <2>1. /\ row' = [row EXCEPT ![p].status = "dispatched"] /\ Goes(c, "sending")
        /\ row[p].status = "approved" /\ "sending" \in CallPhase
    BY <1>3 DEF Consume, StillApproved, CallPhase
  <2>2. /\ \A d \in Call : call[d].proposal \in Proposal /\ call'[d].proposal = call[d].proposal
                           /\ call'[d].person = call[d].person
        /\ \A d \in Call \ {c} : call'[d] = call[d]
        /\ call'[c].phase = "sending"
    BY <2>1, CallFacts
  <2>3. row[p] \in Row /\ Active(c)
    BY <1>1, <2>2 DEF Parts, TypeOK, In, Active, ActivePhase
  <2>4. /\ row'[p].status = "dispatched"
        /\ \A q \in Proposal \ {p} : row'[q] = row[q]
        /\ \A q \in Proposal : row'[q].requester = row[q].requester
    BY <2>1, <2>2, <2>3 DEF Parts, TypeOK, Row
  <2>5. \A d \in Call : Active(d) /\ d # c => call[d].proposal # p
    BY <2>3 DEF Parts, Rest, OneDecider
  <2>6. /\ \A d \in Call : Active(d)' <=> Active(d)
        /\ \A d \in Call : call[d].proposal # p => Of(d)' = Of(d)
        /\ \A d \in Call : call[d].proposal = p => Of(d)' = row'[p]
    BY <1>1, <2>2, <2>4 DEF Active, ActivePhase, Of, In
  <2>7. sent[p] = 0
    BY <2>1, <2>2 DEF Parts, Rest, SendersConsumed, TypeOK
  <2>8. p \notin closed
    BY <1>1, <2>1 DEF Parts, Rest, ClosedIsPast, Of
  <2>9. OneDecider'
    BY <2>2, <2>4, <2>6 DEF Parts, Rest, OneDecider
  <2>10. CallsKnowRows'
    <3>1. \A d \in Call : In(d, "deciding")' => Of(d)'.status # "absent"
      BY <2>2, <2>4, <2>6 DEF Parts, Rest, CallsKnowRows, In
    <3>2. \A d \in Call : call'[d].phase \in {"deciding"} \cup ActivePhase => call'[d].person \in Person
      BY <1>1, <2>2 DEF Parts, Rest, CallsKnowRows, ActivePhase, In
    <3>3. \A d \in Call : call'[d].phase \in {"reading", "consuming", "sending"} => ~OwnRequest(d)'
      <4>1. \A d \in Call : OwnRequest(d)' <=> OwnRequest(d)
        BY <2>2, <2>4 DEF OwnRequest, Of
      <4>2. QED
        BY <1>1, <2>2, <4>1 DEF Parts, Rest, CallsKnowRows, In
    <3>4. \A q \in proposing' : row'[q].status = "absent"
      BY <1>1, <2>1, <2>4 DEF Parts, Rest, CallsKnowRows, TypeOK
    <3>5. QED
      BY <3>1, <3>2, <3>3, <3>4 DEF CallsKnowRows
  <2>11. SendersConsumed'
    <3>1. \A d \in Call : In(d, "sending")' => Of(d)'.status = "dispatched" /\ sent'[call'[d].proposal] = 0
      <4>1. ASSUME NEW d \in Call \ {c}, In(d, "sending")'
            PROVE  Of(d)'.status = "dispatched" /\ sent'[call'[d].proposal] = 0
        <5>1. In(d, "sending") /\ Active(d)
          BY <2>2, <4>1 DEF In, Active, ActivePhase
        <5>2. QED
          BY <1>1, <2>2, <2>5, <2>6, <5>1 DEF Parts, Rest, SendersConsumed
      <4>2. QED
        BY <1>1, <2>2, <2>4, <2>6, <2>7, <4>1
    <3>2. \A q \in Proposal : sent'[q] > 0 => row'[q].status = "dispatched"
      BY <1>1, <2>4 DEF Parts, Rest, SendersConsumed
    <3>3. \A q \in Proposal : sent'[q] > 0 => ~\E d \in Call : Active(d)' /\ call'[d].proposal = q
      BY <1>1, <2>2, <2>6 DEF Parts, Rest, SendersConsumed
    <3>4. QED
      BY <3>1, <3>2, <3>3 DEF SendersConsumed
  <2>12. DispatchedOnce' /\ SecondPerson'
    BY <1>1, <2>4 DEF Parts, Rest, DispatchedOnce, SecondPerson
  <2>13. ClosedIsPast'
    <3>1. \A q \in closed' : q \in overdue' \/ row'[q].status = "rejected"
      BY <1>1, <2>4, <2>8 DEF Parts, Rest, ClosedIsPast, TypeOK
    <3>2. ASSUME NEW d \in Call, call'[d].proposal \in closed'
          PROVE  /\ ~In(d, "sending")'
                 /\ In(d, "consuming")' => Of(d)'.status # "approved"
                 /\ In(d, "reverting")' => call'[d].proposal \in overdue'
      <4>1. d # c /\ call[d].proposal # p
        BY <1>1, <2>2, <2>8, <3>2
      <4>2. QED
        BY <1>1, <2>2, <2>6, <3>2, <4>1 DEF Parts, Rest, ClosedIsPast, In
    <3>3. QED
      BY <3>1, <3>2 DEF ClosedIsPast
  <2>14. QED
    BY <2>9, <2>10, <2>11, <2>12, <2>13 DEF Rest
<1>4. QED
  BY <1>2, <1>3

(* The command is sent, for the first time and by a second person, or it is refused. *)
LEMMA DispatchKeeps ==
  ASSUME Parts, NEW c \in Call, NEW taken \in BOOLEAN, Dispatch(c, taken)
  PROVE  Rest'
<1> DEFINE p == call[c].proposal
<1>1. /\ In(c, "sending") /\ Goes(c, "over") /\ UNCHANGED <<row, overdue, proposing, closed>>
  BY DEF Dispatch
<1>2. CASE ~taken
  <2>1. UNCHANGED <<sent, sender>>
    BY <1>2 DEF Dispatch
  <2>2. QED
    BY <1>1, <2>1, EndKeeps
<1>3. CASE taken
  <2>1. /\ sent' = [sent EXCEPT ![p] = @ + 1] /\ sender' = [sender EXCEPT ![p] = call[c].person]
        /\ "over" \in CallPhase
    BY <1>3 DEF Dispatch, CallPhase
  <2>2. /\ \A d \in Call : call[d].proposal \in Proposal /\ call'[d].proposal = call[d].proposal
                           /\ call'[d].person = call[d].person
        /\ \A d \in Call \ {c} : call'[d] = call[d]
        /\ call'[c].phase = "over"
    BY <1>1, <2>1, CallFacts
  <2>3. /\ row[p].status = "dispatched" /\ sent[p] = 0 /\ Active(c)
        /\ call[c].person \in Person /\ call[c].person # row[p].requester
    BY <1>1 DEF Parts, Rest, SendersConsumed, CallsKnowRows, In, Active, ActivePhase, OwnRequest, Of
  <2>4. /\ sent'[p] = 1 /\ sender'[p] = call[c].person
        /\ \A q \in Proposal \ {p} : sent'[q] = sent[q] /\ sender'[q] = sender[q]
    BY <2>1, <2>2, <2>3 DEF Parts, TypeOK
  <2>5. \A d \in Call : Active(d) /\ d # c => call[d].proposal # p
    BY <2>3 DEF Parts, Rest, OneDecider
  <2>6. /\ \A d \in Call : Active(d)' => d # c /\ Active(d)
        /\ \A d \in Call : Of(d)' = Of(d) /\ (OwnRequest(d)' <=> OwnRequest(d))
        /\ \A d \in Call : call'[d].phase # "over" => call'[d] = call[d] /\ d # c
    BY <1>1, <2>2 DEF Active, ActivePhase, Of, OwnRequest
  <2>7. OneDecider'
    BY <2>2, <2>6 DEF Parts, Rest, OneDecider
  <2>8. CallsKnowRows'
    BY <1>1, <2>2, <2>6 DEF Parts, Rest, CallsKnowRows, ActivePhase, In
  <2>9. SendersConsumed'
    <3>1. \A d \in Call : In(d, "sending")' => Of(d)'.status = "dispatched" /\ sent'[call'[d].proposal] = 0
      <4>1. SUFFICES ASSUME NEW d \in Call, In(d, "sending")'
                     PROVE  Of(d)'.status = "dispatched" /\ sent'[call'[d].proposal] = 0
        OBVIOUS
      <4>2. d # c /\ In(d, "sending") /\ Active(d)
        BY <2>6, <4>1 DEF In, Active, ActivePhase
      <4>3. QED
        BY <2>2, <2>4, <2>5, <2>6, <4>2 DEF Parts, Rest, SendersConsumed
    <3>2. \A q \in Proposal : sent'[q] > 0 => row'[q].status = "dispatched"
      BY <1>1, <2>3, <2>4 DEF Parts, Rest, SendersConsumed
    <3>3. \A q \in Proposal : sent'[q] > 0 => ~\E d \in Call : Active(d)' /\ call'[d].proposal = q
      BY <2>2, <2>4, <2>5, <2>6 DEF Parts, Rest, SendersConsumed
    <3>4. QED
      BY <3>1, <3>2, <3>3 DEF SendersConsumed
  <2>10. DispatchedOnce' /\ SecondPerson'
    BY <1>1, <2>3, <2>4 DEF Parts, Rest, DispatchedOnce, SecondPerson
  <2>11. ClosedIsPast'
    BY <1>1, <2>2, <2>6 DEF Parts, Rest, ClosedIsPast, In
  <2>12. QED
    BY <2>7, <2>8, <2>9, <2>10, <2>11 DEF Rest
<1>4. QED
  BY <1>2, <1>3

(* A death ends every call that had begun: what it was about to do is not done. *)
LEMMA RestartKeeps ==
  ASSUME Parts, Restart
  PROVE  Rest'
<1>1. /\ proposing' = {} /\ UNCHANGED <<row, overdue, sent, sender, closed>>
      /\ call' = [c \in Call |-> IF In(c, "new") THEN call[c] ELSE [call[c] EXCEPT !.phase = "over"]]
      /\ call \in [Call -> CallState]
  BY DEF Restart, historyVars, Parts, TypeOK
<1>2. \A c \in Call : call'[c].phase \in {"new", "over"} /\ call'[c].proposal = call[c].proposal
  BY <1>1 DEF In, CallState
<1>3. \A c \in Call : ~Active(c)' /\ ~In(c, "deciding")'
  BY <1>2 DEF Active, ActivePhase, In
<1>4. OneDecider' /\ CallsKnowRows'
  BY <1>1, <1>2, <1>3 DEF OneDecider, CallsKnowRows, ActivePhase
<1>5. SendersConsumed' /\ DispatchedOnce' /\ SecondPerson'
  BY <1>1, <1>2, <1>3 DEF Parts, Rest, SendersConsumed, DispatchedOnce, SecondPerson, In
<1>6. ClosedIsPast'
  BY <1>1, <1>2 DEF Parts, Rest, ClosedIsPast, In
<1>7. QED
  BY <1>4, <1>5, <1>6 DEF Rest

(* A step that leaves the rows and the calls alone: a proposal is read for, its time passes, *)
(* a switch is thrown. *)
LEMMA AsideKeeps ==
  ASSUME Parts, UNCHANGED <<row, call, sent, sender, closed>>, overdue \subseteq overdue',
         \A p \in proposing' : row[p].status = "absent"
  PROVE  Rest'
<1>1. \A c \in Call : Of(c)' = Of(c) /\ (Active(c)' <=> Active(c)) /\ (OwnRequest(c)' <=> OwnRequest(c))
  BY DEF Of, Active, OwnRequest
<1>2. OneDecider' /\ CallsKnowRows'
  BY <1>1 DEF Parts, Rest, OneDecider, CallsKnowRows, In
<1>3. SendersConsumed' /\ DispatchedOnce' /\ SecondPerson'
  BY <1>1 DEF Parts, Rest, SendersConsumed, DispatchedOnce, SecondPerson, In
<1>4. ClosedIsPast'
  BY <1>1 DEF Parts, Rest, ClosedIsPast, In
<1>5. QED
  BY <1>2, <1>3, <1>4 DEF Rest

(* Every step keeps the invariant. *)
LEMMA StepKeeps == Parts /\ [Next]_vars => Parts'
<1> SUFFICES ASSUME Parts, [Next]_vars PROVE Parts'
  OBVIOUS
<1>1. TypeOK'
  BY TypesKept DEF Parts
<1> SUFFICES Rest'
  BY <1>1 DEF Parts
<1>2. ASSUME NEW p \in Proposal, ReadDevice(p) \/ BecomesOverdue(p) PROVE Rest'
  <2>1. /\ UNCHANGED <<row, call, sent, sender, closed>> /\ overdue \subseteq overdue'
        /\ \A q \in proposing' : row[q].status = "absent"
    BY <1>2 DEF ReadDevice, BecomesOverdue, historyVars, Parts, Rest, CallsKnowRows
  <2>2. QED
    BY <2>1, AsideKeeps
<1>3. ASSUME NEW p \in Proposal, Propose(p) PROVE Rest'
  BY <1>3, ProposeKeeps
<1>4. CASE Sweep
  <2>1. /\ Expire /\ UNCHANGED <<overdue, proposing, sent, sender, call>>
        /\ call' \in [Call -> CallState]
    BY <1>4 DEF Sweep, Parts, TypeOK
  <2>2. QED
    BY <2>1, ExpireKeeps
<1>5. CASE Switch
  <2>1. /\ UNCHANGED <<row, call, sent, sender, closed>> /\ overdue \subseteq overdue'
        /\ \A q \in proposing' : row[q].status = "absent"
    BY <1>5 DEF Switch, historyVars, Parts, Rest, CallsKnowRows
  <2>2. QED
    BY <2>1, AsideKeeps
<1>6. CASE Restart
  BY <1>6, RestartKeeps
<1>7. ASSUME NEW c \in Call, NEW who \in Person, NEW decision \in Decision, Ask(c, who, decision)
      PROVE  Rest'
  <2>1. /\ Expire /\ UNCHANGED <<overdue, proposing, sent, sender>>
        /\ call \in [Call -> CallState] /\ call' \in [Call -> CallState]
    BY <1>1, <1>7 DEF Ask, Parts, TypeOK
  <2>2. /\ Of(c).status # "absent"
        /\ call'[c].phase = "deciding" /\ call'[c].person = who /\ call'[c].proposal = call[c].proposal
        /\ \A d \in Call \ {c} : call'[d] = call[d]
    BY <1>7, <2>1 DEF Ask, CallState
  <2>3. QED
    BY <2>1, <2>2, ExpireKeeps
<1>8. ASSUME NEW c \in Call, CallStep(c) PROVE Rest'
  <2>1. CASE Decide(c)
    <3>1. CASE Undecided(call[c].proposal)
      BY <2>1, <3>1, DecideKeeps
    <3>2. CASE ~Undecided(call[c].proposal)
      <4>1. Goes(c, "over") /\ UNCHANGED <<row, overdue, proposing, sent, sender, closed>>
        BY <2>1, <3>2 DEF Decide
      <4>2. QED
        BY <4>1, EndKeeps
    <3>3. QED
      BY <3>1, <3>2
  <2>2. QED
    BY <1>8, <2>1, RevertKeeps, ReadKeeps, ConsumeKeeps, DispatchKeeps DEF CallStep
<1>9. CASE UNCHANGED vars
  <2>1. /\ UNCHANGED <<row, call, sent, sender, closed>> /\ overdue \subseteq overdue'
        /\ \A q \in proposing' : row[q].status = "absent"
    BY <1>9 DEF vars, historyVars, Parts, Rest, CallsKnowRows
  <2>2. QED
    BY <2>1, AsideKeeps
<1>10. QED
  BY <1>2, <1>3, <1>4, <1>5, <1>6, <1>7, <1>8, <1>9 DEF Next

-----------------------------------------------------------------------------
(* The theorems. *)

(* The inductive invariant: one call at a time is at a proposal, it knows what its guards   *)
(* found, and what was closed is past sending (routers/device-proposals.ts:65-170).         *)
THEOREM ProposalsInvariant == Spec => []ProposalsInv
<1>1. Parts => ProposalsInv
  BY DEF Parts, Rest, ProposalsInv
<1>2. QED
  BY <1>1, InitHolds, StepKeeps, PTL DEF Spec

(* An approval authorises one dispatch, however many people decide and whoever dies.        *)
THEOREM DispatchedOnceHolds == Spec => []DispatchedOnce
<1>1. ProposalsInv => DispatchedOnce
  BY DEF ProposalsInv
<1>2. QED
  BY <1>1, ProposalsInvariant, PTL

(* Whoever asked for a command never decides it (routers/device-proposals.ts:98).           *)
THEOREM SecondPersonHolds == Spec => []SecondPerson
<1>1. ProposalsInv => SecondPerson
  BY DEF ProposalsInv
<1>2. QED
  BY <1>1, ProposalsInvariant, PTL

(* Only a call that is sending sends, and none is at what was closed.                       *)
LEMMA StepLeavesClosed ==
  ASSUME ProposalsInv, [Next]_vars, NEW p \in closed
  PROVE  sent'[p] = sent[p]
<1>1. CASE sent' = sent
  BY <1>1
<1>2. ASSUME NEW c \in Call, NEW taken \in BOOLEAN, Dispatch(c, taken)
      PROVE  sent'[p] = sent[p]
  <2>1. call[c].proposal # p
    BY <1>2 DEF ProposalsInv, ClosedIsPast, Dispatch
  <2>2. QED
    BY <1>2, <2>1 DEF Dispatch, ProposalsInv, TypeOK
<1>3. CASE ~\E c \in Call, taken \in BOOLEAN : Dispatch(c, taken)
  <2>1. sent' = sent
    BY <1>3 DEF Next, vars, historyVars, ReadDevice, Propose, BecomesOverdue, Sweep, Switch, Restart,
       Ask, CallStep, Decide, Revert, Read, Consume
  <2>2. QED
    BY <2>1
<1>4. QED
  BY <1>2, <1>3

(* What expired or was turned down is never sent, although a decision that is taken back may *)
(* reopen the row (routers/device-proposals.ts:104).                                         *)
THEOREM ClosedStaysUnsentHolds == Spec => ClosedStaysUnsent
<1>1. ProposalsInv /\ [Next]_vars => [\A p \in closed : sent'[p] = sent[p]]_vars
  BY StepLeavesClosed
<1>2. QED
  BY <1>1, ProposalsInvariant, PTL DEF Spec, ClosedStaysUnsent
=============================================================================
