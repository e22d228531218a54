-------------------------- MODULE ConnectorProofs --------------------------
(***************************************************************************)
(* Proofs about Connector: for any incidents, notes, ceilings and kinds    *)
(* and numbers of disturbances, an incident has one ticket, a transition   *)
(* starts one run, nothing the watermark has passed is forgotten and a     *)
(* note that was answered for is not posted again.                         *)
(***************************************************************************)
EXTENDS Connector, TLAPS

-----------------------------------------------------------------------------
(* The parts of the invariant, each under the steps that leave it alone.    *)

\* What the constants are, and what they say of times.
LEMMA Bounds ==
  /\ MaxTime \in Nat \ {0} /\ DispatchCeiling \in Nat \ {0} /\ FailureCeiling \in Nat
  /\ MaxAttempts \in Nat
  /\ Nothing \notin Note /\ Nothing \notin Incident
  /\ Time = 0 .. MaxTime /\ Trigger = 0 .. MaxTime /\ NoTime = 0 /\ Created = 0
  /\ NoTrigger = -1
BY ValueAssumption, LimitAssumption
   DEF ValueAssumption, LimitAssumption, Time, Trigger, NoTime, Created, NoTrigger

\* A disturbance is counted where it happens, and nowhere else.
LEMMA SpendCounts ==
  ASSUME HistoryTypeOK, NEW d \in Disturbance, Spend(d)
  PROVE  /\ spent' \in [Disturbance -> Nat]
         /\ spent'[d] # 0
         /\ \A e \in Disturbance \ {d} : spent'[e] = spent[e]
BY DEF HistoryTypeOK, Spend

LEMMA OneThingStays ==
  ASSUME OneThingAtATime, UNCHANGED <<tick, pass, todo, current, deliver>>
  PROVE  OneThingAtATime'
BY DEF OneThingAtATime

LEMMA NotesStay ==
  ASSUME NotesAreAbout, UNCHANGED <<note, due, deliver>>
  PROVE  NotesAreAbout'
BY DEF NotesAreAbout

LEMMA TicketsStay ==
  ASSUME TicketsHaveOrigins, UNCHANGED tickets,
         \A i \in Incident : origin'[i].known = origin[i].known
  PROVE  TicketsHaveOrigins'
BY DEF TicketsHaveOrigins

LEMMA StartsStay ==
  ASSUME StartsAreClaimed, UNCHANGED <<ledger, todo, current, started>>,
         spent'["crash"] = 0 => spent["crash"] = 0
  PROVE  StartsAreClaimed'
BY DEF StartsAreClaimed

LEMMA AckedStays ==
  ASSUME AckedIsSettled, UNCHANGED <<note, due, deliver, acked>>,
         spent'["retry"] = 0 => spent["retry"] = 0
  PROVE  AckedIsSettled'
BY DEF AckedIsSettled

\* The times, under a step that may move a pass.
LEMMA TimesStay ==
  ASSUME TimesAgree,
         UNCHANGED <<now, foreign, fetched, watermark, origin, note, deliver>>,
         \A p \in Pass : PassTimes(pass'[p])
  PROVE  TimesAgree'
BY DEF TimesAgree, PassTimes

\* What is settled stays settled while no incident changes: what a pass holds
\* stays true of it.
SettledStays ==
  \A i \in Incident : /\ origin[i].known => origin'[i].known
                      /\ Settled(i) => Settled(i)'

LEMMA PassKept ==
  ASSUME NEW r \in PassRow, PassHolds(r), UNCHANGED <<foreign, late>>, SettledStays
  PROVE  PassHolds(r)'
<1>1. \A o \in r.got : o.inc \in Incident
  BY DEF PassRow, Observation
<1>2. \A d \in r.todo : d.inc \in Incident
  BY DEF PassRow, Decision
<1>3. \A i \in Incident : Changed(i)' <=> Changed(i)
  BY DEF Changed
<1>4. \A i \in Incident : Beyond(r, i) => Beyond(r, i)'
  BY DEF Beyond
<1>5. SettledUpTo(r.since)'
  BY <1>3 DEF PassHolds, SettledUpTo, SettledStays
<1>6. GotIsCurrent(r)'
  BY <1>1, <1>4 DEF PassHolds, GotIsCurrent
<1>7. GotCovers(r) => GotCovers(r)'
  BY <1>3, <1>4 DEF GotCovers, SettledStays
<1>8. DecisionsAreCurrent(r)'
  <2> SUFFICES ASSUME NEW d \in r.todo
      PROVE  /\ d.kind = "update" => origin'[d.inc].known
             /\ d.inc \notin late =>
                  /\ d.at = foreign[d.inc].at \/ r.mark < foreign[d.inc].at
                  /\ d.kind = "update" /\ foreign[d.inc].said < d.at
                       => d.trigger = foreign[d.inc].said \/ ~Owed(d.inc)'
    BY DEF DecisionsAreCurrent
  <2>1. /\ d.kind = "update" => origin[d.inc].known
        /\ d.inc \notin late =>
             /\ d.at = foreign[d.inc].at \/ r.mark < foreign[d.inc].at
             /\ d.kind = "update" /\ foreign[d.inc].said < d.at
                  => d.trigger = foreign[d.inc].said \/ ~Owed(d.inc)
    BY DEF PassHolds, DecisionsAreCurrent
  <2>2. d.kind = "update" /\ ~Owed(d.inc) => ~Owed(d.inc)'
    BY <1>2, <2>1 DEF SettledStays, Settled
  <2>3. d.kind = "update" => origin'[d.inc].known
    BY <1>2, <2>1 DEF SettledStays
  <2> QED BY <2>1, <2>2, <2>3
<1>9. DecisionsCover(r) => DecisionsCover(r)'
  BY <1>3 DEF DecisionsCover, SettledStays
<1> QED BY <1>5, <1>6, <1>7, <1>8, <1>9 DEF PassHolds

\* The same of all passes, one of which may have moved.
LEMMA PassesKept ==
  ASSUME pass' \in [Pass -> PassRow], \A p \in Pass : PassHolds(pass'[p]),
         UNCHANGED <<foreign, late>>, SettledStays
  PROVE  \A p \in Pass : PassHolds(pass[p])'
<1> SUFFICES ASSUME NEW p \in Pass PROVE PassHolds(pass[p])'
  OBVIOUS
<1>1. PICK r \in PassRow : r = pass'[p]
  OBVIOUS
<1>2. PassHolds(r)'
  BY <1>1, PassKept
<1> QED BY <1>1, <1>2 DEF PassHolds, SettledUpTo, GotIsCurrent, GotCovers, Beyond,
                          DecisionsAreCurrent, DecisionsCover

\* Nothing is passed over by a step that leaves the incidents, the watermark
\* and what is settled alone.
LEMMA PassedStays ==
  ASSUME NothingIsPassedOver, UNCHANGED <<foreign, late, watermark>>, SettledStays,
         pass' \in [Pass -> PassRow], \A p \in Pass : PassHolds(pass'[p]),
         \A i \in Incident : origin'[i].seen = origin[i].seen /\ (Owed(i)' => Owed(i))
  PROVE  NothingIsPassedOver'
<1>1. \A p \in Pass : PassHolds(pass[p])'
  BY PassesKept
<1>2. SettledUpTo(watermark)'
  BY DEF NothingIsPassedOver, SettledUpTo, SettledStays, Changed
<1>3. \A i \in Incident : foreign'[i].said < origin'[i].seen => ~Owed(i)'
  BY DEF NothingIsPassedOver
<1> QED BY <1>1, <1>2, <1>3 DEF NothingIsPassedOver

\* What is settled depends on the incidents, the origins and the ledger alone.
LEMMA SettledUnchanged ==
  ASSUME UNCHANGED <<foreign, late, born>>,
         \A i \in Incident : /\ origin'[i].known = origin[i].known
                             /\ AtCeiling(i) => AtCeiling(i)'
                             /\ ledger[i][foreign[i].said] # "none"
                                  => ledger'[i][foreign[i].said] # "none"
  PROVE  SettledStays /\ \A i \in Incident : Owed(i)' => Owed(i)
BY DEF SettledStays, Settled, Owed

\* A pass that holds nothing.
EmptyPass(r) ==
  /\ r \in PassRow /\ r.phase \notin {"fetched", "applying"}
  /\ r.got = {} /\ r.todo = {} /\ r.mark = NoTime /\ r.since <= fetched
  /\ SettledUpTo(r.since)

LEMMA EmptyPassHolds ==
  ASSUME TypeOK, NEW r, EmptyPass(r)
  PROVE  PassHolds(r) /\ PassTimes(r)
<1>1. PassHolds(r)
  BY DEF EmptyPass, PassHolds, GotIsCurrent, DecisionsAreCurrent
<1>2. fetched \in Nat
  BY Bounds DEF TypeOK, HistoryTypeOK
<1>3. PassTimes(r)
  BY <1>2, Bounds DEF EmptyPass, PassTimes
<1> QED BY <1>1, <1>3

\* Nothing changed before time began.
LEMMA SettledUpToNoTime == TypeOK => SettledUpTo(NoTime)
BY Bounds DEF TypeOK, RowTypeOK, Foreign, SettledUpTo, Changed

LEMMA NoPassIsEmpty ==
  ASSUME TypeOK
  PROVE  EmptyPass(NoPass) /\ EmptyPass([NoPass EXCEPT !.phase = "failing"])
<1>1. fetched \in Nat
  BY Bounds DEF TypeOK, HistoryTypeOK
<1>2. ASSUME NEW f \in {"idle", "failing"},
             NEW r, r = [phase |-> f, since |-> NoTime, got |-> {}, todo |-> {},
                         mark |-> NoTime, seen |-> 0]
      PROVE  EmptyPass(r)
  <2>1. r \in PassRow
    BY <1>2, Bounds DEF PassRow, PassPhase
  <2>2. /\ r.phase = f /\ r.since = NoTime /\ r.got = {} /\ r.todo = {} /\ r.mark = NoTime
    BY <1>2
  <2> QED BY <1>1, <2>1, <2>2, SettledUpToNoTime, Bounds DEF EmptyPass
<1>3. EmptyPass(NoPass)
  BY <1>2 DEF NoPass
<1>4. EmptyPass([NoPass EXCEPT !.phase = "failing"])
  <2>1. [NoPass EXCEPT !.phase = "failing"] =
          [phase |-> "failing", since |-> NoTime, got |-> {}, todo |-> {},
           mark |-> NoTime, seen |-> 0]
    BY DEF NoPass
  <2>2. PICK r : r = [NoPass EXCEPT !.phase = "failing"]
    OBVIOUS
  <2>3. EmptyPass(r)
    BY <1>2, <2>1, <2>2
  <2> QED BY <2>2, <2>3
<1> QED BY <1>3, <1>4

\* A pass moves: the others hold what they held.
LEMMA PassMoves ==
  ASSUME ConnectorInv, NEW p \in Pass, NEW r \in PassRow, PassHolds(r), PassTimes(r),
         pass' = [pass EXCEPT ![p] = r]
  PROVE  /\ pass' \in [Pass -> PassRow]
         /\ \A q \in Pass : PassHolds(pass'[q]) /\ PassTimes(pass'[q])
<1>1. pass \in [Pass -> PassRow]
  BY DEF ConnectorInv, TypeOK, MemoryTypeOK
<1>2. pass'[p] = r /\ \A q \in Pass \ {p} : pass'[q] = pass[q]
  BY <1>1
<1> QED BY <1>1, <1>2 DEF ConnectorInv, NothingIsPassedOver, TimesAgree

\* A pass that gets another phase, or another count of failures, and no more.
LEMMA Relabelled ==
  ASSUME NEW q \in PassRow, PassHolds(q), PassTimes(q), NEW f \in PassPhase \ {"fetched", "applying"},
         NEW n \in Nat, NEW r, r = [q EXCEPT !.phase = f, !.seen = n]
  PROVE  r \in PassRow /\ PassHolds(r) /\ PassTimes(r)
<1>1. /\ r \in PassRow /\ r.phase = f /\ r.since = q.since /\ r.got = q.got
      /\ r.todo = q.todo /\ r.mark = q.mark
  BY DEF PassRow
<1> QED BY <1>1 DEF PassHolds, PassTimes, GotIsCurrent, DecisionsAreCurrent, Beyond

-----------------------------------------------------------------------------
(* An incident changes in the other system.                                 *)

\* The incident is stamped with the present second; a second that was already
\* fetched makes it late.
IncidentMoves(i) ==
  /\ foreign' \in [Incident -> Foreign]
  /\ foreign'[i].at = now /\ foreign'[i].said \in {foreign[i].said, now}
  /\ \A j \in Incident \ {i} : foreign'[j] = foreign[j]
  /\ late' = (IF fetched = now THEN late \cup {i} ELSE late)

\* What is known of the incident that moved, and of the others.
LEMMA MoveFacts ==
  ASSUME ConnectorInv, NEW i \in Incident, IncidentMoves(i),
         UNCHANGED <<now, fetched, origin, ledger, born>>
  PROVE  /\ \A j \in Incident \ {i} :
              /\ foreign'[j] = foreign[j] /\ (j \in late' <=> j \in late)
              /\ (Changed(j)' <=> Changed(j)) /\ (Owed(j)' <=> Owed(j))
              /\ (Settled(j)' <=> Settled(j))
         /\ \/ i \in late'
            \/ /\ i \notin late /\ fetched < foreign'[i].at
               /\ \/ foreign'[i].said = foreign[i].said /\ (Owed(i)' <=> Owed(i))
                  \/ fetched < foreign'[i].said
<1>1. fetched <= now /\ fetched \in Int /\ now \in Int
  BY Bounds DEF ConnectorInv, TimesAgree, TypeOK, HistoryTypeOK, RowTypeOK
<1>2. \A j \in Incident \ {i} :
              /\ foreign'[j] = foreign[j] /\ (j \in late' <=> j \in late)
              /\ (Changed(j)' <=> Changed(j)) /\ (Owed(j)' <=> Owed(j))
  BY DEF IncidentMoves, Changed, Owed, AtCeiling
<1>3. \A j \in Incident \ {i} : Settled(j)' <=> Settled(j)
  BY <1>2 DEF Settled
<1>4. ASSUME i \notin late'
      PROVE  /\ i \notin late /\ fetched < foreign'[i].at
             /\ \/ foreign'[i].said = foreign[i].said /\ (Owed(i)' <=> Owed(i))
                \/ fetched < foreign'[i].said
  <2>1. fetched < now /\ late' = late
    BY <1>1, <1>4 DEF IncidentMoves
  <2>2. CASE foreign'[i].said = foreign[i].said
    BY <1>4, <2>1, <2>2 DEF IncidentMoves, Owed, AtCeiling
  <2>3. CASE foreign'[i].said = now
    BY <1>4, <2>1, <2>3 DEF IncidentMoves
  <2> QED BY <2>2, <2>3 DEF IncidentMoves
<1> QED BY <1>2, <1>3, <1>4

\* What a pass holds stays true when an incident moves beyond it.
LEMMA PassSeesMove ==
  ASSUME ConnectorInv, NEW i \in Incident, IncidentMoves(i),
         UNCHANGED <<now, fetched, origin, ledger, born>>,
         NEW r \in PassRow, PassHolds(r), PassTimes(r)
  PROVE  PassHolds(r)'
<1>1. /\ \A j \in Incident \ {i} :
              /\ foreign'[j] = foreign[j] /\ (j \in late' <=> j \in late)
              /\ (Changed(j)' <=> Changed(j)) /\ (Owed(j)' <=> Owed(j))
              /\ (Settled(j)' <=> Settled(j))
      /\ \/ i \in late'
         \/ /\ i \notin late /\ fetched < foreign'[i].at
            /\ \/ foreign'[i].said = foreign[i].said /\ (Owed(i)' <=> Owed(i))
               \/ fetched < foreign'[i].said
  BY MoveFacts
<1>2. /\ fetched \in Int /\ r.since \in Int /\ r.mark \in Int
      /\ foreign'[i].at \in Int /\ foreign'[i].said \in Int
  BY Bounds DEF ConnectorInv, TypeOK, HistoryTypeOK, PassRow, IncidentMoves, Foreign
<1>3. \A o \in r.got : o.inc \in Incident /\ o.at \in Int /\ o.at <= fetched
  BY Bounds DEF PassRow, Observation, PassTimes
<1>4. \A d \in r.todo : d.inc \in Incident /\ d.at \in Int /\ d.at <= fetched
  BY Bounds DEF PassRow, Decision, PassTimes
<1>5. r.since <= fetched /\ r.mark <= fetched
  BY DEF PassTimes
<1>6. \A j \in Incident \ {i} : Beyond(r, j)' <=> Beyond(r, j)
  BY <1>1 DEF Beyond
<1>7. i \notin late' => Beyond(r, i)'
  BY <1>1, <1>2, <1>3 DEF Beyond
<1>8. Changed(i)' => i \notin late'
  BY DEF Changed
<1>9. SettledUpTo(r.since)'
  BY <1>1, <1>2, <1>5, <1>8 DEF PassHolds, SettledUpTo
<1>10. GotIsCurrent(r)'
  <2> SUFFICES ASSUME NEW o \in r.got, o.inc \notin late'
      PROVE  /\ o.at = foreign'[o.inc].at \/ Beyond(r, o.inc)'
             /\ foreign'[o.inc].said <= o.at => o.said = foreign'[o.inc].said
    BY DEF GotIsCurrent
  <2>1. CASE o.inc = i
    <3>1. Beyond(r, o.inc)'
      BY <2>1, <1>7
    <3>2. o.inc \notin late /\ (foreign[o.inc].said <= o.at => o.said = foreign[o.inc].said)
      BY <2>1, <1>1 DEF PassHolds, GotIsCurrent
    <3>3. foreign'[o.inc].said <= o.at => foreign'[o.inc].said = foreign[o.inc].said
      BY <2>1, <1>1, <1>2, <1>3
    <3> QED BY <3>1, <3>2, <3>3
  <2>2. CASE o.inc # i
    <3>1. /\ o.inc \in Incident \ {i} /\ o.inc \notin late
          /\ foreign'[o.inc] = foreign[o.inc]
      BY <2>2, <1>1, <1>3
    <3>2. /\ o.at = foreign[o.inc].at \/ Beyond(r, o.inc)
          /\ foreign[o.inc].said <= o.at => o.said = foreign[o.inc].said
      BY <3>1 DEF PassHolds, GotIsCurrent
    <3> QED BY <3>1, <3>2, <1>6
  <2> QED BY <2>1, <2>2
<1>11. GotCovers(r) => GotCovers(r)'
  BY <1>1, <1>6, <1>7, <1>8 DEF GotCovers
<1>12. DecisionsAreCurrent(r)'
  <2> SUFFICES ASSUME NEW d \in r.todo
      PROVE  /\ d.kind = "update" => origin'[d.inc].known
             /\ d.inc \notin late' =>
                  /\ d.at = foreign'[d.inc].at \/ r.mark < foreign'[d.inc].at
                  /\ d.kind = "update" /\ foreign'[d.inc].said < d.at
                       => d.trigger = foreign'[d.inc].said \/ ~Owed(d.inc)'
    BY DEF DecisionsAreCurrent
  <2>1. /\ d.kind = "update" => origin[d.inc].known
        /\ d.inc \notin late =>
             /\ d.at = foreign[d.inc].at \/ r.mark < foreign[d.inc].at
             /\ d.kind = "update" /\ foreign[d.inc].said < d.at
                  => d.trigger = foreign[d.inc].said \/ ~Owed(d.inc)
    BY DEF PassHolds, DecisionsAreCurrent
  <2>2. CASE d.inc = i
    <3>1. SUFFICES ASSUME i \notin late'
          PROVE /\ r.mark < foreign'[i].at
                /\ d.kind = "update" /\ foreign'[i].said < d.at
                       => d.trigger = foreign'[i].said \/ ~Owed(i)'
      BY <2>1, <2>2
    <3>2. r.mark < foreign'[i].at
      BY <3>1, <1>1, <1>2, <1>5
    <3>3. foreign'[i].said < d.at =>
            foreign'[i].said = foreign[i].said /\ (Owed(i)' <=> Owed(i))
      BY <3>1, <1>1, <1>2, <1>4
    <3> QED BY <2>1, <2>2, <3>1, <3>2, <3>3, <1>1
  <2>3. CASE d.inc # i
    <3>1. /\ (d.inc \in late' <=> d.inc \in late) /\ foreign'[d.inc] = foreign[d.inc]
          /\ (Owed(d.inc)' <=> Owed(d.inc))
      BY <2>3, <1>1, <1>4
    <3> QED BY <2>1, <3>1
  <2> QED BY <2>2, <2>3
<1>13. DecisionsCover(r) => DecisionsCover(r)'
  BY <1>1, <1>2, <1>5, <1>8 DEF DecisionsCover
<1> QED BY <1>9, <1>10, <1>11, <1>12, <1>13 DEF PassHolds

\* Nothing is passed over when an incident moves.
LEMMA MoveKeeps ==
  ASSUME ConnectorInv, NEW i \in Incident, IncidentMoves(i),
         UNCHANGED <<now, fetched, watermark, origin, ledger, born, pass>>
  PROVE  /\ NothingIsPassedOver' /\ late' \subseteq Incident
         /\ \A j \in Incident : /\ foreign[j].at <= foreign'[j].at /\ foreign'[j].at <= now
                                /\ foreign'[j].said <= foreign'[j].at
         /\ \A p \in Pass : PassTimes(pass[p])'
<1>1. /\ \A j \in Incident \ {i} :
              /\ foreign'[j] = foreign[j] /\ (j \in late' <=> j \in late)
              /\ (Changed(j)' <=> Changed(j)) /\ (Owed(j)' <=> Owed(j))
              /\ (Settled(j)' <=> Settled(j))
      /\ \/ i \in late'
         \/ /\ i \notin late /\ fetched < foreign'[i].at
            /\ \/ foreign'[i].said = foreign[i].said /\ (Owed(i)' <=> Owed(i))
               \/ fetched < foreign'[i].said
  BY MoveFacts
<1>2. /\ now \in Int /\ fetched \in Int /\ watermark \in Int
      /\ pass \in [Pass -> PassRow] /\ late \subseteq Incident
      /\ \A j \in Incident : /\ foreign[j].at \in Int /\ foreign[j].said \in Int
                             /\ foreign'[j].at \in Int /\ foreign'[j].said \in Int
                             /\ origin[j].seen \in Int
  <2>1. /\ now \in Int /\ fetched \in Int /\ watermark \in Int
        /\ pass \in [Pass -> PassRow] /\ late \subseteq Incident
    BY Bounds DEF ConnectorInv, TypeOK, RowTypeOK, MemoryTypeOK, HistoryTypeOK
  <2>2. /\ foreign \in [Incident -> Foreign] /\ foreign' \in [Incident -> Foreign]
        /\ origin \in [Incident -> Origin]
    BY DEF ConnectorInv, TypeOK, RowTypeOK, IncidentMoves
  <2>3. \A x \in Foreign : x.at \in Int /\ x.said \in Int
    BY Bounds DEF Foreign
  <2>4. \A x \in Origin : x.seen \in Int
    BY Bounds DEF Origin
  <2> QED BY <2>1, <2>2, <2>3, <2>4
<1>3. /\ watermark <= fetched /\ fetched <= now
      /\ \A j \in Incident : /\ foreign[j].said <= foreign[j].at /\ foreign[j].at <= now
                             /\ origin[j].seen <= foreign[j].at
      /\ \A p \in Pass : PassTimes(pass[p])
  BY DEF ConnectorInv, TimesAgree
<1>4. \A j \in Incident : /\ foreign[j].at <= foreign'[j].at /\ foreign'[j].at <= now
                          /\ foreign'[j].said <= foreign'[j].at
  BY <1>1, <1>2, <1>3 DEF IncidentMoves
<1>5. \A p \in Pass : PassTimes(pass[p])'
  <2> SUFFICES ASSUME NEW p \in Pass PROVE PassTimes(pass[p])'
    OBVIOUS
  <2>1. /\ \A o \in pass[p].got : o.inc \in Incident /\ o.at \in Int
        /\ \A d \in pass[p].todo : d.inc \in Incident /\ d.at \in Int
    BY <1>2, Bounds DEF PassRow, Observation, Decision
  <2>2. PassTimes(pass[p])
    BY <1>3
  <2> QED BY <1>2, <1>4, <2>1, <2>2 DEF PassTimes
<1>6. \A p \in Pass : PassHolds(pass[p])'
  <2> SUFFICES ASSUME NEW p \in Pass PROVE PassHolds(pass[p])'
    OBVIOUS
  <2>1. PICK r \in PassRow : r = pass[p]
    BY <1>2
  <2>2. PassHolds(r) /\ PassTimes(r)
    BY <2>1, <1>3 DEF ConnectorInv, NothingIsPassedOver
  <2>3. PassHolds(r)'
    BY <2>2, PassSeesMove
  <2>4. r = pass'[p]
    BY <2>1
  <2> QED BY <2>3, <2>4 DEF PassHolds, SettledUpTo, GotIsCurrent, GotCovers, Beyond,
                            DecisionsAreCurrent, DecisionsCover
<1>7. SettledUpTo(watermark)'
  BY <1>1, <1>2, <1>3 DEF ConnectorInv, NothingIsPassedOver, SettledUpTo, Changed
<1>8. \A j \in Incident : foreign'[j].said < origin'[j].seen => ~Owed(j)'
  <2> SUFFICES ASSUME NEW j \in Incident, foreign'[j].said < origin[j].seen, Owed(j)'
      PROVE  FALSE
    OBVIOUS
  <2>1. foreign[j].said < origin[j].seen => ~Owed(j)
    BY DEF ConnectorInv, NothingIsPassedOver
  <2>2. CASE j = i
    <3>1. CASE foreign'[i].said = foreign[i].said
      <4>1. Owed(i)' => Owed(i)
        BY <3>1 DEF Owed, AtCeiling, IncidentMoves
      <4> QED BY <2>1, <2>2, <3>1, <4>1
    <3>2. CASE foreign'[i].said = now
      BY <2>2, <3>2, <1>2, <1>3
    <3> QED BY <3>1, <3>2 DEF IncidentMoves
  <2>3. CASE j # i
    BY <2>1, <2>3, <1>1
  <2> QED BY <2>2, <2>3
<1>9. late' \subseteq Incident
  BY <1>2 DEF IncidentMoves
<1> QED BY <1>4, <1>5, <1>6, <1>7, <1>8, <1>9 DEF NothingIsPassedOver

\* Nothing is settled or unsettled by a step that leaves the rows alone.
LEMMA RowsStaySettled ==
  ASSUME UNCHANGED <<foreign, late, born, origin, ledger>>
  PROVE  SettledStays /\ \A i \in Incident : Owed(i)' => Owed(i)
BY SettledUnchanged DEF AtCeiling

\* A step that leaves everything alone but the clock, the switch, the runs, the
\* proposals, the customers' acts and disturbances other than a crash or a retry.
LEMMA QuietStep ==
  ASSUME ConnectorInv,
         UNCHANGED <<foreign, watermark, origin, ledger, note, tick, pass, todo, current,
                     due, deliver, tickets, started, born, fetched, late, posts, acked>>,
         now' \in {now} \cup {now + 1},
         spent'["crash"] = 0 => spent["crash"] = 0,
         spent'["retry"] = 0 => spent["retry"] = 0
  PROVE  /\ OneThingAtATime' /\ NotesAreAbout' /\ TicketsHaveOrigins' /\ StartsAreClaimed'
         /\ TimesAgree' /\ NothingIsPassedOver' /\ AckedIsSettled'
<1>1. OneThingAtATime' /\ NotesAreAbout' /\ TicketsHaveOrigins' /\ StartsAreClaimed'
      /\ AckedIsSettled'
  BY OneThingStays, NotesStay, TicketsStay, StartsStay, AckedStays DEF ConnectorInv
<1>2. TimesAgree'
  <2>1. now \in Int /\ fetched \in Int
    BY Bounds DEF ConnectorInv, TypeOK, RowTypeOK, HistoryTypeOK
  <2>2. \A i \in Incident : foreign[i].at \in Int
    BY Bounds DEF ConnectorInv, TypeOK, RowTypeOK, Foreign
  <2>3. now <= now' /\ now' \in Int
    BY <2>1
  <2>4. TimesAgree
    BY DEF ConnectorInv
  <2>5. \A p \in Pass : PassTimes(pass[p])'
    BY <2>4 DEF TimesAgree, PassTimes
  <2>6. fetched <= now'
    BY <2>1, <2>3, <2>4 DEF TimesAgree
  <2>7. \A i \in Incident : foreign[i].at <= now'
    BY <2>1, <2>2, <2>3, <2>4 DEF TimesAgree
  <2> QED BY <2>4, <2>5, <2>6, <2>7 DEF TimesAgree
<1>3. NothingIsPassedOver'
  <2>1. SettledStays /\ \A i \in Incident : Owed(i)' => Owed(i)
    BY RowsStaySettled
  <2>2. pass' \in [Pass -> PassRow] /\ \A p \in Pass : PassHolds(pass'[p])
    BY DEF ConnectorInv, TypeOK, MemoryTypeOK, NothingIsPassedOver
  <2> QED BY <2>1, <2>2, PassedStays DEF ConnectorInv
<1> QED BY <1>1, <1>2, <1>3

-----------------------------------------------------------------------------
(* The other system and the operators.                                      *)

\* At first nothing was fetched, claimed or queued.
LEMMA InitHolds == Init => ConnectorInv
<1> SUFFICES ASSUME Init PROVE ConnectorInv
  OBVIOUS
<1>1. RowTypeOK
  BY Bounds DEF Init, RowTypeOK, Foreign, Origin, NoteRow, NoteStatus, Outcome
<1>2. MemoryTypeOK
  <2>1. NoPass \in PassRow
    BY Bounds DEF NoPass, PassRow, PassPhase
  <2>2. NoDelivery \in Delivery
    BY Bounds DEF NoDelivery, Delivery
  <2>3. NoCurrent \in [step : {"none", "started", "recorded"}, rows : SUBSET (Incident \X Trigger)]
    BY DEF NoCurrent
  <2> QED BY <2>1, <2>2, <2>3 DEF Init, MemoryTypeOK
<1>3. HistoryTypeOK
  BY Bounds DEF Init, HistoryTypeOK
<1>4. OneThingAtATime /\ NotesAreAbout /\ TicketsHaveOrigins
  BY DEF Init, OneThingAtATime, NotesAreAbout, TicketsHaveOrigins, NoPass, NoDelivery, NoCurrent,
         Pass, Deliverer
<1>5. StartsAreClaimed /\ AckedIsSettled
  BY DEF Init, StartsAreClaimed, AckedIsSettled, NoDelivery, Deliverer
<1>6. TypeOK
  BY <1>1, <1>2, <1>3 DEF TypeOK
<1>7. \A p \in Pass : pass[p] = NoPass
  BY DEF Init
<1>8. \A p \in Pass : PassHolds(pass[p]) /\ PassTimes(pass[p])
  BY <1>6, <1>7, NoPassIsEmpty, EmptyPassHolds
<1>9. TimesAgree
  BY <1>8, Bounds DEF Init, TimesAgree, NoDelivery
<1>10. NothingIsPassedOver
  BY <1>6, <1>8, SettledUpToNoTime, Bounds DEF Init, NothingIsPassedOver
<1> QED BY <1>4, <1>5, <1>6, <1>9, <1>10 DEF ConnectorInv

\* The clock of the other system runs on.
LEMMA TimePassesKeeps == ConnectorInv /\ TimePasses => ConnectorInv'
<1> SUFFICES ASSUME ConnectorInv, TimePasses PROVE ConnectorInv'
  OBVIOUS
<1>1. /\ now < MaxTime /\ now' = now + 1
      /\ UNCHANGED <<foreign, enabled, failures, watermark, origin, ledger, note, run, proposal>>
      /\ UNCHANGED <<tick, pass, todo, current, asking, due, deliver, telling>>
      /\ UNCHANGED <<tickets, started, born, fetched, late, acts, runs, posts, acked, spent>>
  BY DEF TimePasses, rowVars, memoryVars, historyVars
<1>2. TypeOK
  BY DEF ConnectorInv
<1>3. RowTypeOK' /\ MemoryTypeOK' /\ HistoryTypeOK'
  <2>1. now' \in 1 .. MaxTime
    BY <1>1, <1>2, Bounds DEF TypeOK, RowTypeOK
  <2> QED BY <1>1, <1>2, <2>1 DEF TypeOK, RowTypeOK, MemoryTypeOK, HistoryTypeOK
<1> QED BY <1>1, <1>3, QuietStep DEF ConnectorInv, TypeOK

\* A customer's change moves the incident beyond what was fetched, or is late.
LEMMA CustomerActsKeeps ==
  ASSUME ConnectorInv, NEW i \in Incident, NEW comments \in BOOLEAN, CustomerActs(i, comments)
  PROVE  ConnectorInv'
<1>1. TypeOK
  BY DEF ConnectorInv
<1>2. /\ UNCHANGED <<now, enabled, failures, watermark, origin, ledger, note, run, proposal>>
      /\ UNCHANGED <<tick, pass, todo, current, asking, due, deliver, telling>>
      /\ UNCHANGED <<tickets, started, born, fetched, runs, posts, acked, spent>>
  BY DEF CustomerActs, rowVars, memoryVars
<1>3. IncidentMoves(i)
  <2> DEFINE said == IF comments THEN now ELSE foreign[i].said
             row == [foreign[i] EXCEPT !.at = now, !.said = said]
  <2>1. foreign[i] \in Foreign /\ now \in Time /\ foreign \in [Incident -> Foreign]
    BY <1>1, Bounds DEF TypeOK, RowTypeOK
  <2>2. said \in Time /\ said \in {foreign[i].said, now}
    BY <2>1 DEF Foreign
  <2>3. foreign' = [foreign EXCEPT ![i] = row]
    BY <2>1 DEF CustomerActs
  <2>4. row \in Foreign /\ row.at = now /\ row.said = said
    <3> HIDE DEF said
    <3> QED BY <2>1, <2>2 DEF Foreign
  <2> HIDE DEF row, said
  <2>5. /\ foreign' \in [Incident -> Foreign] /\ foreign'[i] = row
        /\ \A j \in Incident \ {i} : foreign'[j] = foreign[j]
    BY <2>1, <2>3, <2>4
  <2> QED BY <2>2, <2>4, <2>5 DEF IncidentMoves, CustomerActs
<1>4. /\ NothingIsPassedOver' /\ late' \subseteq Incident
      /\ \A j \in Incident : /\ foreign[j].at <= foreign'[j].at /\ foreign'[j].at <= now
                             /\ foreign'[j].said <= foreign'[j].at
      /\ \A p \in Pass : PassTimes(pass[p])'
  BY <1>2, <1>3, MoveKeeps
<1>5. RowTypeOK' /\ MemoryTypeOK' /\ HistoryTypeOK'
  BY <1>1, <1>2, <1>3, <1>4 DEF TypeOK, RowTypeOK, MemoryTypeOK, HistoryTypeOK, IncidentMoves
<1>6. OneThingAtATime' /\ NotesAreAbout' /\ TicketsHaveOrigins' /\ StartsAreClaimed'
      /\ AckedIsSettled'
  BY <1>2, OneThingStays, NotesStay, TicketsStay, StartsStay, AckedStays DEF ConnectorInv
<1>7. TimesAgree'
  <2>1. TimesAgree /\ NotesAreAbout
    BY DEF ConnectorInv
  <2>2. \A j \in Incident : /\ origin[j].seen \in Int /\ origin[j].written \in Int
                            /\ foreign[j].at \in Int /\ foreign'[j].at \in Int
    <3>1. /\ foreign \in [Incident -> Foreign] /\ foreign' \in [Incident -> Foreign]
          /\ origin \in [Incident -> Origin]
      BY <1>1, <1>3 DEF TypeOK, RowTypeOK, IncidentMoves
    <3>2. /\ \A x \in Foreign : x.at \in Int
          /\ \A x \in Origin : x.seen \in Int /\ x.written \in Int
      BY Bounds DEF Foreign, Origin
    <3> QED BY <3>1, <3>2
  <2>3. \A j \in Incident : origin[j].seen <= foreign'[j].at /\ origin[j].written <= foreign'[j].at
    BY <1>4, <2>1, <2>2 DEF TimesAgree
  <2>4. \A d \in Deliverer : deliver[d].at \in Int
    BY <1>1, Bounds DEF TypeOK, MemoryTypeOK, Delivery
  <2>5. \A d \in Deliverer : deliver[d].phase \in {"posted", "echo"} =>
          deliver[d].at <= foreign'[note[deliver[d].note].inc].at
    <3> SUFFICES ASSUME NEW d \in Deliverer, deliver[d].phase \in {"posted", "echo"}
        PROVE  deliver[d].at <= foreign'[note[deliver[d].note].inc].at
      OBVIOUS
    <3>1. note[deliver[d].note].inc \in Incident
      BY <2>1 DEF NotesAreAbout
    <3>2. deliver[d].at <= foreign[note[deliver[d].note].inc].at
      BY <2>1 DEF TimesAgree
    <3> QED BY <1>4, <2>2, <2>4, <3>1, <3>2
  <2> QED BY <1>2, <1>4, <2>1, <2>3, <2>5 DEF TimesAgree
<1> QED BY <1>4, <1>5, <1>6, <1>7 DEF ConnectorInv, TypeOK

\* The switch of the connector touches no pass and no note.
LEMMA SwitchConnectorKeeps == ConnectorInv /\ SwitchConnector => ConnectorInv'
<1> SUFFICES ASSUME ConnectorInv, SwitchConnector PROVE ConnectorInv'
  OBVIOUS
<1>1. TypeOK
  BY DEF ConnectorInv
<1>2. /\ UNCHANGED <<now, foreign, watermark, origin, ledger, note, run, proposal>>
      /\ UNCHANGED <<tick, pass, todo, current, asking, due, deliver, telling>>
      /\ UNCHANGED <<tickets, started, born, fetched, late, acts, runs, posts, acked>>
      /\ enabled' = ~enabled /\ failures' = (IF enabled THEN failures ELSE 0)
      /\ Spend("switch")
  BY DEF SwitchConnector, foreignVars, memoryVars, historyVars
<1>3. /\ spent' \in [Disturbance -> Nat] /\ spent'["crash"] = spent["crash"]
      /\ spent'["retry"] = spent["retry"]
  BY <1>1, <1>2, SpendCounts DEF TypeOK, Disturbance
<1>4. failures' \in Nat /\ enabled' \in BOOLEAN
  BY <1>1, <1>2 DEF TypeOK, RowTypeOK
<1>5. RowTypeOK' /\ MemoryTypeOK' /\ HistoryTypeOK'
  BY <1>1, <1>2, <1>3, <1>4 DEF TypeOK, RowTypeOK, MemoryTypeOK, HistoryTypeOK
<1> QED BY <1>2, <1>3, <1>5, QuietStep DEF ConnectorInv, TypeOK

-----------------------------------------------------------------------------
(* The sync passes.                                                         *)

\* A pass goes on, or ends; the tick's hands over to the dispatch sweep.
Advances(p, r) ==
  /\ pass' = [pass EXCEPT ![p] = r]
  /\ p = "tick" => tick = "sync"
  /\ tick' = tick \/ (p = "tick" /\ tick' = "dispatch" /\ r.phase = "idle")

\* One thing at a time, whatever a pass does.
LEMMA OneThingInPass ==
  ASSUME TypeOK, OneThingAtATime, NEW p \in Pass, NEW r, Advances(p, r),
         UNCHANGED <<todo, current, deliver>>
  PROVE  OneThingAtATime'
<1>1. pass \in [Pass -> PassRow] /\ Pass = {"tick", "operator"}
  BY DEF TypeOK, MemoryTypeOK, Pass
<1>2. pass'[p] = r /\ \A q \in Pass \ {p} : pass'[q] = pass[q]
  BY <1>1 DEF Advances
<1>3. CASE p = "tick"
  BY <1>2, <1>3 DEF OneThingAtATime, Advances
<1>4. CASE p # "tick"
  <2>1. pass'["tick"] = pass["tick"] /\ tick' = tick
    BY <1>1, <1>2, <1>4 DEF Advances
  <2> QED BY <2>1 DEF OneThingAtATime
<1> QED BY <1>3, <1>4

\* A pass at work holds the tick, if it is the tick's.
LEMMA PassHoldsTick ==
  ASSUME OneThingAtATime, NEW p \in Pass, pass[p].phase # "idle"
  PROVE  p = "tick" => tick = "sync"
BY DEF OneThingAtATime

\* A pass that ends.
LEMMA EndPassAdvances ==
  ASSUME NEW p \in Pass, EndPass(p), p = "tick" => tick = "sync"
  PROVE  Advances(p, NoPass)
BY DEF EndPass, Advances, NoPass

\* A step of a pass that touches no row but the failures and the switch.
LEMMA QuietPass ==
  ASSUME ConnectorInv, NEW p \in Pass, NEW r \in PassRow, PassHolds(r), PassTimes(r),
         Advances(p, r),
         UNCHANGED <<now, foreign, watermark, origin, ledger, note, todo, current, due,
                     deliver, tickets, started, born, fetched, late, posts, acked>>,
         spent'["crash"] = 0 => spent["crash"] = 0,
         spent'["retry"] = 0 => spent["retry"] = 0
  PROVE  /\ pass' \in [Pass -> PassRow] /\ OneThingAtATime' /\ NotesAreAbout'
         /\ TicketsHaveOrigins' /\ StartsAreClaimed' /\ TimesAgree' /\ NothingIsPassedOver'
         /\ AckedIsSettled'
<1>1. /\ pass' \in [Pass -> PassRow]
      /\ \A q \in Pass : PassHolds(pass'[q]) /\ PassTimes(pass'[q])
  BY PassMoves DEF Advances
<1>2. OneThingAtATime'
  BY OneThingInPass DEF ConnectorInv
<1>3. NotesAreAbout' /\ TicketsHaveOrigins' /\ StartsAreClaimed' /\ AckedIsSettled'
  BY NotesStay, TicketsStay, StartsStay, AckedStays DEF ConnectorInv
<1>4. TimesAgree'
  BY <1>1, TimesStay DEF ConnectorInv
<1>5. NothingIsPassedOver'
  BY <1>1, RowsStaySettled, PassedStays DEF ConnectorInv
<1> QED BY <1>1, <1>2, <1>3, <1>4, <1>5

\* A pass begins from the watermark it reads.
LEMMA BeginKeeps ==
  ASSUME ConnectorInv, NEW p \in Pass, Begin(p)
  PROVE  ConnectorInv'
<1>1. TypeOK /\ OneThingAtATime
  BY DEF ConnectorInv
<1>2. /\ UNCHANGED <<now, foreign, enabled, failures, watermark, origin, ledger, note, run,
                     proposal>>
      /\ UNCHANGED <<todo, current, asking, due, deliver, telling>>
      /\ UNCHANGED <<tickets, started, born, fetched, late, acts, runs, posts, acked>>
  BY DEF Begin, foreignVars, rowVars, historyVars
<1>3. /\ p = "tick" => tick = "sync"
      /\ spent' \in [Disturbance -> Nat] /\ spent'["crash"] = spent["crash"]
      /\ spent'["retry"] = spent["retry"]
  <2>1. CASE p = "tick"
    BY <1>1, <2>1 DEF Begin, TypeOK, HistoryTypeOK
  <2>2. CASE p # "tick"
    <3>1. Spend("sync")
      BY <2>2 DEF Begin
    <3> QED BY <1>1, <2>2, <3>1, SpendCounts DEF TypeOK, Disturbance
  <2> QED BY <2>1, <2>2
<1>4. PICK q \in PassRow : q = pass[p] /\ PassHolds(q) /\ PassTimes(q)
  BY DEF ConnectorInv, TypeOK, MemoryTypeOK, NothingIsPassedOver, TimesAgree
<1>5. PICK r \in PassRow : PassHolds(r) /\ PassTimes(r) /\ Advances(p, r)
  <2>1. CASE enabled
    <3> DEFINE b == [q EXCEPT !.phase = "begun", !.since = watermark]
    <3>1. watermark \in Time /\ watermark <= fetched /\ SettledUpTo(watermark)
      BY DEF ConnectorInv, TypeOK, RowTypeOK, TimesAgree, NothingIsPassedOver
    <3>2. /\ b \in PassRow /\ b.phase = "begun" /\ b.since = watermark /\ b.got = q.got
          /\ b.todo = q.todo /\ b.mark = q.mark
      BY <3>1 DEF PassRow, PassPhase
    <3>3. pass' = [pass EXCEPT ![p] = b] /\ tick' = tick
      BY <1>1, <1>4, <2>1 DEF Begin, TypeOK, MemoryTypeOK
    <3> HIDE DEF b
    <3>4. PassHolds(b)
      BY <1>4, <3>1, <3>2 DEF PassHolds, GotIsCurrent, Beyond, DecisionsAreCurrent
    <3>5. PassTimes(b)
      BY <1>4, <3>1, <3>2 DEF PassTimes
    <3> QED BY <1>3, <3>2, <3>3, <3>4, <3>5 DEF Advances
  <2>2. CASE ~enabled
    <3>1. Advances(p, NoPass)
      BY <1>3, <2>2, EndPassAdvances DEF Begin
    <3> QED BY <1>1, <3>1, NoPassIsEmpty, EmptyPassHolds DEF EmptyPass
  <2> QED BY <2>1, <2>2
<1>6. /\ pass' \in [Pass -> PassRow] /\ OneThingAtATime' /\ NotesAreAbout'
      /\ TicketsHaveOrigins' /\ StartsAreClaimed' /\ TimesAgree' /\ NothingIsPassedOver'
      /\ AckedIsSettled'
  BY <1>2, <1>3, <1>5, QuietPass
<1>7. RowTypeOK' /\ MemoryTypeOK' /\ HistoryTypeOK'
  BY <1>1, <1>2, <1>3, <1>5, <1>6 DEF TypeOK, RowTypeOK, MemoryTypeOK, HistoryTypeOK, Advances
<1> QED BY <1>6, <1>7 DEF ConnectorInv, TypeOK

\* A pass that fails gives up what it holds, whatever went wrong.
LEMMA PassFailsKeeps ==
  ASSUME ConnectorInv, NEW p \in Pass, PassFails(p)
  PROVE  ConnectorInv'
<1>1. TypeOK /\ OneThingAtATime
  BY DEF ConnectorInv
<1>2. /\ UNCHANGED <<now, foreign, enabled, failures, watermark, origin, ledger, note, run,
                     proposal>>
      /\ UNCHANGED <<tick, todo, current, asking, due, deliver, telling>>
      /\ UNCHANGED <<tickets, started, born, fetched, late, acts, runs, posts, acked>>
      /\ pass' = [pass EXCEPT ![p] = [NoPass EXCEPT !.phase = "failing"]]
      /\ pass[p].phase # "idle"
      /\ spent' = spent \/ Spend("fault")
  BY DEF PassFails, foreignVars, rowVars, historyVars
<1>3. /\ spent' \in [Disturbance -> Nat] /\ spent'["crash"] = spent["crash"]
      /\ spent'["retry"] = spent["retry"]
  <2>1. CASE UNCHANGED spent
    BY <1>1, <2>1 DEF TypeOK, HistoryTypeOK
  <2>2. CASE Spend("fault")
    BY <1>1, <2>2, SpendCounts DEF TypeOK, Disturbance
  <2> QED BY <1>2, <2>1, <2>2
<1>4. PICK r : r = [NoPass EXCEPT !.phase = "failing"]
  OBVIOUS
<1>5. r \in PassRow /\ PassHolds(r) /\ PassTimes(r)
  BY <1>1, <1>4, NoPassIsEmpty, EmptyPassHolds DEF EmptyPass
<1>6. Advances(p, r)
  BY <1>1, <1>2, <1>4, PassHoldsTick DEF Advances
<1>7. /\ pass' \in [Pass -> PassRow] /\ OneThingAtATime' /\ NotesAreAbout'
      /\ TicketsHaveOrigins' /\ StartsAreClaimed' /\ TimesAgree' /\ NothingIsPassedOver'
      /\ AckedIsSettled'
  BY <1>2, <1>3, <1>5, <1>6, QuietPass
<1>8. RowTypeOK' /\ MemoryTypeOK' /\ HistoryTypeOK'
  BY <1>1, <1>2, <1>3, <1>7 DEF TypeOK, RowTypeOK, MemoryTypeOK, HistoryTypeOK
<1> QED BY <1>7, <1>8 DEF ConnectorInv, TypeOK

\* The failures so far are read,
LEMMA ReadFailuresKeeps ==
  ASSUME ConnectorInv, NEW p \in Pass, ReadFailures(p)
  PROVE  ConnectorInv'
<1>1. TypeOK /\ OneThingAtATime
  BY DEF ConnectorInv
<1>2. /\ UNCHANGED <<now, foreign, enabled, failures, watermark, origin, ledger, note, run,
                     proposal>>
      /\ UNCHANGED <<tick, todo, current, asking, due, deliver, telling>>
      /\ UNCHANGED <<tickets, started, born, fetched, late, acts, runs, posts, acked, spent>>
      /\ pass[p].phase # "idle"
  BY DEF ReadFailures, Doing, foreignVars, rowVars, historyVars
<1>3. PICK q \in PassRow : q = pass[p] /\ PassHolds(q) /\ PassTimes(q)
  BY DEF ConnectorInv, TypeOK, MemoryTypeOK, NothingIsPassedOver, TimesAgree
<1>4. PICK r : r = [q EXCEPT !.phase = "counting", !.seen = failures]
  OBVIOUS
<1>5. r \in PassRow /\ PassHolds(r) /\ PassTimes(r)
  <2>1. "counting" \in PassPhase \ {"fetched", "applying"} /\ failures \in Nat
    BY <1>1 DEF PassPhase, TypeOK, RowTypeOK
  <2> QED BY <1>3, <1>4, <2>1, Relabelled
<1>6. pass' = [pass EXCEPT ![p] = r]
  BY <1>1, <1>3, <1>4 DEF ReadFailures, TypeOK, MemoryTypeOK
<1>7. Advances(p, r)
  BY <1>1, <1>2, <1>6, PassHoldsTick DEF Advances
<1>8. /\ pass' \in [Pass -> PassRow] /\ OneThingAtATime' /\ NotesAreAbout'
      /\ TicketsHaveOrigins' /\ StartsAreClaimed' /\ TimesAgree' /\ NothingIsPassedOver'
      /\ AckedIsSettled'
  BY <1>2, <1>5, <1>7, QuietPass
<1>9. RowTypeOK' /\ MemoryTypeOK' /\ HistoryTypeOK'
  BY <1>1, <1>2, <1>8 DEF TypeOK, RowTypeOK, MemoryTypeOK, HistoryTypeOK
<1> QED BY <1>8, <1>9 DEF ConnectorInv, TypeOK

\* and one more is written, at the ceiling with the switch.
LEMMA CountFailureKeeps ==
  ASSUME ConnectorInv, NEW p \in Pass, CountFailure(p)
  PROVE  ConnectorInv'
<1>1. TypeOK /\ OneThingAtATime
  BY DEF ConnectorInv
<1>2. /\ UNCHANGED <<now, foreign, watermark, origin, ledger, note, run, proposal>>
      /\ UNCHANGED <<todo, current, asking, due, deliver, telling>>
      /\ UNCHANGED <<tickets, started, born, fetched, late, acts, runs, posts, acked, spent>>
      /\ pass[p].phase # "idle" /\ EndPass(p)
  BY DEF CountFailure, Doing, foreignVars, historyVars
<1>3. failures' \in Nat /\ enabled' \in BOOLEAN
  <2>1. pass[p].seen \in Nat
    BY <1>1 DEF TypeOK, MemoryTypeOK, PassRow
  <2>2. failures' \in Nat
    BY <2>1 DEF CountFailure
  <2>3. enabled' = FALSE \/ enabled' = enabled
    BY DEF CountFailure
  <2>4. enabled \in BOOLEAN
    BY <1>1 DEF TypeOK, RowTypeOK
  <2> QED BY <2>2, <2>3, <2>4
<1>4. Advances(p, NoPass)
  BY <1>1, <1>2, PassHoldsTick, EndPassAdvances
<1>5. NoPass \in PassRow /\ PassHolds(NoPass) /\ PassTimes(NoPass)
  BY <1>1, NoPassIsEmpty, EmptyPassHolds DEF EmptyPass
<1>6. /\ pass' \in [Pass -> PassRow] /\ OneThingAtATime' /\ NotesAreAbout'
      /\ TicketsHaveOrigins' /\ StartsAreClaimed' /\ TimesAgree' /\ NothingIsPassedOver'
      /\ AckedIsSettled'
  BY <1>2, <1>4, <1>5, QuietPass
<1>7. RowTypeOK' /\ MemoryTypeOK' /\ HistoryTypeOK'
  BY <1>1, <1>2, <1>3, <1>4, <1>6 DEF TypeOK, RowTypeOK, MemoryTypeOK, HistoryTypeOK, Advances
<1> QED BY <1>6, <1>7 DEF ConnectorInv, TypeOK

\* A pass fetches what changed after the watermark it began from: what it does
\* not fetch was settled.
LEMMA FetchKeeps ==
  ASSUME ConnectorInv, NEW p \in Pass, Fetch(p)
  PROVE  ConnectorInv'
<1>1. TypeOK /\ OneThingAtATime /\ TimesAgree
  BY DEF ConnectorInv
<1>2. /\ UNCHANGED <<now, foreign, enabled, failures, watermark, origin, ledger, note, run,
                     proposal>>
      /\ UNCHANGED <<tick, todo, current, asking, due, deliver, telling>>
      /\ UNCHANGED <<tickets, started, born, late, acts, runs, posts, acked, spent>>
      /\ fetched' = now /\ pass[p].phase # "idle"
  BY DEF Fetch, Doing, foreignVars, rowVars
<1>3. PICK q \in PassRow : q = pass[p] /\ PassHolds(q) /\ PassTimes(q)
  BY DEF ConnectorInv, TypeOK, MemoryTypeOK, NothingIsPassedOver, TimesAgree
<1>4. /\ now \in Time /\ now \in Int /\ fetched \in Int /\ fetched <= now
      /\ foreign \in [Incident -> Foreign]
      /\ \A i \in Incident : foreign[i].at \in Int /\ foreign[i].at <= now
  <2>1. foreign \in [Incident -> Foreign] /\ \A x \in Foreign : x.at \in Int
    BY <1>1, Bounds DEF TypeOK, RowTypeOK, Foreign
  <2> QED BY <1>1, <2>1, Bounds DEF TypeOK, RowTypeOK, HistoryTypeOK, TimesAgree
<1>5. PICK G : G = {[inc |-> i, at |-> foreign[i].at, said |-> foreign[i].said] :
                      i \in {j \in Incident : foreign[j].at > q.since}}
  OBVIOUS
<1>6. /\ \A o \in G : /\ o.inc \in Incident /\ o.at = foreign[o.inc].at
                      /\ o.said = foreign[o.inc].said
      /\ \A i \in Incident : foreign[i].at > q.since => \E o \in G : o.inc = i /\ o.at = foreign[i].at
      /\ G \subseteq Observation
  <2>1. \A i \in Incident : [inc |-> i, at |-> foreign[i].at, said |-> foreign[i].said] \in Observation
    BY <1>4 DEF Foreign, Observation
  <2>2. G \subseteq Observation
    BY <1>5, <2>1
  <2>3. \A i \in Incident : foreign[i].at > q.since => \E o \in G : o.inc = i /\ o.at = foreign[i].at
    <3> SUFFICES ASSUME NEW i \in Incident, foreign[i].at > q.since
        PROVE  \E o \in G : o.inc = i /\ o.at = foreign[i].at
      OBVIOUS
    <3>1. [inc |-> i, at |-> foreign[i].at, said |-> foreign[i].said] \in G
      BY <1>5
    <3> QED BY <3>1
  <2>4. \A o \in G : o.inc \in Incident /\ o.at = foreign[o.inc].at /\ o.said = foreign[o.inc].said
    BY <1>5
  <2> QED BY <2>2, <2>3, <2>4
<1> DEFINE r == [q EXCEPT !.phase = "fetched", !.got = G]
<1>7. /\ r \in PassRow /\ r.phase = "fetched" /\ r.since = q.since /\ r.got = G
      /\ r.todo = q.todo /\ r.mark = q.mark
  BY <1>3, <1>6 DEF PassRow, PassPhase
<1>8. pass' = [pass EXCEPT ![p] = r]
  BY <1>1, <1>3, <1>5 DEF Fetch, TypeOK, MemoryTypeOK
<1> HIDE DEF r
<1>9. PassHolds(r)
  <2>1. SettledUpTo(r.since) /\ DecisionsAreCurrent(r)
    BY <1>3, <1>7 DEF PassHolds, DecisionsAreCurrent
  <2>2. GotIsCurrent(r)
    BY <1>6, <1>7 DEF GotIsCurrent
  <2>3. GotCovers(r)
    <3> SUFFICES ASSUME NEW i \in Incident, Changed(i), ~Settled(i)
        PROVE  \E o \in r.got : o.inc = i /\ o.at = foreign[i].at
      BY DEF GotCovers
    <3>1. ~(foreign[i].at <= r.since)
      BY <2>1 DEF SettledUpTo
    <3>2. r.since \in Int
      BY <1>7, Bounds DEF PassRow
    <3>3. foreign[i].at > q.since
      BY <1>4, <1>7, <3>1, <3>2
    <3> QED BY <1>6, <1>7, <3>3
  <2> QED BY <2>1, <2>2, <2>3, <1>7 DEF PassHolds
<1>10. /\ pass' \in [Pass -> PassRow] /\ pass'[p] = r
       /\ \A s \in Pass \ {p} : pass'[s] = pass[s]
  BY <1>1, <1>7, <1>8 DEF TypeOK, MemoryTypeOK
<1>11. \A s \in Pass : PassHolds(pass'[s])
  BY <1>9, <1>10 DEF ConnectorInv, NothingIsPassedOver
<1>12. NothingIsPassedOver'
  BY <1>2, <1>10, <1>11, RowsStaySettled, PassedStays DEF ConnectorInv
<1>13. \A s \in Pass : PassTimes(pass[s])'
  <2> SUFFICES ASSUME NEW s \in Pass PROVE PassTimes(pass[s])'
    OBVIOUS
  <2>1. PICK v \in PassRow : v = pass[s] /\ PassTimes(v)
    BY <1>1 DEF TypeOK, MemoryTypeOK, TimesAgree
  <2>2. /\ v.since \in Int /\ v.mark \in Int
        /\ \A o \in v.got : o.at \in Int
    BY Bounds DEF PassRow, Observation, Decision
  <2>3. \A d \in v.todo : d.at \in Int
    BY Bounds DEF PassRow, Decision
  <2>4. /\ v.since <= now /\ v.mark <= now
        /\ \A o \in v.got : o.at <= now /\ o.at <= foreign[o.inc].at
        /\ \A d \in v.todo : d.at <= now /\ d.at <= foreign[d.inc].at
    BY <1>4, <2>1, <2>2, <2>3 DEF PassTimes
  <2>5. CASE s = p
    <3>1. v = q
      BY <1>3, <2>1, <2>5
    <3>2. /\ r.since <= now /\ r.mark <= now
          /\ \A o \in r.got : o.at <= now /\ o.at <= foreign[o.inc].at
          /\ \A d \in r.todo : d.at <= now /\ d.at <= foreign[d.inc].at
      BY <1>4, <1>6, <1>7, <2>4, <3>1
    <3> QED BY <1>2, <1>10, <2>5, <3>2 DEF PassTimes
  <2>6. CASE s # p
    BY <1>2, <1>10, <2>1, <2>4, <2>6 DEF PassTimes
  <2> QED BY <2>5, <2>6
<1>14. TimesAgree'
  <2>1. watermark <= now /\ now <= now
    BY <1>1, <1>4, Bounds DEF TypeOK, RowTypeOK, TimesAgree
  <2> QED BY <1>1, <1>2, <1>13, <2>1 DEF TimesAgree
<1>15. OneThingAtATime'
  <2>1. Advances(p, r)
    BY <1>1, <1>2, <1>8, PassHoldsTick DEF Advances
  <2> QED BY <1>1, <1>2, <2>1, OneThingInPass
<1>16. NotesAreAbout' /\ TicketsHaveOrigins' /\ StartsAreClaimed' /\ AckedIsSettled'
  BY <1>2, NotesStay, TicketsStay, StartsStay, AckedStays DEF ConnectorInv
<1>17. RowTypeOK' /\ MemoryTypeOK' /\ HistoryTypeOK'
  BY <1>1, <1>2, <1>4, <1>10 DEF TypeOK, RowTypeOK, MemoryTypeOK, HistoryTypeOK
<1> QED BY <1>12, <1>14, <1>15, <1>16, <1>17 DEF ConnectorInv, TypeOK

\* The trigger of an update, when the comment observed is the latest.
LEMMA UpdateTrigger ==
  ASSUME ConnectorInv, NEW o \in Observation, o.said = foreign[o.inc].said
  PROVE  UpdateDecision(o).trigger = foreign[o.inc].said \/ ~Owed(o.inc)
<1>1. /\ o.inc \in Incident /\ o.said \in Int /\ origin[o.inc].seen \in Int
  BY Bounds DEF Observation, ConnectorInv, TypeOK, RowTypeOK, Origin
<1>2. CASE AtCeiling(o.inc)
  BY <1>2 DEF Owed
<1>3. CASE ~AtCeiling(o.inc) /\ o.said >= origin[o.inc].seen
  BY <1>3 DEF UpdateDecision, CommentTrigger, After
<1>4. CASE ~(o.said >= origin[o.inc].seen)
  BY <1>1, <1>4 DEF ConnectorInv, NothingIsPassedOver
<1> QED BY <1>2, <1>3, <1>4

\* A pass plans a decision for whatever it fetched and was not settled.
LEMMA PlannedHolds ==
  ASSUME ConnectorInv, NEW q \in PassRow, PassHolds(q), PassTimes(q), q.phase = "fetched",
         NEW m \in Time, Newest(q.got, m),
         NEW r \in PassRow, r.phase = "applying", r.since = q.since, r.got = {},
         r.todo = Decisions(q.got), r.mark = m
  PROVE  PassHolds(r) /\ PassTimes(r)
<1>1. TypeOK /\ TimesAgree
  BY DEF ConnectorInv
<1>2. \A i \in Incident : /\ foreign[i].at \in Nat /\ foreign[i].said \in Nat
                          /\ origin[i].seen \in Nat /\ origin[i].written \in Nat
                          /\ foreign[i].said <= foreign[i].at
                          /\ origin[i].seen <= foreign[i].at /\ origin[i].written <= foreign[i].at
  <2>1. foreign \in [Incident -> Foreign] /\ origin \in [Incident -> Origin]
    BY <1>1 DEF TypeOK, RowTypeOK
  <2>2. /\ \A x \in Foreign : x.at \in Nat /\ x.said \in Nat
        /\ \A x \in Origin : x.seen \in Nat /\ x.written \in Nat
    BY Bounds DEF Foreign, Origin
  <2> QED BY <1>1, <2>1, <2>2 DEF TimesAgree
<1>3. \A o \in q.got : /\ o \in Observation /\ o.inc \in Incident /\ o.at \in Nat /\ o.said \in Nat
                       /\ o.at <= m /\ o.at <= fetched /\ o.at <= foreign[o.inc].at
  BY Bounds DEF PassRow, Observation, Newest, PassTimes
<1>4. m \in Nat /\ (m = 0 \/ \E o \in q.got : m = o.at)
  BY Bounds DEF Newest
<1>5. \A o \in q.got : o.inc \notin late =>
        /\ o.at = foreign[o.inc].at \/ Beyond(q, o.inc)
        /\ foreign[o.inc].said <= o.at => o.said = foreign[o.inc].said
  BY DEF PassHolds, GotIsCurrent
<1>6. \A i \in Incident : Beyond(q, i) => m < foreign[i].at \/ (m = 0 /\ q.got = {})
  <2> SUFFICES ASSUME NEW i \in Incident, Beyond(q, i)
      PROVE  m < foreign[i].at \/ (m = 0 /\ q.got = {})
    OBVIOUS
  <2>1. \A o \in q.got : o.at < foreign[i].at
    BY DEF Beyond
  <2>2. CASE \E o \in q.got : m = o.at
    BY <2>1, <2>2
  <2>3. CASE m = 0 /\ q.got # {}
    <3>1. PICK o \in q.got : TRUE
      BY <2>3
    <3> QED BY <2>1, <2>3, <3>1, <1>2, <1>3
  <2> QED BY <1>4, <2>2, <2>3
<1>7. \A d \in Decisions(q.got) :
        \/ \E o \in q.got : d = CreateDecision(o) /\ ~origin[o.inc].known
        \/ \E o \in q.got : d = UpdateDecision(o) /\ origin[o.inc].known
  BY DEF Decisions
<1>8. DecisionsAreCurrent(r)
  <2> SUFFICES ASSUME NEW d \in Decisions(q.got)
      PROVE  /\ d.kind = "update" => origin[d.inc].known
             /\ d.inc \notin late =>
                  /\ d.at = foreign[d.inc].at \/ m < foreign[d.inc].at
                  /\ d.kind = "update" /\ foreign[d.inc].said < d.at
                       => d.trigger = foreign[d.inc].said \/ ~Owed(d.inc)
    BY DEF DecisionsAreCurrent
  <2>1. ASSUME NEW o \in q.got, d = CreateDecision(o)
        PROVE  /\ d.inc = o.inc /\ d.at = o.at /\ d.kind = "create"
    BY <2>1 DEF CreateDecision
  <2>2. ASSUME NEW o \in q.got, d = UpdateDecision(o)
        PROVE  /\ d.inc = o.inc /\ d.at = o.at /\ d.kind = "update"
    BY <2>2 DEF UpdateDecision
  <2>3. ASSUME NEW o \in q.got, o.inc \notin late
        PROVE  o.at = foreign[o.inc].at \/ m < foreign[o.inc].at
    BY <1>3, <1>5, <1>6, <2>3
  <2>4. CASE \E o \in q.got : d = CreateDecision(o) /\ ~origin[o.inc].known
    BY <2>1, <2>3, <2>4
  <2>5. CASE \E o \in q.got : d = UpdateDecision(o) /\ origin[o.inc].known
    <3>1. PICK o \in q.got : d = UpdateDecision(o) /\ origin[o.inc].known
      BY <2>5
    <3>2. d.inc = o.inc /\ d.at = o.at /\ d.kind = "update"
      BY <2>2, <3>1
    <3>3. ASSUME o.inc \notin late, foreign[o.inc].said < o.at
          PROVE  d.trigger = foreign[o.inc].said \/ ~Owed(o.inc)
      <4>1. o.said = foreign[o.inc].said
        BY <1>2, <1>3, <1>5, <3>3
      <4> QED BY <1>3, <3>1, <4>1, UpdateTrigger
    <3> QED BY <2>3, <3>1, <3>2, <3>3
  <2> QED BY <1>7, <2>4, <2>5
<1>9. DecisionsCover(r)
  <2> SUFFICES ASSUME NEW i \in Incident, Changed(i), foreign[i].at <= m, ~Settled(i)
      PROVE  \E d \in Decisions(q.got) :
               d.inc = i /\ (d.kind = "create" \/ d.trigger = foreign[i].said)
    BY DEF DecisionsCover
  <2>1. foreign[i].at # 0 /\ i \notin late
    BY Bounds DEF Changed
  <2>2. ~Beyond(q, i)
    BY <1>2, <1>4, <1>6, <2>1
  <2>3. PICK o \in q.got : o.inc = i /\ o.at = foreign[i].at
    BY <2>2 DEF PassHolds, GotCovers
  <2>4. CASE ~origin[i].known
    <3>1. CreateDecision(o) \in Decisions(q.got)
      BY <2>3, <2>4 DEF Decisions
    <3>2. CreateDecision(o).inc = i /\ CreateDecision(o).kind = "create"
      BY <2>3 DEF CreateDecision
    <3> QED BY <3>1, <3>2
  <2>5. CASE origin[i].known
    <3>1. After(o.at, origin[i].seen) /\ ~OwnEcho(i, o.at)
      BY <1>2, <2>3 DEF After, OwnEcho
    <3>2. UpdateDecision(o) \in Decisions(q.got)
      BY <2>3, <2>5, <3>1 DEF Decisions
    <3>3. o.said = foreign[o.inc].said
      BY <1>2, <1>3, <1>5, <2>1, <2>3
    <3>4. UpdateDecision(o).trigger = foreign[i].said
      BY <1>3, <2>3, <2>5, <3>3, UpdateTrigger DEF Settled
    <3>5. UpdateDecision(o).inc = i
      BY <2>3 DEF UpdateDecision
    <3> QED BY <3>2, <3>4, <3>5
  <2> QED BY <2>4, <2>5
<1>10. PassHolds(r)
  BY <1>8, <1>9 DEF PassHolds, GotIsCurrent
<1>11. PassTimes(r)
  <2>1. r.since <= fetched
    BY DEF PassTimes
  <2>2. r.mark <= fetched
    BY <1>3, <1>4, <1>1, Bounds DEF TypeOK, HistoryTypeOK
  <2>3. \A d \in r.todo : d.at <= fetched /\ d.at <= foreign[d.inc].at
    BY <1>3, <1>7 DEF CreateDecision, UpdateDecision
  <2> QED BY <2>1, <2>2, <2>3 DEF PassTimes
<1> QED BY <1>10, <1>11

\* The plan, or its refusal.
LEMMA PlanKeeps ==
  ASSUME ConnectorInv, NEW p \in Pass, Plan(p)
  PROVE  ConnectorInv'
<1>1. TypeOK /\ OneThingAtATime
  BY DEF ConnectorInv
<1>2. /\ UNCHANGED <<now, foreign, enabled, failures, watermark, origin, ledger, note, run,
                     proposal>>
      /\ UNCHANGED <<todo, current, asking, due, deliver, telling>>
      /\ UNCHANGED <<tickets, started, born, fetched, late, acts, runs, posts, acked, spent>>
      /\ pass[p].phase = "fetched"
  BY DEF Plan, Doing, foreignVars, rowVars, historyVars
<1>3. PICK q \in PassRow : q = pass[p] /\ PassHolds(q) /\ PassTimes(q)
  BY DEF ConnectorInv, TypeOK, MemoryTypeOK, NothingIsPassedOver, TimesAgree
<1>4. p = "tick" => tick = "sync"
  BY <1>1, <1>2, PassHoldsTick
<1>5. PICK r \in PassRow : PassHolds(r) /\ PassTimes(r) /\ Advances(p, r)
  <2>1. CASE EndPass(p)
    <3>1. Advances(p, NoPass)
      BY <1>4, <2>1, EndPassAdvances
    <3> QED BY <1>1, <3>1, NoPassIsEmpty, EmptyPassHolds DEF EmptyPass
  <2>2. CASE ~EndPass(p)
    <3>1. PICK m \in Time :
            /\ Newest(pass[p].got, m)
            /\ pass' = [pass EXCEPT ![p].phase = "applying", ![p].got = {},
                                    ![p].todo = Decisions(pass[p].got), ![p].mark = m]
            /\ UNCHANGED tick
      BY <2>2 DEF Plan
    <3>2. PICK D : D = Decisions(q.got)
      OBVIOUS
    <3>3. D \subseteq Decision
      <4>1. \A o \in q.got : o \in Observation
        BY DEF PassRow
      <4>2. \A o \in Observation : CreateDecision(o) \in Decision
        BY Bounds DEF Observation, CreateDecision, Decision
      <4>3. \A o \in Observation : UpdateDecision(o) \in Decision
        BY Bounds DEF Observation, UpdateDecision, CommentTrigger, Decision
      <4> QED BY <3>2, <4>1, <4>2, <4>3 DEF Decisions
    <3> DEFINE r == [q EXCEPT !.phase = "applying", !.got = {}, !.todo = D, !.mark = m]
    <3>4. /\ r \in PassRow /\ r.phase = "applying" /\ r.since = q.since /\ r.got = {}
          /\ r.todo = D /\ r.mark = m
      BY <3>3 DEF PassRow, PassPhase
    <3>5. pass' = [pass EXCEPT ![p] = r]
      BY <1>1, <1>3, <3>1, <3>2 DEF TypeOK, MemoryTypeOK
    <3> HIDE DEF r
    <3>6. PassHolds(r) /\ PassTimes(r)
      BY <1>2, <1>3, <3>1, <3>2, <3>4, PlannedHolds
    <3>7. Advances(p, r)
      BY <1>4, <3>1, <3>5 DEF Advances
    <3> QED BY <3>4, <3>6, <3>7
  <2> QED BY <2>1, <2>2
<1>6. /\ pass' \in [Pass -> PassRow] /\ OneThingAtATime' /\ NotesAreAbout'
      /\ TicketsHaveOrigins' /\ StartsAreClaimed' /\ TimesAgree' /\ NothingIsPassedOver'
      /\ AckedIsSettled'
  BY <1>2, <1>5, QuietPass
<1>7. RowTypeOK' /\ MemoryTypeOK' /\ HistoryTypeOK'
  BY <1>1, <1>2, <1>5, <1>6 DEF TypeOK, RowTypeOK, MemoryTypeOK, HistoryTypeOK, Advances
<1> QED BY <1>6, <1>7 DEF ConnectorInv, TypeOK

\* Rows of the ledger that say something keep saying it: what was claimed and
\* started stays claimed.
LEMMA ClaimsStay ==
  ASSUME StartsAreClaimed, UNCHANGED <<todo, current, started, spent>>,
         \A i \in Incident : \A t \in Trigger :
           ledger[i][t] # "none" => ledger'[i][t] = ledger[i][t],
         todo \subseteq Incident \X Trigger
  PROVE  StartsAreClaimed'
<1>1. \A x \in todo : ledger'[x[1]][x[2]] = ledger[x[1]][x[2]]
  BY DEF StartsAreClaimed
<1>2. \A x \in Incident \X Trigger :
        ledger[x[1]][x[2]] \in {"dispatched", "refused"} => ledger'[x[1]][x[2]] = ledger[x[1]][x[2]]
  OBVIOUS
<1> QED BY <1>1, <1>2 DEF StartsAreClaimed

\* The claim of a row, which leaves the others as they were.
LEMMA ClaimedRow ==
  ASSUME ledger \in [Incident -> [Trigger -> Outcome]], NEW i \in Incident, NEW t \in Trigger
  PROVE  /\ Claimed(i, t) \in [Incident -> [Trigger -> Outcome]]
         /\ Claimed(i, t)[i][t] # "none"
         /\ \A j \in Incident : \A u \in Trigger :
              ledger[j][u] # "none" => Claimed(i, t)[j][u] = ledger[j][u]
         /\ \A j \in Incident \ {i} : Claimed(i, t)[j] = ledger[j]
BY DEF Claimed, Outcome

\* A decision is applied: its pass lets go of it once its incident is settled.
LEMMA DecisionApplied ==
  ASSUME ConnectorInv, NEW p \in Pass, NEW q \in PassRow, q = pass[p], q.phase = "applying",
         NEW d \in q.todo,
         pass' = [pass EXCEPT ![p].todo = @ \ {d}],
         UNCHANGED <<now, foreign, late, fetched, watermark, note, deliver, tick, todo, current,
                     due, started, acked, spent>>,
         SettledStays,
         Changed(d.inc) /\ foreign[d.inc].at <= q.mark
           /\ (d.kind = "create" \/ d.trigger = foreign[d.inc].said) => Settled(d.inc)',
         \A i \in Incident : /\ foreign[i].said < origin'[i].seen => ~Owed(i)'
                             /\ origin'[i].seen <= foreign[i].at
                             /\ origin'[i].written = origin[i].written,
         \A i \in Incident : \A t \in Trigger :
           ledger[i][t] # "none" => ledger'[i][t] = ledger[i][t]
  PROVE  /\ pass' \in [Pass -> PassRow] /\ OneThingAtATime' /\ NotesAreAbout'
         /\ StartsAreClaimed' /\ TimesAgree' /\ NothingIsPassedOver' /\ AckedIsSettled'
<1>1. TypeOK /\ OneThingAtATime /\ TimesAgree /\ NothingIsPassedOver
  BY DEF ConnectorInv
<1> DEFINE r == [q EXCEPT !.todo = q.todo \ {d}]
<1>2. /\ r \in PassRow /\ r.phase = q.phase /\ r.since = q.since /\ r.got = q.got
      /\ r.todo = q.todo \ {d} /\ r.mark = q.mark
  BY DEF PassRow
<1>3. pass' = [pass EXCEPT ![p] = r]
  BY <1>1 DEF TypeOK, MemoryTypeOK
<1> HIDE DEF r
<1>4. /\ pass' \in [Pass -> PassRow] /\ pass'[p] = r
      /\ \A s \in Pass \ {p} : pass'[s] = pass[s]
  BY <1>1, <1>2, <1>3 DEF TypeOK, MemoryTypeOK
<1>5. PassHolds(q)' /\ PassTimes(q)
  <2>1. PassHolds(q) /\ PassTimes(q)
    BY <1>1 DEF NothingIsPassedOver, TimesAgree
  <2> QED BY <2>1, PassKept
<1>6. PassHolds(r)'
  <2>1. SettledUpTo(r.since)' /\ GotIsCurrent(r)' /\ DecisionsAreCurrent(r)'
    BY <1>2, <1>5 DEF PassHolds, SettledUpTo, GotIsCurrent, Beyond, DecisionsAreCurrent
  <2>2. DecisionsCover(r)'
    <3> SUFFICES ASSUME NEW i \in Incident, Changed(i)', foreign'[i].at <= r.mark, ~Settled(i)'
        PROVE  \E e \in r.todo : e.inc = i /\ (e.kind = "create" \/ e.trigger = foreign'[i].said)
      BY DEF DecisionsCover
    <3>1. PICK e \in q.todo : e.inc = i /\ (e.kind = "create" \/ e.trigger = foreign'[i].said)
      BY <1>2, <1>5 DEF PassHolds, DecisionsCover
    <3>2. Changed(i)
      BY DEF Changed
    <3>3. e # d
      BY <1>2, <3>1, <3>2
    <3> QED BY <1>2, <3>1, <3>3
  <2> QED BY <1>2, <2>1, <2>2 DEF PassHolds
<1>7. \A s \in Pass : PassHolds(pass[s])'
  <2> SUFFICES ASSUME NEW s \in Pass PROVE PassHolds(pass[s])'
    OBVIOUS
  <2>1. PICK v \in PassRow : v = pass'[s]
    BY <1>4
  <2>2. PassHolds(v)'
    <3>1. CASE s = p
      BY <1>4, <1>6, <2>1, <3>1
    <3>2. CASE s # p
      <4>1. PassHolds(v)
        BY <1>1, <1>4, <2>1, <3>2 DEF NothingIsPassedOver
      <4> QED BY <4>1, PassKept
    <3> QED BY <3>1, <3>2
  <2> QED BY <2>1, <2>2 DEF PassHolds, SettledUpTo, GotIsCurrent, GotCovers, Beyond,
                            DecisionsAreCurrent, DecisionsCover
<1>8. NothingIsPassedOver'
  <2>1. SettledUpTo(watermark)'
    BY <1>1 DEF NothingIsPassedOver, SettledUpTo, SettledStays, Changed
  <2> QED BY <1>7, <2>1 DEF NothingIsPassedOver
<1>9. TimesAgree'
  <2>1. PassTimes(r)
    BY <1>2, <1>5 DEF PassTimes
  <2>2. \A s \in Pass : PassTimes(pass'[s])
    BY <1>1, <1>4, <2>1 DEF TimesAgree
  <2> QED BY <1>1, <2>2 DEF TimesAgree, PassTimes
<1>10. OneThingAtATime'
  <2>1. Advances(p, r)
    BY <1>1, <1>3, PassHoldsTick DEF Advances
  <2> QED BY <1>1, <2>1, OneThingInPass
<1>11. NotesAreAbout' /\ AckedIsSettled' /\ StartsAreClaimed'
  BY <1>1, NotesStay, AckedStays, ClaimsStay DEF ConnectorInv, TypeOK, MemoryTypeOK
<1> QED BY <1>4, <1>8, <1>9, <1>10, <1>11

\* A ticket is created of the latest change, or of one the watermark will not
\* pass the incident by.
LEMMA ApplyCreateKeeps ==
  ASSUME ConnectorInv, NEW p \in Pass, ApplyCreate(p)
  PROVE  ConnectorInv'
<1>1. TypeOK /\ TimesAgree /\ NothingIsPassedOver /\ TicketsHaveOrigins
  BY DEF ConnectorInv
<1>2. /\ UNCHANGED <<now, foreign, enabled, failures, watermark, note, run, proposal>>
      /\ UNCHANGED <<tick, todo, current, asking, due, deliver, telling>>
      /\ UNCHANGED <<acts, started, fetched, late, runs, posts, acked, spent>>
      /\ pass[p].phase = "applying"
  BY DEF ApplyCreate, Doing, foreignVars
<1>3. PICK d \in pass[p].todo :
        /\ d.kind = "create" /\ OriginFree(d.inc)
        /\ origin' = [origin EXCEPT ![d.inc].known = TRUE, ![d.inc].seen = d.at]
        /\ ledger' = Claimed(d.inc, d.trigger)
        /\ tickets' = [tickets EXCEPT ![d.inc] = @ + 1]
        /\ born' = [born EXCEPT ![d.inc] = d.at]
        /\ pass' = [pass EXCEPT ![p].todo = @ \ {d}]
  BY DEF ApplyCreate
<1>4. PICK q \in PassRow : q = pass[p] /\ PassHolds(q) /\ PassTimes(q)
  BY <1>1 DEF TypeOK, MemoryTypeOK, NothingIsPassedOver, TimesAgree
<1>5. PICK i \in Incident : i = d.inc /\ d.at \in Time /\ d.trigger \in Trigger \cup {NoTrigger}
  BY <1>3, <1>4 DEF PassRow, Decision
<1>6. /\ origin \in [Incident -> Origin] /\ ledger \in [Incident -> [Trigger -> Outcome]]
      /\ born \in [Incident -> Time] /\ tickets \in [Incident -> Nat]
      /\ \A j \in Incident : foreign[j].at \in Int /\ foreign[j].said \in Int
  <2>1. foreign \in [Incident -> Foreign] /\ \A x \in Foreign : x.at \in Int /\ x.said \in Int
    BY <1>1, Bounds DEF TypeOK, RowTypeOK, Foreign
  <2> QED BY <1>1, <2>1 DEF TypeOK, RowTypeOK, HistoryTypeOK
<1> DEFINE row == [origin[i] EXCEPT !.known = TRUE, !.seen = d.at]
<1>7. /\ row \in Origin /\ row.known = TRUE /\ row.seen = d.at
      /\ row.written = origin[i].written /\ row.count = origin[i].count
  BY <1>5, <1>6 DEF Origin
<1>8. origin' = [origin EXCEPT ![i] = row]
  BY <1>3, <1>5, <1>6
<1> HIDE DEF row
<1>9. /\ origin' \in [Incident -> Origin] /\ origin'[i] = row
      /\ \A j \in Incident \ {i} : origin'[j] = origin[j]
  BY <1>6, <1>7, <1>8
<1>10. /\ ledger' \in [Incident -> [Trigger -> Outcome]]
       /\ \A j \in Incident : \A t \in Trigger :
            ledger[j][t] # "none" => ledger'[j][t] = ledger[j][t]
       /\ \A j \in Incident \ {i} : ledger'[j] = ledger[j]
  <2>1. CASE d.trigger \in Trigger
    BY <1>3, <1>5, <1>6, <2>1, ClaimedRow
  <2>2. CASE d.trigger \notin Trigger
    BY <1>3, <1>5, <1>6, <2>2, Bounds DEF Claimed
  <2> QED BY <2>1, <2>2
<1>11. born' \in [Incident -> Time] /\ born'[i] = d.at /\ \A j \in Incident \ {i} : born'[j] = born[j]
  BY <1>3, <1>5, <1>6
<1>12. ~origin[i].known
  BY <1>3, <1>5 DEF OriginFree
<1>13. \A j \in Incident \ {i} : (Owed(j)' <=> Owed(j)) /\ (Settled(j)' <=> Settled(j))
  BY <1>2, <1>9, <1>10, <1>11 DEF Owed, Settled, AtCeiling
<1>14. SettledStays
  <2>1. ~Settled(i)
    BY <1>12 DEF Settled
  <2> QED BY <1>7, <1>9, <1>13, <2>1 DEF SettledStays
<1>15. foreign[i].said <= d.at => ~Owed(i)'
  <2>1. d.at \in Int
    BY <1>5, Bounds
  <2> QED BY <1>2, <1>6, <1>11, <2>1 DEF Owed
<1>16. Changed(i) /\ foreign[i].at <= q.mark => Settled(i)'
  <2> SUFFICES ASSUME Changed(i), foreign[i].at <= q.mark PROVE Settled(i)'
    OBVIOUS
  <2>1. i \notin late /\ q.mark \in Int
    BY Bounds DEF Changed, PassRow
  <2>2. d.at = foreign[i].at
    BY <1>3, <1>4, <1>5, <1>6, <2>1 DEF PassHolds, DecisionsAreCurrent
  <2>3. foreign[i].said <= d.at
    BY <1>1, <2>2 DEF TimesAgree
  <2> QED BY <1>7, <1>9, <1>15, <2>3 DEF Settled
<1>17. \A j \in Incident : /\ foreign[j].said < origin'[j].seen => ~Owed(j)'
                           /\ origin'[j].seen <= foreign[j].at
                           /\ origin'[j].written = origin[j].written
  <2> SUFFICES ASSUME NEW j \in Incident
      PROVE  /\ foreign[j].said < origin'[j].seen => ~Owed(j)'
             /\ origin'[j].seen <= foreign[j].at
             /\ origin'[j].written = origin[j].written
    OBVIOUS
  <2>1. CASE j = i
    <3>1. d.at <= foreign[i].at /\ d.at \in Int
      BY <1>3, <1>4, <1>5, Bounds DEF PassTimes
    <3> QED BY <1>6, <1>7, <1>9, <1>15, <2>1, <3>1
  <2>2. CASE j # i
    BY <1>1, <1>9, <1>13, <2>2 DEF TimesAgree, NothingIsPassedOver
  <2> QED BY <2>1, <2>2
<1>18. /\ pass' \in [Pass -> PassRow] /\ OneThingAtATime' /\ NotesAreAbout'
       /\ StartsAreClaimed' /\ TimesAgree' /\ NothingIsPassedOver' /\ AckedIsSettled'
  BY <1>2, <1>3, <1>4, <1>5, <1>10, <1>14, <1>16, <1>17, DecisionApplied
<1>19. TicketsHaveOrigins' /\ tickets' \in [Incident -> Nat]
  <2>1. tickets'[i] = 1 /\ \A j \in Incident \ {i} : tickets'[j] = tickets[j]
    BY <1>1, <1>3, <1>5, <1>6, <1>12 DEF TicketsHaveOrigins
  <2>2. \A j \in Incident : tickets'[j] = (IF origin'[j].known THEN 1 ELSE 0)
    BY <1>1, <1>7, <1>9, <2>1 DEF TicketsHaveOrigins
  <2> QED BY <1>3, <1>5, <1>6, <2>1, <2>2 DEF TicketsHaveOrigins
<1>20. RowTypeOK' /\ MemoryTypeOK' /\ HistoryTypeOK'
  BY <1>1, <1>2, <1>9, <1>10, <1>11, <1>18, <1>19
     DEF TypeOK, RowTypeOK, MemoryTypeOK, HistoryTypeOK
<1> QED BY <1>18, <1>19, <1>20 DEF ConnectorInv, TypeOK

\* An update claims the comment that was observed: the latest, or one of an
\* incident that has moved beyond the pass.
LEMMA ApplyUpdateKeeps ==
  ASSUME ConnectorInv, NEW p \in Pass, ApplyUpdate(p)
  PROVE  ConnectorInv'
<1>1. TypeOK /\ TimesAgree /\ NothingIsPassedOver /\ TicketsHaveOrigins
  BY DEF ConnectorInv
<1>2. /\ UNCHANGED <<now, foreign, enabled, failures, watermark, note, run, proposal>>
      /\ UNCHANGED <<tick, todo, current, asking, due, deliver, telling>>
      /\ UNCHANGED <<tickets, started, born, fetched, late, acts, runs, posts, acked, spent>>
      /\ pass[p].phase = "applying"
  BY DEF ApplyUpdate, Doing, foreignVars, historyVars
<1>3. PICK d \in pass[p].todo :
        /\ d.kind = "update"
        /\ origin' = [origin EXCEPT ![d.inc].seen = d.at]
        /\ ledger' = (IF d.trigger = NoTrigger THEN ledger ELSE Claimed(d.inc, d.trigger))
        /\ pass' = [pass EXCEPT ![p].todo = @ \ {d}]
  BY DEF ApplyUpdate
<1>4. PICK q \in PassRow : q = pass[p] /\ PassHolds(q) /\ PassTimes(q)
  BY <1>1 DEF TypeOK, MemoryTypeOK, NothingIsPassedOver, TimesAgree
<1>5. PICK i \in Incident : i = d.inc /\ d.at \in Time /\ d.trigger \in Trigger \cup {NoTrigger}
  BY <1>3, <1>4 DEF PassRow, Decision
<1>6. /\ origin \in [Incident -> Origin] /\ ledger \in [Incident -> [Trigger -> Outcome]]
      /\ \A j \in Incident : foreign[j].at \in Int /\ foreign[j].said \in Trigger
  <2>1. foreign \in [Incident -> Foreign] /\ \A x \in Foreign : x.at \in Int /\ x.said \in Trigger
    BY <1>1, Bounds DEF TypeOK, RowTypeOK, Foreign
  <2> QED BY <1>1, <2>1 DEF TypeOK, RowTypeOK
<1> DEFINE row == [origin[i] EXCEPT !.seen = d.at]
<1>7. /\ row \in Origin /\ row.known = origin[i].known /\ row.seen = d.at
      /\ row.written = origin[i].written /\ row.count = origin[i].count
  BY <1>5, <1>6 DEF Origin
<1>8. origin' = [origin EXCEPT ![i] = row]
  BY <1>3, <1>5, <1>6
<1> HIDE DEF row
<1>9. /\ origin' \in [Incident -> Origin] /\ origin'[i] = row
      /\ \A j \in Incident \ {i} : origin'[j] = origin[j]
  BY <1>6, <1>7, <1>8
<1>10. /\ ledger' \in [Incident -> [Trigger -> Outcome]]
       /\ \A j \in Incident : \A t \in Trigger :
            ledger[j][t] # "none" => ledger'[j][t] = ledger[j][t]
       /\ d.trigger # NoTrigger => ledger'[i][d.trigger] # "none"
  <2>1. CASE d.trigger \in Trigger
    BY <1>3, <1>5, <1>6, <2>1, Bounds, ClaimedRow
  <2>2. CASE d.trigger = NoTrigger
    BY <1>3, <1>6, <2>2
  <2> QED BY <1>5, <2>1, <2>2
<1>11. \A j \in Incident : origin'[j].known = origin[j].known /\ origin'[j].count = origin[j].count
  BY <1>7, <1>9
<1>12. SettledStays /\ \A j \in Incident : Owed(j)' => Owed(j)
  <2>1. \A j \in Incident : AtCeiling(j) => AtCeiling(j)'
    BY <1>11 DEF AtCeiling
  <2>2. \A j \in Incident : ledger[j][foreign[j].said] # "none"
                              => ledger'[j][foreign[j].said] # "none"
    BY <1>6, <1>10
  <2> QED BY <1>2, <1>11, <2>1, <2>2, SettledUnchanged
<1>13. /\ origin[i].known
       /\ i \notin late /\ foreign[i].said < d.at => d.trigger = foreign[i].said \/ ~Owed(i)
  BY <1>3, <1>4, <1>5 DEF PassHolds, DecisionsAreCurrent
<1>14. d.trigger = foreign[i].said => ~Owed(i)'
  <2>1. foreign[i].said # NoTrigger
    BY <1>6, Bounds
  <2> QED BY <1>2, <1>10, <2>1 DEF Owed
<1>15. Changed(i) /\ d.trigger = foreign[i].said => Settled(i)'
  BY <1>11, <1>13, <1>14 DEF Settled
<1>16. \A j \in Incident : /\ foreign[j].said < origin'[j].seen => ~Owed(j)'
                           /\ origin'[j].seen <= foreign[j].at
                           /\ origin'[j].written = origin[j].written
  <2> SUFFICES ASSUME NEW j \in Incident
      PROVE  /\ foreign[j].said < origin'[j].seen => ~Owed(j)'
             /\ origin'[j].seen <= foreign[j].at
             /\ origin'[j].written = origin[j].written
    OBVIOUS
  <2>1. CASE j = i
    <3>1. d.at <= foreign[i].at
      BY <1>3, <1>4, <1>5 DEF PassTimes
    <3>2. i \in late => ~Owed(i)'
      BY <1>2 DEF Owed
    <3> QED BY <1>7, <1>9, <1>12, <1>13, <1>14, <2>1, <3>1, <3>2
  <2>2. CASE j # i
    BY <1>1, <1>9, <1>12, <2>2 DEF TimesAgree, NothingIsPassedOver
  <2> QED BY <2>1, <2>2
<1>17. /\ pass' \in [Pass -> PassRow] /\ OneThingAtATime' /\ NotesAreAbout'
       /\ StartsAreClaimed' /\ TimesAgree' /\ NothingIsPassedOver' /\ AckedIsSettled'
  BY <1>2, <1>3, <1>4, <1>5, <1>10, <1>12, <1>15, <1>16, DecisionApplied
<1>18. TicketsHaveOrigins'
  BY <1>1, <1>2, <1>11, TicketsStay
<1>19. RowTypeOK' /\ MemoryTypeOK' /\ HistoryTypeOK'
  BY <1>1, <1>2, <1>9, <1>10, <1>17 DEF TypeOK, RowTypeOK, MemoryTypeOK, HistoryTypeOK
<1> QED BY <1>17, <1>18, <1>19 DEF ConnectorInv, TypeOK

\* The watermark moves to what the pass has seen, when all of it is settled.
LEMMA SucceedKeeps ==
  ASSUME ConnectorInv, NEW p \in Pass, Succeed(p)
  PROVE  ConnectorInv'
<1>1. TypeOK /\ OneThingAtATime /\ TimesAgree /\ NothingIsPassedOver
  BY DEF ConnectorInv
<1>2. /\ UNCHANGED <<now, foreign, enabled, origin, ledger, note, run, proposal>>
      /\ UNCHANGED <<todo, current, asking, due, deliver, telling>>
      /\ UNCHANGED <<tickets, started, born, fetched, late, acts, runs, posts, acked, spent>>
      /\ pass[p].phase = "applying" /\ pass[p].todo = {} /\ EndPass(p)
      /\ watermark' = Marked(p) /\ failures' = 0
  BY DEF Succeed, Doing, Everything, foreignVars, historyVars
<1>3. PICK q \in PassRow : q = pass[p] /\ PassHolds(q) /\ PassTimes(q)
  BY <1>1 DEF TypeOK, MemoryTypeOK, NothingIsPassedOver, TimesAgree
<1>4. Advances(p, NoPass)
  BY <1>1, <1>2, PassHoldsTick, EndPassAdvances
<1>5. NoPass \in PassRow /\ PassHolds(NoPass) /\ PassTimes(NoPass)
  BY <1>1, NoPassIsEmpty, EmptyPassHolds DEF EmptyPass
<1>6. SettledStays /\ \A i \in Incident : Owed(i)' => Owed(i)
  BY <1>2, RowsStaySettled
<1>7. /\ pass' \in [Pass -> PassRow]
      /\ \A s \in Pass : PassHolds(pass'[s]) /\ PassTimes(pass'[s])
  BY <1>4, <1>5, PassMoves DEF Advances
<1>8. SettledUpTo(q.mark)
  BY <1>2, <1>3 DEF PassHolds, DecisionsCover, SettledUpTo
<1>9. watermark' \in Time /\ watermark' <= fetched /\ SettledUpTo(watermark')
  BY <1>1, <1>2, <1>3, <1>8
     DEF Marked, TypeOK, RowTypeOK, TimesAgree, NothingIsPassedOver, PassTimes, PassRow
<1>10. SettledUpTo(watermark)'
  BY <1>2, <1>6, <1>9 DEF SettledUpTo, SettledStays, Changed
<1>11. \A s \in Pass : PassHolds(pass[s])'
  BY <1>2, <1>6, <1>7, PassesKept
<1>12. NothingIsPassedOver'
  BY <1>1, <1>2, <1>6, <1>10, <1>11 DEF NothingIsPassedOver
<1>13. TimesAgree'
  BY <1>1, <1>2, <1>7, <1>9 DEF TimesAgree, PassTimes
<1>14. OneThingAtATime'
  BY <1>1, <1>2, <1>4, OneThingInPass
<1>15. NotesAreAbout' /\ TicketsHaveOrigins' /\ StartsAreClaimed' /\ AckedIsSettled'
  BY <1>2, NotesStay, TicketsStay, StartsStay, AckedStays DEF ConnectorInv
<1>16. RowTypeOK' /\ MemoryTypeOK' /\ HistoryTypeOK'
  BY <1>1, <1>2, <1>4, <1>7, <1>9 DEF TypeOK, RowTypeOK, MemoryTypeOK, HistoryTypeOK, Advances
<1> QED BY <1>12, <1>13, <1>14, <1>15, <1>16 DEF ConnectorInv, TypeOK

-----------------------------------------------------------------------------
(* The dispatch sweep.                                                      *)

\* A step that moves no incident, no pass and no note: a row of the ledger may
\* say more than it did, an origin may reach the ceiling.
LEMMA DispatchStep ==
  ASSUME ConnectorInv,
         UNCHANGED <<now, foreign, watermark, note, pass, due, deliver, tickets, born, fetched,
                     late, acked>>,
         spent'["retry"] = spent["retry"],
         \A i \in Incident : /\ origin'[i].known = origin[i].known
                             /\ origin'[i].seen = origin[i].seen
                             /\ origin'[i].written = origin[i].written
                             /\ AtCeiling(i) => AtCeiling(i)',
         \A i \in Incident : \A t \in Trigger : ledger[i][t] # "none" => ledger'[i][t] # "none"
  PROVE  /\ NotesAreAbout' /\ TicketsHaveOrigins' /\ TimesAgree' /\ NothingIsPassedOver'
         /\ AckedIsSettled'
<1>1. TypeOK
  BY DEF ConnectorInv
<1>2. \A i \in Incident : foreign[i].said \in Trigger
  <2>1. foreign \in [Incident -> Foreign] /\ \A x \in Foreign : x.said \in Trigger
    BY <1>1, Bounds DEF TypeOK, RowTypeOK, Foreign
  <2> QED BY <2>1
<1>3. SettledStays /\ \A i \in Incident : Owed(i)' => Owed(i)
  BY <1>2, SettledUnchanged
<1>4. NothingIsPassedOver'
  <2>1. pass' \in [Pass -> PassRow] /\ \A p \in Pass : PassHolds(pass'[p])
    BY <1>1 DEF ConnectorInv, TypeOK, MemoryTypeOK, NothingIsPassedOver
  <2> QED BY <1>3, <2>1, PassedStays DEF ConnectorInv
<1>5. TimesAgree'
  BY DEF ConnectorInv, TimesAgree, PassTimes
<1>6. NotesAreAbout' /\ TicketsHaveOrigins' /\ AckedIsSettled'
  BY NotesStay, TicketsStay, AckedStays DEF ConnectorInv
<1> QED BY <1>4, <1>5, <1>6

\* The tick goes from one thing to the next when the one is done.
LEMMA TickMoves ==
  ASSUME OneThingAtATime, UNCHANGED <<pass, current, deliver>>, tick # "sync",
         deliver["sweep"].phase = "idle", current.step = "none"
  PROVE  OneThingAtATime'
BY DEF OneThingAtATime

\* A step of the tick that touches no row.
LEMMA TickOnly ==
  ASSUME ConnectorInv,
         UNCHANGED <<now, foreign, enabled, failures, watermark, origin, ledger, note, run>>,
         UNCHANGED <<pass, todo, current, due, deliver, telling>>,
         UNCHANGED <<tickets, started, born, fetched, late, posts, acked>>,
         proposal' \subseteq proposal, asking' \subseteq Incident,
         tick' \in {"rest", "sync", "dispatch", "starting", "backfill", "asking", "select",
                    "notes"},
         spent' \in [Disturbance -> Nat], spent'["crash"] = spent["crash"],
         spent'["retry"] = spent["retry"],
         OneThingAtATime'
  PROVE  ConnectorInv'
<1>1. TypeOK
  BY DEF ConnectorInv
<1>2. \A i \in Incident : AtCeiling(i) => AtCeiling(i)'
  BY DEF AtCeiling
<1>3. /\ NotesAreAbout' /\ TicketsHaveOrigins' /\ TimesAgree' /\ NothingIsPassedOver'
      /\ AckedIsSettled'
  BY <1>2, DispatchStep
<1>4. StartsAreClaimed'
  BY StartsStay DEF ConnectorInv
<1>5. RowTypeOK' /\ MemoryTypeOK' /\ HistoryTypeOK'
  <2>1. proposal' \subseteq Incident
    BY <1>1 DEF TypeOK, RowTypeOK
  <2> QED BY <1>1, <2>1 DEF TypeOK, RowTypeOK, MemoryTypeOK, HistoryTypeOK
<1> QED BY <1>3, <1>4, <1>5 DEF ConnectorInv, TypeOK

\* A tick starts, and goes from step to step.
LEMMA TickGoesOnKeeps ==
  ASSUME ConnectorInv,
         \/ TickStarts \/ DispatchDone \/ SelectProposals \/ BackfillDone \/ SweepDone
         \/ \E i \in Incident : AskOutcome(i)
  PROVE  ConnectorInv'
<1>1. TypeOK /\ OneThingAtATime
  BY DEF ConnectorInv
<1>2. /\ UNCHANGED <<now, foreign, enabled, failures, watermark, origin, ledger, note, run>>
      /\ UNCHANGED <<pass, todo, current, due, deliver, telling>>
      /\ UNCHANGED <<tickets, started, born, fetched, late, posts, acked, spent>>
  BY DEF TickStarts, DispatchDone, SelectProposals, BackfillDone, SweepDone, AskOutcome,
         foreignVars, rowVars, historyVars
<1>3. proposal' \subseteq proposal /\ asking' \subseteq Incident
  <2>1. proposal \subseteq Incident /\ asking \subseteq Incident
    BY <1>1 DEF TypeOK, RowTypeOK, MemoryTypeOK
  <2>2. CASE \E i \in Incident : AskOutcome(i)
    BY <2>1, <2>2 DEF AskOutcome
  <2>3. CASE TickStarts \/ DispatchDone \/ SelectProposals \/ BackfillDone \/ SweepDone
    BY <2>1, <2>3 DEF TickStarts, DispatchDone, SelectProposals, BackfillDone, SweepDone, rowVars
  <2> QED BY <2>2, <2>3
<1>4. tick' \in {"rest", "sync", "dispatch", "starting", "backfill", "asking", "select", "notes"}
  BY <1>1 DEF TickStarts, DispatchDone, SelectProposals, BackfillDone, SweepDone, AskOutcome,
              TypeOK, MemoryTypeOK
<1>5. OneThingAtATime'
  <2>1. CASE TickStarts \/ SelectProposals \/ BackfillDone
    <3>1. tick \notin {"sync", "notes", "starting"}
      BY <2>1 DEF TickStarts, SelectProposals, BackfillDone
    <3> QED BY <1>1, <1>2, <3>1, TickMoves DEF OneThingAtATime
  <2>2. CASE DispatchDone
    <3>1. tick = "starting" /\ todo = {}
      BY <2>2 DEF DispatchDone
    <3> QED BY <1>1, <1>2, <3>1, TickMoves DEF OneThingAtATime
  <2>3. CASE SweepDone
    <3>1. tick = "notes" /\ deliver["sweep"].phase = "idle"
      BY <2>3 DEF SweepDone
    <3> QED BY <1>1, <1>2, <3>1, TickMoves DEF OneThingAtATime
  <2>4. CASE \E i \in Incident : AskOutcome(i)
    <3>1. UNCHANGED tick
      BY <2>4 DEF AskOutcome
    <3> QED BY <1>1, <1>2, <3>1, OneThingStays
  <2> QED BY <2>1, <2>2, <2>3, <2>4
<1>6. spent' \in [Disturbance -> Nat]
  BY <1>1, <1>2 DEF TypeOK, HistoryTypeOK
<1> QED BY <1>2, <1>3, <1>4, <1>5, <1>6, TickOnly

\* A failed question ends the tick.
LEMMA AskFailsKeeps ==
  ASSUME ConnectorInv, NEW i \in Incident, AskFails(i)
  PROVE  ConnectorInv'
<1>1. TypeOK /\ OneThingAtATime
  BY DEF ConnectorInv
<1>2. /\ UNCHANGED <<now, foreign, enabled, failures, watermark, origin, ledger, note, run,
                     proposal>>
      /\ UNCHANGED <<pass, todo, current, due, deliver, telling>>
      /\ UNCHANGED <<tickets, started, born, fetched, late, posts, acked>>
      /\ tick = "asking" /\ tick' = "rest" /\ asking' = {}
      /\ spent' = spent \/ Spend("fault")
  BY DEF AskFails, AfterAskFails, foreignVars, rowVars, historyVars
<1>3. /\ spent' \in [Disturbance -> Nat] /\ spent'["crash"] = spent["crash"]
      /\ spent'["retry"] = spent["retry"]
  <2>1. CASE UNCHANGED spent
    BY <1>1, <2>1 DEF TypeOK, HistoryTypeOK
  <2>2. CASE Spend("fault")
    BY <1>1, <2>2, SpendCounts DEF TypeOK, Disturbance
  <2> QED BY <1>2, <2>1, <2>2
<1>4. OneThingAtATime'
  BY <1>1, <1>2, TickMoves DEF OneThingAtATime
<1> QED BY <1>2, <1>3, <1>4, TickOnly

\* The sweep takes the deferred rows in hand.
LEMMA SelectDeferredKeeps == ConnectorInv /\ SelectDeferred => ConnectorInv'
<1> SUFFICES ASSUME ConnectorInv, SelectDeferred PROVE ConnectorInv'
  OBVIOUS
<1>1. TypeOK /\ OneThingAtATime /\ StartsAreClaimed
  BY DEF ConnectorInv
<1>2. /\ UNCHANGED <<now, foreign, enabled, failures, watermark, origin, ledger, note, run,
                     proposal>>
      /\ UNCHANGED <<pass, current, asking, due, deliver, telling>>
      /\ UNCHANGED <<tickets, started, born, fetched, late, posts, acked, spent>>
      /\ tick = "dispatch" /\ tick' \in {"starting", "backfill"} /\ todo' \in {Deferred, todo}
  BY DEF SelectDeferred, foreignVars, rowVars, historyVars
<1>3. OneThingAtATime' /\ current.step = "none" /\ current.rows = {}
  BY <1>1, <1>2, TickMoves DEF OneThingAtATime
<1>4. /\ NotesAreAbout' /\ TicketsHaveOrigins' /\ TimesAgree' /\ NothingIsPassedOver'
      /\ AckedIsSettled'
  BY <1>2, DispatchStep DEF AtCeiling
<1>5. StartsAreClaimed'
  BY <1>1, <1>2, <1>3 DEF StartsAreClaimed, Deferred
<1>6. RowTypeOK' /\ MemoryTypeOK' /\ HistoryTypeOK'
  BY <1>1, <1>2 DEF TypeOK, RowTypeOK, MemoryTypeOK, HistoryTypeOK, Deferred
<1> QED BY <1>3, <1>4, <1>5, <1>6 DEF ConnectorInv, TypeOK

\* A row in the sweep's hands before its start was not started, and is not yet
\* anything else.
LEMMA NotYetStarted ==
  ASSUME ConnectorInv, tick = "starting", current = NoCurrent, NEW x \in todo
  PROVE  /\ x \in Incident \X Trigger /\ ledger[x[1]][x[2]] = "deferred"
         /\ spent["crash"] = 0 => started[x[1]][x[2]] = 0
         /\ \A y \in todo : ledger[y[1]][y[2]] = "deferred"
<1>1. x \in Incident \X Trigger
  BY DEF ConnectorInv, TypeOK, MemoryTypeOK
<1>2. current.step = "none" /\ current.rows = {}
  BY DEF NoCurrent
<1> QED BY <1>1, <1>2 DEF ConnectorInv, StartsAreClaimed

\* A run is started for a row, or a person takes the ticket over: either way
\* the row is to be recorded.
LEMMA StartKeeps ==
  ASSUME ConnectorInv, NEW x \in Incident \X Trigger, StartRun(x) \/ SettledByRule(x)
  PROVE  ConnectorInv'
<1>1. TypeOK /\ OneThingAtATime /\ StartsAreClaimed
  BY DEF ConnectorInv
<1>2. /\ UNCHANGED <<now, foreign, enabled, failures, watermark, origin, ledger, note, proposal>>
      /\ UNCHANGED <<tick, pass, todo, asking, due, deliver, telling>>
      /\ UNCHANGED <<tickets, born, fetched, late, posts, acked, spent>>
      /\ tick = "starting" /\ x \in todo /\ current = NoCurrent
      /\ current' = [step |-> "started", rows |-> {x}]
  BY DEF StartRun, SettledByRule, foreignVars, rowVars, historyVars
<1>3. /\ started' = started \/ started' = [started EXCEPT ![x[1]][x[2]] = @ + 1]
      /\ run' = run \/ run' = [run EXCEPT ![x[1]] = "running"]
  BY DEF StartRun, SettledByRule, rowVars, historyVars
<1>4. current'.step = "started" /\ current'.rows = {x}
  BY <1>2
<1>5. OneThingAtATime'
  BY <1>1, <1>2, <1>4 DEF OneThingAtATime
<1>6. /\ spent["crash"] = 0 => started[x[1]][x[2]] = 0
      /\ \A y \in todo : ledger[y[1]][y[2]] = "deferred"
  BY <1>2, NotYetStarted
<1>7. /\ started' \in [Incident -> [Trigger -> Nat]]
      /\ started'[x[1]][x[2]] \in {started[x[1]][x[2]], started[x[1]][x[2]] + 1}
      /\ \A y \in Incident \X Trigger : y # x => started'[y[1]][y[2]] = started[y[1]][y[2]]
  <2>1. started \in [Incident -> [Trigger -> Nat]]
    BY <1>1 DEF TypeOK, HistoryTypeOK
  <2>2. CASE started' = started
    BY <2>1, <2>2
  <2>3. CASE started' = [started EXCEPT ![x[1]][x[2]] = @ + 1]
    BY <2>1, <2>3
  <2> QED BY <1>3, <2>2, <2>3
<1>8. StartsAreClaimed'
  <2>1. \A y \in todo' : ledger'[y[1]][y[2]] =
          (IF y \in current'.rows /\ current'.step = "recorded" THEN "dispatched" ELSE "deferred")
    BY <1>2, <1>4, <1>6
  <2>2. ASSUME spent'["crash"] = 0, NEW y \in Incident \X Trigger
        PROVE  \/ started'[y[1]][y[2]] = 0
               \/ started'[y[1]][y[2]] = 1 /\ y \in current'.rows
               \/ /\ started'[y[1]][y[2]] = 1 /\ y \notin todo'
                  /\ ledger'[y[1]][y[2]] \in {"dispatched", "refused"}
    <3>1. CASE y = x
      BY <1>2, <1>4, <1>6, <1>7, <2>2, <3>1
    <3>2. CASE y # x
      <4>1. current.rows = {}
        BY <1>2 DEF NoCurrent
      <4> QED BY <1>1, <1>2, <1>7, <2>2, <3>2, <4>1 DEF StartsAreClaimed
    <3> QED BY <3>1, <3>2
  <2> QED BY <2>1, <2>2 DEF StartsAreClaimed
<1>9. /\ NotesAreAbout' /\ TicketsHaveOrigins' /\ TimesAgree' /\ NothingIsPassedOver'
      /\ AckedIsSettled'
  BY <1>2, DispatchStep DEF AtCeiling
<1>10. RowTypeOK' /\ MemoryTypeOK' /\ HistoryTypeOK'
  <2>1. run' \in [Incident -> {"none", "running", "ended"}]
    BY <1>1, <1>3 DEF TypeOK, RowTypeOK
  <2>2. current' \in [step : {"none", "started", "recorded"}, rows : SUBSET (Incident \X Trigger)]
    BY <1>2
  <2> QED BY <1>1, <1>2, <1>7, <2>1, <2>2 DEF TypeOK, RowTypeOK, MemoryTypeOK, HistoryTypeOK
<1> QED BY <1>5, <1>8, <1>9, <1>10 DEF ConnectorInv, TypeOK

\* A row is refused, or waits for the next sweep.
LEMMA LetGoKeeps ==
  ASSUME ConnectorInv, NEW x \in Incident \X Trigger, StartRefused(x) \/ WorkerGone(x)
  PROVE  ConnectorInv'
<1>1. TypeOK /\ OneThingAtATime /\ StartsAreClaimed
  BY DEF ConnectorInv
<1>2. /\ UNCHANGED <<now, foreign, enabled, failures, watermark, origin, note, run, proposal>>
      /\ UNCHANGED <<tick, pass, current, asking, due, deliver, telling>>
      /\ UNCHANGED <<tickets, started, born, fetched, late, posts, acked, spent>>
      /\ tick = "starting" /\ x \in todo /\ current = NoCurrent /\ todo' = todo \ {x}
      /\ ledger' = ledger \/ ledger' = [ledger EXCEPT ![x[1]][x[2]] = "refused"]
  BY DEF StartRefused, WorkerGone, foreignVars, rowVars, historyVars
<1>3. current.step = "none" /\ current.rows = {}
  BY <1>2 DEF NoCurrent
<1>4. OneThingAtATime'
  BY <1>1, <1>2, <1>3 DEF OneThingAtATime
<1>5. /\ spent["crash"] = 0 => started[x[1]][x[2]] = 0
      /\ \A y \in todo : ledger[y[1]][y[2]] = "deferred"
  BY <1>2, NotYetStarted
<1>6. /\ ledger' \in [Incident -> [Trigger -> Outcome]]
      /\ ledger'[x[1]][x[2]] \in {ledger[x[1]][x[2]], "refused"}
      /\ \A y \in Incident \X Trigger : y # x => ledger'[y[1]][y[2]] = ledger[y[1]][y[2]]
      /\ \A i \in Incident : \A t \in Trigger : ledger[i][t] # "none" => ledger'[i][t] # "none"
  <2>1. ledger \in [Incident -> [Trigger -> Outcome]]
    BY <1>1 DEF TypeOK, RowTypeOK
  <2>2. CASE ledger' = ledger
    BY <2>1, <2>2
  <2>3. CASE ledger' = [ledger EXCEPT ![x[1]][x[2]] = "refused"]
    BY <2>1, <2>3 DEF Outcome
  <2> QED BY <1>2, <2>2, <2>3
<1>7. StartsAreClaimed'
  <2>1. todo \subseteq Incident \X Trigger
    BY <1>1 DEF TypeOK, MemoryTypeOK
  <2>2. \A y \in todo' : ledger'[y[1]][y[2]] = "deferred"
    BY <1>2, <1>5, <1>6, <2>1
  <2>3. ASSUME spent'["crash"] = 0, NEW y \in Incident \X Trigger
        PROVE  \/ started'[y[1]][y[2]] = 0
               \/ started'[y[1]][y[2]] = 1 /\ y \in current'.rows
               \/ /\ started'[y[1]][y[2]] = 1 /\ y \notin todo'
                  /\ ledger'[y[1]][y[2]] \in {"dispatched", "refused"}
    <3>1. CASE y = x
      BY <1>2, <1>5, <2>3, <3>1
    <3>2. CASE y # x
      BY <1>1, <1>2, <1>3, <1>6, <2>3, <3>2 DEF StartsAreClaimed
    <3> QED BY <3>1, <3>2
  <2> QED BY <1>2, <1>3, <2>2, <2>3 DEF StartsAreClaimed
<1>8. /\ NotesAreAbout' /\ TicketsHaveOrigins' /\ TimesAgree' /\ NothingIsPassedOver'
      /\ AckedIsSettled'
  BY <1>2, <1>6, DispatchStep DEF AtCeiling
<1>9. RowTypeOK' /\ MemoryTypeOK' /\ HistoryTypeOK'
  BY <1>1, <1>2, <1>6 DEF TypeOK, RowTypeOK, MemoryTypeOK, HistoryTypeOK
<1> QED BY <1>4, <1>7, <1>8, <1>9 DEF ConnectorInv, TypeOK

\* What was started is recorded,
LEMMA RecordDispatchKeeps == ConnectorInv /\ RecordDispatch => ConnectorInv'
<1> SUFFICES ASSUME ConnectorInv, RecordDispatch PROVE ConnectorInv'
  OBVIOUS
<1>1. TypeOK /\ OneThingAtATime /\ StartsAreClaimed
  BY DEF ConnectorInv
<1>2. /\ UNCHANGED <<now, foreign, enabled, failures, watermark, origin, note, run, proposal>>
      /\ UNCHANGED <<tick, pass, todo, asking, due, deliver, telling>>
      /\ UNCHANGED <<tickets, started, born, fetched, late, posts, acked, spent>>
      /\ current.step = "started" /\ current' = [current EXCEPT !.step = "recorded"]
  BY DEF RecordDispatch, foreignVars, historyVars
<1>3. PICK x \in todo : /\ current.rows = {x} /\ x \in Incident \X Trigger
                        /\ ledger' = [ledger EXCEPT ![x[1]][x[2]] = "dispatched"]
  <2>1. PICK x \in todo : current.rows = {x}
    BY <1>1, <1>2 DEF OneThingAtATime
  <2>2. x \in Incident \X Trigger
    BY <1>1 DEF TypeOK, MemoryTypeOK
  <2>3. ledger' = [ledger EXCEPT ![x[1]][x[2]] = "dispatched"]
    BY <2>1 DEF RecordDispatch, Recorded
  <2> QED BY <2>1, <2>2, <2>3
<1>4. current'.step = "recorded" /\ current'.rows = {x}
      /\ current' \in [step : {"none", "started", "recorded"}, rows : SUBSET (Incident \X Trigger)]
  BY <1>1, <1>2, <1>3 DEF TypeOK, MemoryTypeOK
<1>5. OneThingAtATime'
  BY <1>1, <1>2, <1>4 DEF OneThingAtATime
<1>6. /\ ledger' \in [Incident -> [Trigger -> Outcome]]
      /\ ledger'[x[1]][x[2]] = "dispatched"
      /\ \A y \in Incident \X Trigger : y # x => ledger'[y[1]][y[2]] = ledger[y[1]][y[2]]
      /\ \A i \in Incident : \A t \in Trigger : ledger[i][t] # "none" => ledger'[i][t] # "none"
  BY <1>1, <1>3 DEF TypeOK, RowTypeOK, Outcome
<1>7. StartsAreClaimed'
  <2>1. todo \subseteq Incident \X Trigger
    BY <1>1 DEF TypeOK, MemoryTypeOK
  <2>2. \A y \in todo : y # x => ledger'[y[1]][y[2]] = "deferred"
    BY <1>1, <1>2, <1>6, <2>1 DEF StartsAreClaimed
  <2>3. ASSUME spent'["crash"] = 0, NEW y \in Incident \X Trigger
        PROVE  \/ started'[y[1]][y[2]] = 0
               \/ started'[y[1]][y[2]] = 1 /\ y \in current'.rows
               \/ /\ started'[y[1]][y[2]] = 1 /\ y \notin todo'
                  /\ ledger'[y[1]][y[2]] \in {"dispatched", "refused"}
    BY <1>1, <1>2, <1>3, <1>4, <1>6, <2>3 DEF StartsAreClaimed
  <2> QED BY <1>2, <1>4, <1>6, <2>2, <2>3 DEF StartsAreClaimed
<1>8. /\ NotesAreAbout' /\ TicketsHaveOrigins' /\ TimesAgree' /\ NothingIsPassedOver'
      /\ AckedIsSettled'
  BY <1>2, <1>6, DispatchStep DEF AtCeiling
<1>9. RowTypeOK' /\ MemoryTypeOK' /\ HistoryTypeOK'
  BY <1>1, <1>2, <1>4, <1>6 DEF TypeOK, RowTypeOK, MemoryTypeOK, HistoryTypeOK
<1> QED BY <1>5, <1>7, <1>8, <1>9 DEF ConnectorInv, TypeOK

\* then counted on the origin, and the sweep lets go of it.
LEMMA CountDispatchKeeps == ConnectorInv /\ CountDispatch => ConnectorInv'
<1> SUFFICES ASSUME ConnectorInv, CountDispatch PROVE ConnectorInv'
  OBVIOUS
<1>1. TypeOK /\ OneThingAtATime /\ StartsAreClaimed
  BY DEF ConnectorInv
<1>2. /\ UNCHANGED <<now, foreign, enabled, failures, watermark, ledger, note, run, proposal>>
      /\ UNCHANGED <<tick, pass, asking, due, deliver, telling>>
      /\ UNCHANGED <<tickets, started, born, fetched, late, posts, acked, spent>>
      /\ current.step = "recorded" /\ current' = NoCurrent /\ todo' = todo \ current.rows
  BY DEF CountDispatch, foreignVars, historyVars
<1>3. PICK x \in todo :
        /\ current.rows = {x} /\ x \in Incident \X Trigger
        /\ origin' = [origin EXCEPT ![x[1]].count =
                        IF @ < DispatchCeiling THEN @ + 1 ELSE @]
  <2>1. PICK x \in todo : current.rows = {x}
    BY <1>1, <1>2 DEF OneThingAtATime
  <2>2. x \in Incident \X Trigger
    BY <1>1 DEF TypeOK, MemoryTypeOK
  <2>3. origin' = [origin EXCEPT ![x[1]].count = IF @ < DispatchCeiling THEN @ + 1 ELSE @]
    BY <2>1 DEF CountDispatch
  <2> QED BY <2>1, <2>2, <2>3
<1>4. current'.step = "none" /\ current'.rows = {}
  BY <1>2 DEF NoCurrent
<1>5. OneThingAtATime'
  BY <1>1, <1>2, <1>4 DEF OneThingAtATime
<1>6. /\ origin' \in [Incident -> Origin]
      /\ \A i \in Incident : /\ origin'[i].known = origin[i].known
                             /\ origin'[i].seen = origin[i].seen
                             /\ origin'[i].written = origin[i].written
                             /\ origin[i].count >= DispatchCeiling
                                  => origin'[i].count >= DispatchCeiling
  <2> DEFINE n == IF origin[x[1]].count < DispatchCeiling THEN origin[x[1]].count + 1
                  ELSE origin[x[1]].count
             row == [origin[x[1]] EXCEPT !.count = n]
  <2>1. origin \in [Incident -> Origin] /\ x[1] \in Incident
    BY <1>1, <1>3 DEF TypeOK, RowTypeOK
  <2>2. n \in Nat /\ (origin[x[1]].count >= DispatchCeiling => n >= DispatchCeiling)
    BY <2>1, Bounds DEF Origin
  <2>3. origin' = [origin EXCEPT ![x[1]] = row]
    BY <1>3, <2>1
  <2> HIDE DEF n
  <2>4. /\ row \in Origin /\ row.known = origin[x[1]].known /\ row.seen = origin[x[1]].seen
        /\ row.written = origin[x[1]].written /\ row.count = n
    BY <2>1, <2>2 DEF Origin
  <2> HIDE DEF row
  <2> QED BY <2>1, <2>2, <2>3, <2>4
<1>7. StartsAreClaimed'
  <2>1. todo \subseteq Incident \X Trigger /\ ledger[x[1]][x[2]] = "dispatched"
    BY <1>1, <1>2, <1>3 DEF TypeOK, MemoryTypeOK, StartsAreClaimed
  <2>2. \A y \in todo' : ledger'[y[1]][y[2]] = "deferred"
    BY <1>1, <1>2, <1>3 DEF StartsAreClaimed
  <2>3. ASSUME spent'["crash"] = 0, NEW y \in Incident \X Trigger
        PROVE  \/ started'[y[1]][y[2]] = 0
               \/ started'[y[1]][y[2]] = 1 /\ y \in current'.rows
               \/ /\ started'[y[1]][y[2]] = 1 /\ y \notin todo'
                  /\ ledger'[y[1]][y[2]] \in {"dispatched", "refused"}
    BY <1>1, <1>2, <1>3, <2>1, <2>3 DEF StartsAreClaimed
  <2> QED BY <1>4, <2>2, <2>3 DEF StartsAreClaimed
<1>8. /\ NotesAreAbout' /\ TicketsHaveOrigins' /\ TimesAgree' /\ NothingIsPassedOver'
      /\ AckedIsSettled'
  BY <1>2, <1>6, DispatchStep DEF AtCeiling
<1>9. RowTypeOK' /\ MemoryTypeOK' /\ HistoryTypeOK'
  <2>1. current' \in [step : {"none", "started", "recorded"}, rows : SUBSET (Incident \X Trigger)]
    BY <1>2 DEF NoCurrent
  <2> QED BY <1>1, <1>2, <1>6, <2>1 DEF TypeOK, RowTypeOK, MemoryTypeOK, HistoryTypeOK
<1> QED BY <1>5, <1>7, <1>8, <1>9 DEF ConnectorInv, TypeOK

-----------------------------------------------------------------------------
(* The work notes.                                                          *)

\* A step of the runs and notes: it moves no incident and no pass, and of an
\* origin at most the timestamp our note produced.
LEMMA NoteStep ==
  ASSUME ConnectorInv,
         UNCHANGED <<now, foreign, watermark, ledger, pass, todo, current, tickets, started,
                     born, fetched, late>>,
         spent'["crash"] = spent["crash"],
         \A i \in Incident : /\ origin'[i].known = origin[i].known
                             /\ origin'[i].seen = origin[i].seen
                             /\ origin'[i].count = origin[i].count
                             /\ origin'[i].written <= foreign[i].at,
         \A d \in Deliverer : deliver'[d].phase \in {"posted", "echo"} =>
           deliver'[d].at <= foreign[note'[deliver'[d].note].inc].at
  PROVE  TicketsHaveOrigins' /\ StartsAreClaimed' /\ TimesAgree' /\ NothingIsPassedOver'
<1>1. TypeOK
  BY DEF ConnectorInv
<1>2. SettledStays /\ \A i \in Incident : Owed(i)' => Owed(i)
  BY SettledUnchanged DEF AtCeiling
<1>3. NothingIsPassedOver'
  <2>1. pass' \in [Pass -> PassRow] /\ \A p \in Pass : PassHolds(pass'[p])
    BY <1>1 DEF ConnectorInv, TypeOK, MemoryTypeOK, NothingIsPassedOver
  <2> QED BY <1>2, <2>1, PassedStays DEF ConnectorInv
<1>4. TimesAgree'
  BY DEF ConnectorInv, TimesAgree, PassTimes
<1>5. TicketsHaveOrigins' /\ StartsAreClaimed'
  BY TicketsStay, StartsStay DEF ConnectorInv
<1> QED BY <1>3, <1>4, <1>5

\* The origins are where they were, and so are the times of the deliveries.
LEMMA OriginsStand ==
  ASSUME ConnectorInv
  PROVE  /\ \A i \in Incident : origin[i].written <= foreign[i].at
         /\ \A d \in Deliverer : deliver[d].phase \in {"posted", "echo"} =>
              deliver[d].at <= foreign[note[deliver[d].note].inc].at
BY DEF ConnectorInv, TimesAgree

\* A run ends, and what it found is on its way.
LEMMA RunEndsKeeps ==
  ASSUME ConnectorInv, NEW i \in Incident,
         (\E b \in BOOLEAN : RunEnds(i, b)) \/ RecordProposal(i)
  PROVE  ConnectorInv'
<1>1. TypeOK
  BY DEF ConnectorInv
<1>2. /\ UNCHANGED <<now, foreign, enabled, failures, watermark, origin, ledger, note>>
      /\ UNCHANGED <<tick, pass, todo, current, asking, due, deliver>>
      /\ UNCHANGED <<tickets, started, born, fetched, late, posts, acked, spent>>
  BY DEF RunEnds, RecordProposal, foreignVars, memoryVars, historyVars
<1>3. /\ run' \in [Incident -> {"none", "running", "ended"}] /\ proposal' \subseteq Incident
      /\ telling' \subseteq Incident
  <2>1. CASE \E b \in BOOLEAN : RunEnds(i, b)
    BY <1>1, <2>1 DEF RunEnds, TypeOK, RowTypeOK, MemoryTypeOK
  <2>2. CASE RecordProposal(i)
    BY <1>1, <2>2 DEF RecordProposal, memoryVars, TypeOK, RowTypeOK, MemoryTypeOK
  <2> QED BY <2>1, <2>2
<1>4. TicketsHaveOrigins' /\ StartsAreClaimed' /\ TimesAgree' /\ NothingIsPassedOver'
  BY <1>2, OriginsStand, NoteStep
<1>5. OneThingAtATime' /\ NotesAreAbout' /\ AckedIsSettled'
  BY <1>2, OneThingStays, NotesStay, AckedStays DEF ConnectorInv
<1>6. RowTypeOK' /\ MemoryTypeOK' /\ HistoryTypeOK'
  BY <1>1, <1>2, <1>3 DEF TypeOK, RowTypeOK, MemoryTypeOK, HistoryTypeOK
<1> QED BY <1>4, <1>5, <1>6 DEF ConnectorInv, TypeOK

\* A note is queued in a row nothing was said in.
LEMMA QueueNoteKeeps ==
  ASSUME ConnectorInv, NEW i \in Incident, QueueNote(i)
  PROVE  ConnectorInv'
<1>1. TypeOK /\ NotesAreAbout /\ AckedIsSettled /\ OneThingAtATime
  BY DEF ConnectorInv
<1>2. /\ UNCHANGED <<now, foreign, enabled, failures, watermark, origin, ledger, run, proposal>>
      /\ UNCHANGED <<tick, pass, todo, current, asking, due, deliver>>
      /\ UNCHANGED <<tickets, started, born, fetched, late, posts, acked, spent>>
      /\ telling' = telling \ {i}
  BY DEF QueueNote, foreignVars, historyVars
<1>3. CASE UNCHANGED note
  <2>1. TicketsHaveOrigins' /\ StartsAreClaimed' /\ TimesAgree' /\ NothingIsPassedOver'
    BY <1>2, <1>3, OriginsStand, NoteStep
  <2>2. OneThingAtATime' /\ NotesAreAbout' /\ AckedIsSettled'
    BY <1>2, <1>3, OneThingStays, NotesStay, AckedStays DEF ConnectorInv
  <2>3. RowTypeOK' /\ MemoryTypeOK' /\ HistoryTypeOK'
    BY <1>1, <1>2, <1>3 DEF TypeOK, RowTypeOK, MemoryTypeOK, HistoryTypeOK
  <2> QED BY <2>1, <2>2, <2>3 DEF ConnectorInv, TypeOK
<1>4. ASSUME NEW n \in Note, note[n].status = "absent",
             note' = [note EXCEPT ![n].status = "pending", ![n].inc = i]
      PROVE  ConnectorInv'
  <2>1. /\ note' \in [Note -> NoteRow] /\ note'[n].status = "pending" /\ note'[n].inc = i
        /\ \A m \in Note \ {n} : note'[m] = note[m]
    BY <1>1, <1>4 DEF TypeOK, RowTypeOK, NoteRow, NoteStatus
  <2>2. /\ \A d \in Deliverer : deliver[d].phase # "idle" =>
             deliver[d].note \in Note \ {n} /\ note'[deliver[d].note] = note[deliver[d].note]
        /\ n \notin due
    BY <1>1, <1>4, <2>1 DEF NotesAreAbout
  <2>3. TicketsHaveOrigins' /\ StartsAreClaimed' /\ TimesAgree' /\ NothingIsPassedOver'
    <3>1. \A d \in Deliverer : deliver'[d].phase \in {"posted", "echo"} =>
            deliver'[d].at <= foreign[note'[deliver'[d].note].inc].at
      BY <1>2, <2>2, OriginsStand
    <3> QED BY <1>2, <3>1, OriginsStand, NoteStep
  <2>4. OneThingAtATime'
    BY <1>1, <1>2, OneThingStays
  <2>5. NotesAreAbout'
    <3>1. \A m \in Note : note'[m].status # "absent" => note'[m].inc \in Incident
      BY <1>1, <2>1 DEF NotesAreAbout
    <3>2. due \subseteq Note
      BY <1>1 DEF TypeOK, MemoryTypeOK
    <3> QED BY <1>1, <1>2, <2>1, <2>2, <3>1, <3>2 DEF NotesAreAbout
  <2>6. AckedIsSettled'
    <3>1. spent["retry"] = 0 => n \notin acked
      BY <1>1, <1>4 DEF AckedIsSettled
    <3>2. due \subseteq Note /\ acked \subseteq Note
      BY <1>1 DEF TypeOK, MemoryTypeOK, HistoryTypeOK
    <3> QED BY <1>1, <1>2, <2>1, <2>2, <3>1, <3>2 DEF AckedIsSettled, Deliverer
  <2>7. RowTypeOK' /\ MemoryTypeOK' /\ HistoryTypeOK'
    BY <1>1, <1>2, <2>1 DEF TypeOK, RowTypeOK, MemoryTypeOK, HistoryTypeOK
  <2> QED BY <2>3, <2>4, <2>5, <2>6, <2>7 DEF ConnectorInv, TypeOK
<1> QED BY <1>3, <1>4 DEF QueueNote

\* The sweep takes in hand what is due, none of which was answered for,
LEMMA SelectDueKeeps == ConnectorInv /\ SelectDue => ConnectorInv'
<1> SUFFICES ASSUME ConnectorInv, SelectDue PROVE ConnectorInv'
  OBVIOUS
<1>1. TypeOK /\ NotesAreAbout /\ AckedIsSettled /\ OneThingAtATime
  BY DEF ConnectorInv
<1>2. /\ UNCHANGED <<now, foreign, enabled, failures, watermark, origin, ledger, note, run,
                     proposal>>
      /\ UNCHANGED <<pass, todo, current, asking, deliver, telling>>
      /\ UNCHANGED <<tickets, started, born, fetched, late, posts, acked, spent>>
      /\ tick = "select" /\ tick' = "notes"
      /\ due' \subseteq Note /\ \A n \in due' : note[n].status \in {"pending", "retrying"}
  BY DEF SelectDue, Sweepable, foreignVars, rowVars, historyVars
<1>3. deliver["sweep"].phase = "idle" /\ OneThingAtATime'
  BY <1>1, <1>2, TickMoves DEF OneThingAtATime
<1>4. TicketsHaveOrigins' /\ StartsAreClaimed' /\ TimesAgree' /\ NothingIsPassedOver'
  BY <1>2, OriginsStand, NoteStep
<1>5. NotesAreAbout'
  BY <1>1, <1>2 DEF NotesAreAbout
<1>6. AckedIsSettled'
  BY <1>1, <1>2, <1>3 DEF AckedIsSettled
<1>7. RowTypeOK' /\ MemoryTypeOK' /\ HistoryTypeOK'
  BY <1>1, <1>2 DEF TypeOK, RowTypeOK, MemoryTypeOK, HistoryTypeOK
<1> QED BY <1>3, <1>4, <1>5, <1>6, <1>7 DEF ConnectorInv, TypeOK

\* one note at a time.
LEMMA TakeDueKeeps ==
  ASSUME ConnectorInv, NEW n \in Note, TakeDue(n)
  PROVE  ConnectorInv'
<1>1. TypeOK /\ NotesAreAbout /\ AckedIsSettled /\ OneThingAtATime
  BY DEF ConnectorInv
<1>2. /\ UNCHANGED <<now, foreign, enabled, failures, watermark, origin, ledger, note, run,
                     proposal>>
      /\ UNCHANGED <<tick, pass, todo, current, asking, telling>>
      /\ UNCHANGED <<tickets, started, born, fetched, late, posts, acked, spent>>
      /\ tick = "notes" /\ n \in due /\ deliver["sweep"].phase = "idle" /\ due' = due \ {n}
  BY DEF TakeDue, foreignVars, rowVars, historyVars
<1>3. /\ deliver' \in [Deliverer -> Delivery] /\ deliver'["retry"] = deliver["retry"]
      /\ \/ deliver' = deliver
         \/ deliver'["sweep"].phase = "claiming" /\ deliver'["sweep"].note = n
  <2>1. deliver \in [Deliverer -> Delivery] /\ Deliverer = {"sweep", "retry"}
    BY <1>1 DEF TypeOK, MemoryTypeOK, Deliverer
  <2>2. CASE enabled
    <3> DEFINE taken == [deliver["sweep"] EXCEPT !.phase = "claiming", !.note = n]
    <3>1. deliver["sweep"] \in Delivery
      BY <2>1
    <3>2. taken \in Delivery /\ taken.phase = "claiming" /\ taken.note = n
      BY <3>1 DEF Delivery
    <3>3. deliver' = [deliver EXCEPT !["sweep"] = taken]
      BY <2>1, <2>2 DEF TakeDue
    <3> HIDE DEF taken
    <3> QED BY <2>1, <3>2, <3>3
  <2>3. CASE ~enabled
    BY <2>1, <2>3 DEF TakeDue
  <2> QED BY <2>2, <2>3
<1>4. Deliverer = {"sweep", "retry"}
  BY DEF Deliverer
<1>5. TicketsHaveOrigins' /\ StartsAreClaimed' /\ TimesAgree' /\ NothingIsPassedOver'
  <2>1. \A d \in Deliverer : deliver'[d].phase \in {"posted", "echo"} =>
            deliver'[d].at <= foreign[note'[deliver'[d].note].inc].at
    BY <1>2, <1>3, <1>4, OriginsStand
  <2> QED BY <1>2, <2>1, OriginsStand, NoteStep
<1>6. OneThingAtATime'
  BY <1>1, <1>2, <1>3 DEF OneThingAtATime
<1>7. NotesAreAbout'
  BY <1>1, <1>2, <1>3, <1>4 DEF NotesAreAbout
<1>8. AckedIsSettled'
  BY <1>1, <1>2, <1>3 DEF AckedIsSettled
<1>9. RowTypeOK' /\ MemoryTypeOK' /\ HistoryTypeOK'
  <2>1. due' \subseteq Note
    BY <1>1, <1>2 DEF TypeOK, MemoryTypeOK
  <2> QED BY <1>1, <1>2, <1>3, <2>1 DEF TypeOK, RowTypeOK, MemoryTypeOK, HistoryTypeOK
<1> QED BY <1>5, <1>6, <1>7, <1>8, <1>9 DEF ConnectorInv, TypeOK

\* An operator retries a note, whatever became of it.
LEMMA RetryKeeps ==
  ASSUME ConnectorInv, NEW n \in Note, Retry(n)
  PROVE  ConnectorInv'
<1>1. TypeOK /\ NotesAreAbout /\ OneThingAtATime
  BY DEF ConnectorInv
<1>2. /\ UNCHANGED <<now, foreign, enabled, failures, watermark, origin, ledger, run, proposal>>
      /\ UNCHANGED <<tick, pass, todo, current, asking, due, telling>>
      /\ UNCHANGED <<tickets, started, born, fetched, late, posts, acked>>
      /\ note[n].status # "absent" /\ deliver["retry"].phase = "idle" /\ Spend("retry")
      /\ note' = [note EXCEPT ![n].status = "retrying"]
      /\ deliver' = [deliver EXCEPT !["retry"].phase = "claiming", !["retry"].note = n]
  BY DEF Retry, foreignVars, historyVars
<1>3. /\ spent' \in [Disturbance -> Nat] /\ spent'["crash"] = spent["crash"]
      /\ spent'["retry"] # 0
  BY <1>1, <1>2, SpendCounts DEF TypeOK, Disturbance
<1>4. /\ note' \in [Note -> NoteRow] /\ note'[n].status = "retrying"
      /\ \A m \in Note : /\ note'[m].inc = note[m].inc
                         /\ note'[m].status = "absent" <=> note[m].status = "absent"
  BY <1>1, <1>2 DEF TypeOK, RowTypeOK, NoteRow, NoteStatus
<1>5. /\ deliver' \in [Deliverer -> Delivery] /\ deliver'["sweep"] = deliver["sweep"]
      /\ deliver'["retry"].phase = "claiming" /\ deliver'["retry"].note = n
      /\ Deliverer = {"sweep", "retry"}
  <2>1. deliver \in [Deliverer -> Delivery] /\ Deliverer = {"sweep", "retry"}
    BY <1>1 DEF TypeOK, MemoryTypeOK, Deliverer
  <2> DEFINE retried == [deliver["retry"] EXCEPT !.phase = "claiming", !.note = n]
  <2>2. deliver["retry"] \in Delivery
    BY <2>1
  <2>3. retried \in Delivery /\ retried.phase = "claiming" /\ retried.note = n
    BY <2>2 DEF Delivery
  <2>4. deliver' = [deliver EXCEPT !["retry"] = retried]
    BY <1>2, <2>1
  <2> HIDE DEF retried
  <2> QED BY <2>1, <2>3, <2>4
<1>6. TicketsHaveOrigins' /\ StartsAreClaimed' /\ TimesAgree' /\ NothingIsPassedOver'
  <2>1. \A d \in Deliverer : deliver'[d].phase \in {"posted", "echo"} =>
            deliver'[d].at <= foreign[note'[deliver'[d].note].inc].at
    <3>1. deliver["sweep"].phase # "idle" => deliver["sweep"].note \in Note
      BY <1>1, <1>5 DEF NotesAreAbout
    <3>2. deliver'["retry"].phase \notin {"posted", "echo"}
      BY <1>5
    <3>3. /\ deliver["sweep"].phase \in {"posted", "echo"} =>
               deliver["sweep"].at <= foreign[note[deliver["sweep"].note].inc].at
          /\ deliver["sweep"].phase \in {"posted", "echo"} => deliver["sweep"].note \in Note
      BY <1>5, <3>1, OriginsStand
    <3>4. deliver["sweep"].note \in Note =>
            note'[deliver["sweep"].note].inc = note[deliver["sweep"].note].inc
      BY <1>4
    <3>5. deliver'["sweep"].phase \in {"posted", "echo"} =>
            deliver'["sweep"].at <= foreign[note'[deliver'["sweep"].note].inc].at
      BY <1>5, <3>3, <3>4
    <3> QED BY <1>5, <3>2, <3>5
  <2> QED BY <1>2, <1>3, <2>1, OriginsStand, NoteStep
<1>7. OneThingAtATime'
  BY <1>1, <1>2, <1>5 DEF OneThingAtATime
<1>8. NotesAreAbout'
  <2>1. due \subseteq Note
    BY <1>1 DEF TypeOK, MemoryTypeOK
  <2> QED BY <1>1, <1>2, <1>4, <1>5, <2>1 DEF NotesAreAbout
<1>9. AckedIsSettled'
  BY <1>3 DEF AckedIsSettled
<1>10. RowTypeOK' /\ MemoryTypeOK' /\ HistoryTypeOK'
  BY <1>1, <1>2, <1>3, <1>4, <1>5 DEF TypeOK, RowTypeOK, MemoryTypeOK, HistoryTypeOK
<1> QED BY <1>6, <1>7, <1>8, <1>9, <1>10 DEF ConnectorInv, TypeOK

\* A step of a delivery that changes no incident: the others deliver what they
\* delivered, and what it delivers is still about its incident.
LEMMA DeliveryStep ==
  ASSUME ConnectorInv, NEW d \in Deliverer, NEW r \in Delivery,
         deliver' = [deliver EXCEPT ![d] = r], deliver[d].phase # "idle",
         r.phase # "idle" => r.note = deliver[d].note,
         r.phase = "echo" => r.at = deliver[d].at /\ deliver[d].phase = "posted",
         r.phase # "posted",
         note' \in [Note -> NoteRow],
         \A m \in Note : /\ note'[m].inc = note[m].inc
                         /\ note'[m].status = "absent" <=> note[m].status = "absent",
         UNCHANGED <<now, foreign, enabled, failures, watermark, ledger, run, proposal>>,
         UNCHANGED <<tick, pass, todo, current, asking, due, telling>>,
         UNCHANGED <<tickets, started, born, fetched, late, posts, acked, spent>>,
         origin' \in [Incident -> Origin],
         \A i \in Incident : /\ origin'[i].known = origin[i].known
                             /\ origin'[i].seen = origin[i].seen
                             /\ origin'[i].count = origin[i].count
                             /\ origin'[i].written <= foreign[i].at,
         AckedIsSettled'
  PROVE  ConnectorInv'
<1>1. TypeOK /\ NotesAreAbout /\ OneThingAtATime
  BY DEF ConnectorInv
<1>2. /\ deliver \in [Deliverer -> Delivery] /\ deliver' \in [Deliverer -> Delivery]
      /\ deliver'[d] = r /\ \A e \in Deliverer \ {d} : deliver'[e] = deliver[e]
  BY <1>1 DEF TypeOK, MemoryTypeOK
<1>3. \A e \in Deliverer : deliver[e].phase # "idle" => deliver[e].note \in Note
  BY <1>1 DEF NotesAreAbout
<1>4. TicketsHaveOrigins' /\ StartsAreClaimed' /\ TimesAgree' /\ NothingIsPassedOver'
  <2>1. \A e \in Deliverer : deliver'[e].phase \in {"posted", "echo"} =>
            deliver'[e].at <= foreign[note'[deliver'[e].note].inc].at
    BY <1>2, <1>3, OriginsStand
  <2> QED BY <2>1, NoteStep
<1>5. OneThingAtATime'
  <2>1. deliver'["sweep"].phase # "idle" => deliver["sweep"].phase # "idle"
    BY <1>2 DEF Deliverer
  <2> QED BY <1>1, <2>1 DEF OneThingAtATime
<1>6. NotesAreAbout'
  <2>1. due \subseteq Note
    BY <1>1 DEF TypeOK, MemoryTypeOK
  <2> QED BY <1>1, <1>2, <1>3, <2>1 DEF NotesAreAbout
<1>7. RowTypeOK' /\ MemoryTypeOK' /\ HistoryTypeOK'
  BY <1>1, <1>2 DEF TypeOK, RowTypeOK, MemoryTypeOK, HistoryTypeOK
<1> QED BY <1>4, <1>5, <1>6, <1>7 DEF ConnectorInv, TypeOK

\* Without a retry only the sweep delivers.
LEMMA SweepDelivers ==
  ASSUME ConnectorInv, NEW d \in Deliverer, deliver[d].phase # "idle", spent["retry"] = 0
  PROVE  d = "sweep"
BY DEF ConnectorInv, AckedIsSettled, Deliverer

\* A note is claimed, which leaves it out of the sweep's reach,
LEMMA ClaimKeeps ==
  ASSUME ConnectorInv, NEW d \in Deliverer, Claim(d)
  PROVE  ConnectorInv'
<1>1. TypeOK /\ NotesAreAbout /\ AckedIsSettled
  BY DEF ConnectorInv
<1>2. /\ UNCHANGED <<now, foreign, enabled, failures, watermark, origin, ledger, run, proposal>>
      /\ UNCHANGED <<tick, pass, todo, current, asking, due, telling>>
      /\ UNCHANGED <<tickets, started, born, fetched, late, posts, acked, spent>>
      /\ deliver[d].phase = "claiming"
  BY DEF Claim, foreignVars, historyVars
<1>3. PICK n \in Note :
        /\ n = deliver[d].note /\ note[n].status # "absent"
        /\ note' = [note EXCEPT ![n].status = "delivering", ![n].attempts = @ + 1]
        /\ deliver' = [deliver EXCEPT ![d].phase = "posting",
                                      ![d].attempt = note[n].attempts + 1]
  <2>1. deliver[d].note \in Note /\ note[deliver[d].note].status # "absent"
    BY <1>1, <1>2 DEF NotesAreAbout
  <2> QED BY <2>1 DEF Claim
<1>4. note \in [Note -> NoteRow] /\ deliver \in [Deliverer -> Delivery]
  BY <1>1 DEF TypeOK, RowTypeOK, MemoryTypeOK
<1> DEFINE row == [note[n] EXCEPT !.status = "delivering", !.attempts = note[n].attempts + 1]
           r == [deliver[d] EXCEPT !.phase = "posting", !.attempt = note[n].attempts + 1]
<1>5. row \in NoteRow /\ row.status = "delivering" /\ row.inc = note[n].inc
  <2>1. note[n] \in NoteRow
    BY <1>4
  <2>2. note[n].attempts + 1 \in Nat /\ "delivering" \in NoteStatus
    BY <2>1 DEF NoteRow, NoteStatus
  <2> QED BY <2>1, <2>2 DEF NoteRow
<1>6. r \in Delivery /\ r.phase = "posting" /\ r.note = n
  <2>1. note[n].attempts + 1 \in Nat
    BY <1>4 DEF NoteRow
  <2> QED BY <1>3, <1>4, <2>1 DEF Delivery
<1>7. note' = [note EXCEPT ![n] = row] /\ deliver' = [deliver EXCEPT ![d] = r]
  BY <1>3, <1>4
<1> HIDE DEF row, r
<1>8. /\ note' \in [Note -> NoteRow] /\ note'[n] = row
      /\ \A m \in Note \ {n} : note'[m] = note[m]
  BY <1>4, <1>5, <1>7
<1>9. \A m \in Note : /\ note'[m].inc = note[m].inc
                      /\ note'[m].status = "absent" <=> note[m].status = "absent"
  BY <1>3, <1>5, <1>8
<1>10. AckedIsSettled'
  <2> SUFFICES ASSUME spent["retry"] = 0 PROVE AckedIsSettled'
    BY <1>2 DEF AckedIsSettled
  <2>1. d = "sweep"
    BY <1>2, SweepDelivers
  <2>2. /\ deliver'["sweep"] = r /\ deliver'["retry"] = deliver["retry"]
    BY <1>4, <1>7, <2>1 DEF Deliverer
  <2>3. n \notin acked /\ n \notin due /\ due \subseteq Note /\ acked \subseteq Note
    BY <1>1, <1>2, <1>3, <2>1 DEF AckedIsSettled, TypeOK, MemoryTypeOK, HistoryTypeOK
  <2> QED BY <1>1, <1>2, <1>5, <1>6, <1>8, <2>2, <2>3 DEF AckedIsSettled
<1> QED BY <1>1, <1>2, <1>3, <1>6, <1>7, <1>8, <1>9, <1>10, OriginsStand, DeliveryStep
        DEF TypeOK, RowTypeOK

\* or left to whoever has it.
LEMMA SkipKeeps ==
  ASSUME ConnectorInv, NEW d \in Deliverer, Skip(d)
  PROVE  ConnectorInv'
<1>1. TypeOK /\ AckedIsSettled
  BY DEF ConnectorInv
<1>2. /\ UNCHANGED <<now, foreign, enabled, failures, watermark, origin, ledger, note, run,
                     proposal>>
      /\ UNCHANGED <<tick, pass, todo, current, asking, due, telling>>
      /\ UNCHANGED <<tickets, started, born, fetched, late, posts, acked, spent>>
      /\ deliver[d].phase = "claiming" /\ deliver' = [deliver EXCEPT ![d] = NoDelivery]
  BY DEF Skip, foreignVars, rowVars, historyVars
<1>3. NoDelivery \in Delivery /\ NoDelivery.phase = "idle"
  BY Bounds DEF NoDelivery, Delivery
<1>4. AckedIsSettled'
  <2> SUFFICES ASSUME spent["retry"] = 0 PROVE AckedIsSettled'
    BY <1>2 DEF AckedIsSettled
  <2>1. d = "sweep"
    BY <1>2, SweepDelivers
  <2>2. deliver'["sweep"] = NoDelivery /\ deliver'["retry"] = deliver["retry"]
    BY <1>1, <1>2, <2>1 DEF TypeOK, MemoryTypeOK, Deliverer
  <2> QED BY <1>1, <1>2, <1>3, <2>2 DEF AckedIsSettled
<1> QED BY <1>1, <1>2, <1>3, <1>4, OriginsStand, DeliveryStep DEF TypeOK, RowTypeOK

\* The outcome is written if the note is still being delivered.
LEMMA ConcludeKeeps ==
  ASSUME ConnectorInv, NEW d \in Deliverer, Conclude(d)
  PROVE  ConnectorInv'
<1>1. TypeOK /\ NotesAreAbout /\ AckedIsSettled
  BY DEF ConnectorInv
<1>2. /\ UNCHANGED <<now, foreign, enabled, failures, watermark, origin, ledger, run, proposal>>
      /\ UNCHANGED <<tick, pass, todo, current, asking, due, telling>>
      /\ UNCHANGED <<tickets, started, born, fetched, late, posts, acked, spent>>
      /\ deliver[d].phase = "posted"
  BY DEF Conclude, foreignVars, historyVars
<1>3. note \in [Note -> NoteRow] /\ deliver \in [Deliverer -> Delivery]
  BY <1>1 DEF TypeOK, RowTypeOK, MemoryTypeOK
<1>4. PICK n \in Note : n = deliver[d].note /\ note[n].status # "absent"
  BY <1>1, <1>2 DEF NotesAreAbout
<1> DEFINE failed == deliver[d].at = NoTime
           s == OutcomeOf(deliver[d].attempt, failed)
           r == IF failed THEN NoDelivery ELSE [deliver[d] EXCEPT !.phase = "echo"]
<1>5. /\ s \in {"succeeded", "failed", "retrying"}
      /\ ~failed => s = "succeeded"
  BY DEF OutcomeOf
<1>6. /\ note' = note \/ note' = [note EXCEPT ![n].status = s]
      /\ deliver' = [deliver EXCEPT ![d] = r]
  <2>1. note' = (IF StillDelivering(n) THEN [note EXCEPT ![n].status = s] ELSE note)
    BY <1>4 DEF Conclude
  <2>2. deliver' = [deliver EXCEPT ![d] = r]
    BY <1>3 DEF Conclude
  <2> QED BY <2>1, <2>2
<1>7. /\ r \in Delivery /\ r.phase \in {"idle", "echo"}
      /\ r.phase # "idle" => r.note = n /\ r.at = deliver[d].at /\ ~failed
      /\ failed => r.phase = "idle"
  BY <1>3, <1>4, Bounds DEF NoDelivery, Delivery
<1> HIDE DEF r, s
<1>8. /\ note' \in [Note -> NoteRow] /\ note'[n].status \in {note[n].status, s}
      /\ \A m \in Note \ {n} : note'[m] = note[m]
      /\ note'[n].inc = note[n].inc
  <2>1. CASE note' = note
    BY <1>3, <2>1
  <2>2. CASE note' = [note EXCEPT ![n].status = s]
    <3>1. s \in NoteStatus
      BY <1>5 DEF NoteStatus
    <3> QED BY <1>3, <2>2, <3>1 DEF NoteRow
  <2> QED BY <1>6, <2>1, <2>2
<1>9. \A m \in Note : /\ note'[m].inc = note[m].inc
                      /\ note'[m].status = "absent" <=> note[m].status = "absent"
  BY <1>4, <1>5, <1>8
<1>10. AckedIsSettled'
  <2> SUFFICES ASSUME spent["retry"] = 0 PROVE AckedIsSettled'
    BY <1>2 DEF AckedIsSettled
  <2>1. d = "sweep"
    BY <1>2, SweepDelivers
  <2>2. deliver'["sweep"] = r /\ deliver'["retry"] = deliver["retry"]
    BY <1>3, <1>6, <2>1 DEF Deliverer
  <2>3. /\ n \notin due /\ due \subseteq Note /\ acked \subseteq Note
        /\ note[n].status = "delivering" /\ (n \in acked => ~failed)
    BY <1>1, <1>2, <1>4, <2>1 DEF AckedIsSettled, TypeOK, MemoryTypeOK, HistoryTypeOK
  <2>4. n \in acked => note'[n].status \in {"delivering", "succeeded"}
    BY <1>5, <1>8, <2>3
  <2>5. \A m \in due : note'[m].status \in {"pending", "retrying"}
    BY <1>1, <1>8, <2>3 DEF AckedIsSettled
  <2>6. \A m \in acked : note'[m].status \in {"delivering", "succeeded"}
    BY <1>1, <1>8, <2>3, <2>4 DEF AckedIsSettled
  <2> QED BY <1>1, <1>2, <1>7, <2>2, <2>3, <2>5, <2>6 DEF AckedIsSettled
<1>11. r.phase = "echo" => r.at = deliver[d].at
  BY <1>7
<1> QED BY <1>1, <1>2, <1>4, <1>6, <1>7, <1>8, <1>9, <1>10, <1>11, OriginsStand, DeliveryStep
        DEF TypeOK, RowTypeOK

\* The timestamp our note produced is no later than the incident's.
LEMMA RecordEchoKeeps ==
  ASSUME ConnectorInv, NEW d \in Deliverer, RecordEcho(d)
  PROVE  ConnectorInv'
<1>1. TypeOK /\ NotesAreAbout /\ AckedIsSettled
  BY DEF ConnectorInv
<1>2. /\ UNCHANGED <<now, foreign, enabled, failures, watermark, ledger, note, run, proposal>>
      /\ UNCHANGED <<tick, pass, todo, current, asking, due, telling>>
      /\ UNCHANGED <<tickets, started, born, fetched, late, posts, acked, spent>>
      /\ deliver[d].phase = "echo" /\ deliver' = [deliver EXCEPT ![d] = NoDelivery]
      /\ origin' = [origin EXCEPT ![note[deliver[d].note].inc].written = deliver[d].at]
  BY DEF RecordEcho, foreignVars, historyVars
<1>3. PICK i \in Incident : i = note[deliver[d].note].inc
  BY <1>1, <1>2 DEF NotesAreAbout
<1>4. deliver[d].at \in Time /\ deliver[d].at <= foreign[i].at /\ origin \in [Incident -> Origin]
  BY <1>1, <1>2, <1>3, OriginsStand DEF TypeOK, RowTypeOK, MemoryTypeOK, Delivery
<1> DEFINE row == [origin[i] EXCEPT !.written = deliver[d].at]
<1>5. /\ row \in Origin /\ row.known = origin[i].known /\ row.seen = origin[i].seen
      /\ row.count = origin[i].count /\ row.written = deliver[d].at
  BY <1>4 DEF Origin
<1>6. origin' = [origin EXCEPT ![i] = row]
  BY <1>2, <1>3, <1>4
<1> HIDE DEF row
<1>7. /\ origin' \in [Incident -> Origin]
      /\ \A j \in Incident : /\ origin'[j].known = origin[j].known
                             /\ origin'[j].seen = origin[j].seen
                             /\ origin'[j].count = origin[j].count
                             /\ origin'[j].written <= foreign[j].at
  <2>1. origin' \in [Incident -> Origin] /\ origin'[i] = row
        /\ \A j \in Incident \ {i} : origin'[j] = origin[j]
    BY <1>4, <1>5, <1>6
  <2> QED BY <1>4, <1>5, <2>1, OriginsStand
<1>8. NoDelivery \in Delivery /\ NoDelivery.phase = "idle"
  BY Bounds DEF NoDelivery, Delivery
<1>9. AckedIsSettled'
  <2> SUFFICES ASSUME spent["retry"] = 0 PROVE AckedIsSettled'
    BY <1>2 DEF AckedIsSettled
  <2>1. d = "sweep"
    BY <1>2, SweepDelivers
  <2>2. deliver'["sweep"] = NoDelivery /\ deliver'["retry"] = deliver["retry"]
    BY <1>1, <1>2, <2>1 DEF TypeOK, MemoryTypeOK, Deliverer
  <2> QED BY <1>1, <1>2, <1>8, <2>2 DEF AckedIsSettled
<1> QED BY <1>1, <1>2, <1>7, <1>8, <1>9, DeliveryStep DEF TypeOK, RowTypeOK

\* The other system takes our note, or not, and answers or not: what it takes
\* moves the incident, what it answers for is remembered as delivered.
LEMMA PostKeeps ==
  ASSUME ConnectorInv, NEW d \in Deliverer, NEW taken \in BOOLEAN, NEW answered \in BOOLEAN,
         Post(d, taken, answered)
  PROVE  ConnectorInv'
<1>1. TypeOK /\ NotesAreAbout /\ AckedIsSettled /\ OneThingAtATime /\ TimesAgree
  BY DEF ConnectorInv
<1>2. /\ UNCHANGED <<now, enabled, failures, watermark, origin, ledger, note, run, proposal>>
      /\ UNCHANGED <<tick, pass, todo, current, asking, due, telling>>
      /\ UNCHANGED <<tickets, started, born, fetched>>
      /\ deliver[d].phase = "posting" /\ (answered => taken)
      /\ spent' = spent \/ Spend("lost") \/ Spend("fault")
  BY DEF Post, rowVars
<1>3. PICK n \in Note : n = deliver[d].note /\ note[n].status # "absent" /\ note[n].inc \in Incident
  BY <1>1, <1>2 DEF NotesAreAbout
<1>4. PICK i \in Incident : i = note[n].inc
  BY <1>3
<1>5. /\ foreign' = (IF taken THEN [foreign EXCEPT ![i].at = now] ELSE foreign)
      /\ late' = (IF taken /\ fetched = now THEN late \cup {i} ELSE late)
      /\ posts' = (IF taken THEN [posts EXCEPT ![n] = @ + 1] ELSE posts)
      /\ acked' = (IF answered THEN acked \cup {n} ELSE acked)
      /\ deliver' = [deliver EXCEPT ![d].phase = "posted",
                                    ![d].at = IF answered THEN now ELSE NoTime]
  BY <1>3, <1>4 DEF Post
<1>6. /\ spent' \in [Disturbance -> Nat] /\ spent'["crash"] = spent["crash"]
      /\ spent'["retry"] = spent["retry"]
  <2>1. CASE UNCHANGED spent
    BY <1>1, <2>1 DEF TypeOK, HistoryTypeOK
  <2>2. CASE Spend("lost")
    BY <1>1, <2>2, SpendCounts DEF TypeOK, Disturbance
  <2>3. CASE Spend("fault")
    BY <1>1, <2>3, SpendCounts DEF TypeOK, Disturbance
  <2> QED BY <1>2, <2>1, <2>2, <2>3
<1>7. /\ now \in Time /\ now \in Int /\ now >= 1 /\ NoTime \in Time /\ NoTime = 0
      /\ foreign \in [Incident -> Foreign] /\ deliver \in [Deliverer -> Delivery]
      /\ origin \in [Incident -> Origin]
  BY <1>1, Bounds DEF TypeOK, RowTypeOK, MemoryTypeOK
<1> DEFINE when == IF answered THEN now ELSE NoTime
           r == [deliver[d] EXCEPT !.phase = "posted", !.at = when]
<1>8. /\ when \in Time /\ (answered => when = now) /\ (~answered => when = 0)
  BY <1>7
<1>9. deliver' = [deliver EXCEPT ![d] = r]
  BY <1>5, <1>7
<1> HIDE DEF when
<1>10. r \in Delivery /\ r.phase = "posted" /\ r.note = n /\ r.at = when
  BY <1>3, <1>7, <1>8 DEF Delivery
<1> HIDE DEF r
<1>11. /\ deliver' \in [Deliverer -> Delivery] /\ deliver'[d] = r
       /\ \A e \in Deliverer \ {d} : deliver'[e] = deliver[e]
  BY <1>7, <1>9, <1>10
<1>12. /\ foreign' \in [Incident -> Foreign] /\ NothingIsPassedOver' /\ late' \subseteq Incident
       /\ \A j \in Incident : /\ foreign[j].at <= foreign'[j].at /\ foreign'[j].at <= now
                              /\ foreign'[j].said <= foreign'[j].at
       /\ \A p \in Pass : PassTimes(pass[p])'
       /\ answered => foreign'[i].at = now
  <2>1. CASE taken
    <3> DEFINE row == [foreign[i] EXCEPT !.at = now]
    <3>1. row \in Foreign /\ row.at = now /\ row.said = foreign[i].said
      BY <1>7 DEF Foreign
    <3>2. foreign' = [foreign EXCEPT ![i] = row]
      BY <1>5, <1>7, <2>1
    <3> HIDE DEF row
    <3>3. IncidentMoves(i)
      BY <1>5, <1>7, <2>1, <3>1, <3>2 DEF IncidentMoves
    <3> QED BY <1>2, <3>3, MoveKeeps DEF IncidentMoves
  <2>2. CASE ~taken
    <3>1. UNCHANGED <<foreign, late>> /\ ~answered
      BY <1>2, <1>5, <2>2
    <3>2. SettledStays /\ \A j \in Incident : Owed(j)' => Owed(j)
      BY <1>2, <3>1, RowsStaySettled
    <3>3. NothingIsPassedOver'
      <4>1. pass' \in [Pass -> PassRow] /\ \A p \in Pass : PassHolds(pass'[p])
        BY <1>1, <1>2 DEF ConnectorInv, TypeOK, MemoryTypeOK, NothingIsPassedOver
      <4> QED BY <1>2, <3>1, <3>2, <4>1, PassedStays DEF ConnectorInv
    <3>4. \A p \in Pass : PassTimes(pass[p])'
      BY <1>1, <1>2, <3>1 DEF TimesAgree, PassTimes
    <3>5. \A j \in Incident : foreign[j].at \in Int
      BY <1>7, Bounds DEF Foreign
    <3>6. late \subseteq Incident
      BY <1>1 DEF TypeOK, HistoryTypeOK
    <3> QED BY <1>1, <1>7, <3>1, <3>3, <3>4, <3>5, <3>6 DEF TimesAgree
  <2> QED BY <2>1, <2>2
<1>13. \A j \in Incident : /\ origin[j].seen \in Int /\ origin[j].written \in Int
                           /\ foreign[j].at \in Int /\ foreign'[j].at \in Int /\ 0 <= foreign'[j].at
  <2>1. /\ \A x \in Foreign : x.at \in Int /\ 0 <= x.at
        /\ \A x \in Origin : x.seen \in Int /\ x.written \in Int
    BY Bounds DEF Foreign, Origin
  <2> QED BY <1>7, <1>12, <2>1
<1>14. TimesAgree'
  <2>1. \A j \in Incident : origin[j].seen <= foreign'[j].at /\ origin[j].written <= foreign'[j].at
    BY <1>1, <1>12, <1>13 DEF TimesAgree
  <2>2. \A e \in Deliverer : deliver'[e].phase \in {"posted", "echo"} =>
          deliver'[e].at <= foreign'[note[deliver'[e].note].inc].at
    <3> SUFFICES ASSUME NEW e \in Deliverer, deliver'[e].phase \in {"posted", "echo"}
        PROVE  deliver'[e].at <= foreign'[note[deliver'[e].note].inc].at
      OBVIOUS
    <3>1. CASE e = d
      BY <1>4, <1>7, <1>8, <1>10, <1>11, <1>12, <1>13, <3>1
    <3>2. CASE e # d
      <4>1. deliver'[e] = deliver[e]
        BY <1>11, <3>2
      <4>2. note[deliver[e].note].inc \in Incident
        BY <1>1, <4>1 DEF NotesAreAbout
      <4>3. deliver[e].at <= foreign[note[deliver[e].note].inc].at
        BY <1>1, <4>1 DEF TimesAgree
      <4>4. deliver[e].at \in Int
        BY <1>7, Bounds DEF Delivery
      <4> QED BY <1>12, <1>13, <4>1, <4>2, <4>3, <4>4
    <3> QED BY <3>1, <3>2
  <2> QED BY <1>1, <1>2, <1>12, <2>1, <2>2 DEF TimesAgree
<1>15. OneThingAtATime'
  <2>1. deliver'["sweep"].phase # "idle" => deliver["sweep"].phase # "idle"
    BY <1>2, <1>11 DEF Deliverer
  <2> QED BY <1>1, <1>2, <2>1 DEF OneThingAtATime
<1>16. NotesAreAbout'
  BY <1>1, <1>2, <1>3, <1>10, <1>11 DEF NotesAreAbout
<1>17. AckedIsSettled'
  <2> SUFFICES ASSUME spent["retry"] = 0 PROVE AckedIsSettled'
    BY <1>6 DEF AckedIsSettled
  <2>1. d = "sweep"
    BY <1>2, SweepDelivers
  <2>2. deliver'["sweep"] = r /\ deliver'["retry"] = deliver["retry"]
    BY <1>11, <2>1 DEF Deliverer
  <2>3. n \notin due /\ note[n].status = "delivering" /\ n \notin acked
    BY <1>1, <1>2, <1>3, <2>1 DEF AckedIsSettled
  <2>4. n \in acked' => when # NoTime
    BY <1>5, <1>7, <1>8, <2>3
  <2>5. \A m \in acked' : note[m].status \in {"delivering", "succeeded"}
    BY <1>1, <1>5, <2>3 DEF AckedIsSettled
  <2> QED BY <1>1, <1>2, <1>10, <2>2, <2>3, <2>4, <2>5 DEF AckedIsSettled
<1>18. TicketsHaveOrigins' /\ StartsAreClaimed'
  BY <1>2, <1>6, TicketsStay, StartsStay DEF ConnectorInv
<1>19. RowTypeOK' /\ MemoryTypeOK' /\ HistoryTypeOK'
  <2>1. posts' \in [Note -> Nat] /\ acked' \subseteq Note
    BY <1>1, <1>5 DEF TypeOK, HistoryTypeOK
  <2> QED BY <1>1, <1>2, <1>6, <1>11, <1>12, <2>1
          DEF TypeOK, RowTypeOK, MemoryTypeOK, HistoryTypeOK
<1> QED BY <1>12, <1>14, <1>15, <1>16, <1>17, <1>18, <1>19 DEF ConnectorInv, TypeOK

-----------------------------------------------------------------------------
(* The process, and every step.                                             *)

\* A restart forgets what was in hand, and the rows are enough.
LEMMA RestartKeeps == ConnectorInv /\ Restart => ConnectorInv'
<1> SUFFICES ASSUME ConnectorInv, Restart PROVE ConnectorInv'
  OBVIOUS
<1>1. TypeOK /\ NotesAreAbout /\ AckedIsSettled /\ TimesAgree
  BY DEF ConnectorInv
<1>2. /\ UNCHANGED <<now, foreign, enabled, failures, watermark, origin, ledger, note, run,
                     proposal>>
      /\ UNCHANGED <<tickets, started, born, fetched, late, posts, acked>>
      /\ tick' = "rest" /\ pass' = [p \in Pass |-> NoPass] /\ todo' = {} /\ current' = NoCurrent
      /\ asking' = {} /\ due' = {} /\ deliver' = [d \in Deliverer |-> NoDelivery]
      /\ telling' = {} /\ Spend("crash")
  BY DEF Restart, foreignVars, rowVars, historyVars
<1>3. /\ spent' \in [Disturbance -> Nat] /\ spent'["retry"] = spent["retry"]
      /\ spent'["crash"] # 0
  BY <1>1, <1>2, SpendCounts DEF TypeOK, Disturbance
<1>4. /\ NoDelivery \in Delivery /\ NoDelivery.phase = "idle" /\ NoPass.phase = "idle"
      /\ NoCurrent.step = "none" /\ NoCurrent.rows = {}
      /\ NoCurrent \in [step : {"none", "started", "recorded"}, rows : SUBSET (Incident \X Trigger)]
  BY Bounds DEF NoDelivery, Delivery, NoPass, NoCurrent
<1>5. NoPass \in PassRow /\ PassHolds(NoPass) /\ PassTimes(NoPass)
  BY <1>1, NoPassIsEmpty, EmptyPassHolds DEF EmptyPass
<1>6. pass' \in [Pass -> PassRow] /\ \A p \in Pass : PassHolds(pass'[p]) /\ PassTimes(pass'[p])
  BY <1>2, <1>5
<1>7. NothingIsPassedOver'
  <2>1. SettledStays /\ \A j \in Incident : Owed(j)' => Owed(j)
    BY <1>2, RowsStaySettled
  <2> QED BY <1>2, <1>6, <2>1, PassedStays DEF ConnectorInv
<1>8. TimesAgree'
  <2>1. \A p \in Pass : PassTimes(pass[p])'
    BY <1>2, <1>6 DEF PassTimes
  <2>2. \A d \in Deliverer : deliver'[d].phase = "idle"
    BY <1>2, <1>4
  <2> QED BY <1>1, <1>2, <2>1, <2>2 DEF TimesAgree
<1>9. OneThingAtATime' /\ NotesAreAbout'
  BY <1>1, <1>2, <1>4 DEF OneThingAtATime, NotesAreAbout, Pass, Deliverer
<1>10. TicketsHaveOrigins' /\ StartsAreClaimed'
  BY <1>2, <1>3, TicketsStay DEF ConnectorInv, StartsAreClaimed
<1>11. AckedIsSettled'
  BY <1>1, <1>2, <1>3, <1>4 DEF AckedIsSettled, Deliverer
<1>12. RowTypeOK' /\ MemoryTypeOK' /\ HistoryTypeOK'
  BY <1>1, <1>2, <1>3, <1>4, <1>6 DEF TypeOK, RowTypeOK, MemoryTypeOK, HistoryTypeOK
<1> QED BY <1>7, <1>8, <1>9, <1>10, <1>11, <1>12 DEF ConnectorInv, TypeOK

\* Every step keeps the invariant.
LEMMA StepKeeps == ConnectorInv /\ [Next]_vars => ConnectorInv'
<1> SUFFICES ASSUME ConnectorInv, [Next]_vars PROVE ConnectorInv'
  OBVIOUS
<1>1. CASE TimePasses
  BY <1>1, TimePassesKeeps
<1>2. CASE SwitchConnector
  BY <1>2, SwitchConnectorKeeps
<1>3. CASE Restart
  BY <1>3, RestartKeeps
<1>4. CASE TickStep
  <2>1. CASE \/ TickStarts \/ DispatchDone \/ SelectProposals \/ BackfillDone \/ SweepDone
             \/ \E i \in Incident : AskOutcome(i)
    BY <2>1, TickGoesOnKeeps
  <2>2. CASE SelectDeferred
    BY <2>2, SelectDeferredKeeps
  <2>3. CASE RecordDispatch
    BY <2>3, RecordDispatchKeeps
  <2>4. CASE CountDispatch
    BY <2>4, CountDispatchKeeps
  <2>5. CASE SelectDue
    BY <2>5, SelectDueKeeps
  <2>6. ASSUME NEW x \in Incident \X Trigger, Dispatches(x) \/ WorkerGone(x)
        PROVE  ConnectorInv'
    <3>1. CASE StartRun(x) \/ SettledByRule(x)
      BY <3>1, StartKeeps
    <3>2. CASE StartRefused(x) \/ WorkerGone(x)
      BY <3>2, LetGoKeeps
    <3> QED BY <2>6, <3>1, <3>2 DEF Dispatches
  <2>7. ASSUME NEW n \in Note, TakeDue(n) PROVE ConnectorInv'
    BY <2>7, TakeDueKeeps
  <2>8. ASSUME NEW i \in Incident, AskFails(i) PROVE ConnectorInv'
    BY <2>8, AskFailsKeeps
  <2> QED BY <1>4, <2>1, <2>2, <2>3, <2>4, <2>5, <2>6, <2>7, <2>8 DEF TickStep
<1>5. ASSUME NEW i \in Incident,
             \/ \E b \in BOOLEAN : CustomerActs(i, b) \/ RunEnds(i, b)
             \/ RecordProposal(i) \/ QueueNote(i)
      PROVE  ConnectorInv'
  <2>1. CASE \E b \in BOOLEAN : CustomerActs(i, b)
    BY <2>1, CustomerActsKeeps
  <2>2. CASE (\E b \in BOOLEAN : RunEnds(i, b)) \/ RecordProposal(i)
    BY <2>2, RunEndsKeeps
  <2>3. CASE QueueNote(i)
    BY <2>3, QueueNoteKeeps
  <2> QED BY <1>5, <2>1, <2>2, <2>3
<1>6. ASSUME NEW p \in Pass, Begin(p) \/ PassStep(p) \/ PassFails(p) PROVE ConnectorInv'
  <2>1. CASE Begin(p)
    BY <2>1, BeginKeeps
  <2>2. CASE Fetch(p)
    BY <2>2, FetchKeeps
  <2>3. CASE Plan(p)
    BY <2>3, PlanKeeps
  <2>4. CASE ApplyCreate(p)
    BY <2>4, ApplyCreateKeeps
  <2>5. CASE ApplyUpdate(p)
    BY <2>5, ApplyUpdateKeeps
  <2>6. CASE Succeed(p)
    BY <2>6, SucceedKeeps
  <2>7. CASE ReadFailures(p)
    BY <2>7, ReadFailuresKeeps
  <2>8. CASE CountFailure(p)
    BY <2>8, CountFailureKeeps
  <2>9. CASE PassFails(p)
    BY <2>9, PassFailsKeeps
  <2> QED BY <1>6, <2>1, <2>2, <2>3, <2>4, <2>5, <2>6, <2>7, <2>8, <2>9 DEF PassStep
<1>7. ASSUME NEW n \in Note, Retry(n) PROVE ConnectorInv'
  BY <1>7, RetryKeeps
<1>8. ASSUME NEW d \in Deliverer, DeliverStep(d) PROVE ConnectorInv'
  <2>1. CASE Claim(d)
    BY <2>1, ClaimKeeps
  <2>2. CASE Skip(d)
    BY <2>2, SkipKeeps
  <2>3. CASE Conclude(d)
    BY <2>3, ConcludeKeeps
  <2>4. CASE RecordEcho(d)
    BY <2>4, RecordEchoKeeps
  <2>5. CASE \E taken, answered \in BOOLEAN : Post(d, taken, answered)
    BY <2>5, PostKeeps
  <2> QED BY <1>8, <2>1, <2>2, <2>3, <2>4, <2>5 DEF DeliverStep
<1>9. CASE UNCHANGED vars
  <2>1. /\ UNCHANGED <<now, foreign, enabled, failures, watermark, origin, ledger, note, run,
                       proposal>>
        /\ UNCHANGED <<tick, pass, todo, current, asking, due, deliver, telling>>
        /\ UNCHANGED <<tickets, started, born, fetched, late, posts, acked, spent>>
    BY <1>9 DEF vars, foreignVars, rowVars, memoryVars, historyVars
  <2>2. RowTypeOK' /\ MemoryTypeOK' /\ HistoryTypeOK'
    BY <2>1 DEF ConnectorInv, TypeOK, RowTypeOK, MemoryTypeOK, HistoryTypeOK
  <2> QED BY <2>1, <2>2, QuietStep DEF ConnectorInv, TypeOK
<1> QED BY <1>1, <1>2, <1>3, <1>4, <1>5, <1>6, <1>7, <1>8, <1>9 DEF Next

-----------------------------------------------------------------------------
(* What holds in every behaviour.                                           *)

\* What the tick, the operators' passes and the deliveries hold in memory agrees
\* with the rows (runConnectorTick, runConnectorSync, sweepWritebacks).
THEOREM ConnectorInvariant == Spec => []ConnectorInv
BY InitHolds, StepKeeps, PTL DEF Spec

\* itsm_ticket_origins_external_uidx and the creating transaction: one ticket
\* for an incident, whatever passes run side by side.
THEOREM OneTicketHolds == Spec => []OneTicket
<1>1. ConnectorInv => OneTicket
  BY DEF ConnectorInv, TicketsHaveOrigins, OneTicket
<1> QED BY <1>1, ConnectorInvariant, PTL

\* itsm_dispatch_ledger: while the process lives no transition starts a second
\* run, whatever claims it again or defers it.
THEOREM StartedOnceHolds == Spec => []StartedOnce
<1>1. ConnectorInv => StartedOnce
  <2> SUFFICES ASSUME ConnectorInv, spent["crash"] = 0,
                      NEW i \in Incident, NEW t \in Trigger
      PROVE  started[i][t] <= 1
    BY DEF StartedOnce
  <2>1. PICK x \in Incident \X Trigger : x = <<i, t>>
    OBVIOUS
  <2>2. started[x[1]][x[2]] \in {0, 1}
    BY DEF ConnectorInv, StartsAreClaimed
  <2> QED BY <2>1, <2>2
<1> QED BY <1>1, ConnectorInvariant, PTL

\* The watermark moves only over incidents that have their ticket: a pass that
\* fails or overlaps another forgets none.
THEOREM PassedIsImportedHolds == Spec => []PassedIsImported
<1>1. ConnectorInv => PassedIsImported
  BY DEF ConnectorInv, NothingIsPassedOver, SettledUpTo, Changed, Settled, PassedIsImported
<1> QED BY <1>1, ConnectorInvariant, PTL

\* And only over comments that were claimed for a run.
THEOREM PassedIsAnsweredHolds == Spec => []PassedIsAnswered
<1>1. ConnectorInv => PassedIsAnswered
  <2> SUFFICES ASSUME ConnectorInv, NEW i \in Incident, origin[i].known, i \notin late,
                      born[i] < foreign[i].said, foreign[i].at <= watermark, ~AtCeiling(i)
      PROVE  ledger[i][foreign[i].said] # "none"
    BY DEF PassedIsAnswered
  <2>1. foreign[i].at # NoTime
    <3>1. /\ born[i] \in Nat /\ foreign[i].said \in Nat /\ foreign[i].at \in Nat
          /\ foreign[i].said <= foreign[i].at
      BY Bounds DEF ConnectorInv, TypeOK, RowTypeOK, HistoryTypeOK, Foreign, TimesAgree
    <3> QED BY <3>1, Bounds
  <2>2. Settled(i)
    BY <2>1 DEF ConnectorInv, NothingIsPassedOver, SettledUpTo, Changed
  <2> QED BY <2>2 DEF Settled, Owed
<1> QED BY <1>1, ConnectorInvariant, PTL

\* A note that was answered for is claimed by no sweep again (deliverWriteback):
\* only an operator's retry posts it twice.
THEOREM AckedIsNotRepeatedHolds == Spec => AckedIsNotRepeated
<1>1. ConnectorInv /\ [Next]_vars =>
        [spent["retry"] = 0 => \A n \in acked : posts'[n] = posts[n]]_vars
  <2> SUFFICES ASSUME ConnectorInv, Next, spent["retry"] = 0, NEW n \in acked
      PROVE  posts'[n] = posts[n]
    OBVIOUS
  <2>1. ASSUME NEW d \in Deliverer, NEW taken \in BOOLEAN, NEW answered \in BOOLEAN,
               Post(d, taken, answered)
        PROVE  posts'[n] = posts[n]
    <3>1. deliver[d].phase = "posting"
      BY <2>1 DEF Post
    <3>2. d = "sweep"
      BY <3>1, SweepDelivers
    <3>3. n # deliver[d].note
      BY <3>1, <3>2 DEF ConnectorInv, AckedIsSettled
    <3>4. posts' = posts \/ posts' = [posts EXCEPT ![deliver[d].note] = @ + 1]
      BY <2>1 DEF Post
    <3>5. posts \in [Note -> Nat] /\ n \in Note
      BY DEF ConnectorInv, TypeOK, HistoryTypeOK
    <3> QED BY <3>3, <3>4, <3>5
  <2>2. ASSUME \A d \in Deliverer, taken, answered \in BOOLEAN : ~Post(d, taken, answered)
        PROVE  UNCHANGED posts
    <3>1. CASE TimePasses \/ SwitchConnector \/ Restart
      BY <3>1 DEF TimePasses, SwitchConnector, Restart, historyVars
    <3>2. CASE TickStep
      BY <3>2 DEF TickStep, Dispatches, TickStarts, SelectDeferred, RecordDispatch, CountDispatch,
                  DispatchDone, SelectProposals, BackfillDone, SelectDue, SweepDone, StartRun,
                  SettledByRule, StartRefused, WorkerGone, TakeDue, AskOutcome, AskFails,
                  historyVars
    <3>3. CASE \E i \in Incident : \/ \E b \in BOOLEAN : CustomerActs(i, b) \/ RunEnds(i, b)
                                   \/ RecordProposal(i) \/ QueueNote(i)
      BY <3>3 DEF CustomerActs, RunEnds, RecordProposal, QueueNote, historyVars
    <3>4. CASE \E p \in Pass : Begin(p) \/ PassStep(p) \/ PassFails(p)
      BY <3>4 DEF Begin, PassStep, PassFails, Fetch, Plan, ApplyCreate, ApplyUpdate, Succeed,
                  ReadFailures, CountFailure, historyVars
    <3>5. CASE \E m \in Note : Retry(m)
      BY <3>5 DEF Retry, historyVars
    <3>6. CASE \E d \in Deliverer : DeliverStep(d)
      BY <2>2, <3>6 DEF DeliverStep, Claim, Skip, Conclude, RecordEcho, historyVars
    <3> QED BY <3>1, <3>2, <3>3, <3>4, <3>5, <3>6 DEF Next
  <2> QED BY <2>1, <2>2
<1> QED BY <1>1, ConnectorInvariant, PTL DEF Spec, AckedIsNotRepeated
=============================================================================
