-------------------------- MODULE AgentRunsProofs --------------------------
(***************************************************************************)
(* AgentRuns for every set of runs, tickets and streams and every bound:   *)
(* its type invariant; that a row which has ended is final, and that the   *)
(* worker is told to forget a terminal only when the row has ended; that a *)
(* ticket left to its runs has one running run, of its own class, and      *)
(* shows what the latest run decided; and that a verdict the worker        *)
(* reached stays at hand until the worker process lets go of a terminal.   *)
(***************************************************************************)
EXTENDS RunOutcomes, SequenceTheorems, TLAPS

-----------------------------------------------------------------------------
(* Which actions touch which group of variables.                            *)

DbStep ==
  \/ \E r \in Run : CommitStart(r) \/ HoldRun(r) \/ UndoStart(r)
                    \/ LeaseLapses(r) \/ CommitCancel(r)
  \/ \E g \in Gen : TakeAccepted(g) \/ TakeStep(g) \/ TakeTool(g)
                    \/ FirstTool(g) \/ TakeTerminal(g) \/ CommitTerminal(g)
  \/ GatewayRestart \/ \E t \in Ticket : HumanAct(t)

StartCalls == GatewayRestart \/ \E r \in Run : StartStep(r)

MemoryStep ==
  \/ \E r \in Run : SendStart(r) \/ CancelStep(r)
  \/ \E g \in Gen : Register(g) \/ AckTerminal(g) \/ StreamClosed(g)
  \/ GatewayRestart

InboundStep == GatewayRestart \/ \E g \in Gen : HandlerStep(g) \/ OpenStream(g)

WorkerStep ==
  \/ \E r \in Run : CallTimesOut(r) \/ TaskStep(r)
  \/ WorkerRead \/ LoseStream \/ WorkerCrash \/ AgeOut
  \/ \E g \in Gen : OpenStream(g)

DownStep ==
  \/ \E r \in Run : SendStart(r) \/ FinishCancel(r)
  \/ \E g \in Gen : TakeTool(g) \/ FinishTool(g) \/ TakeTerminal(g)
                    \/ AckTerminal(g)
  \/ WorkerRead \/ LoseStream \/ WorkerCrash

LEMMA StepsByGroup ==
  ASSUME [Next]_vars
  PROVE /\ DbStep \/ UNCHANGED dbVars
        /\ StartCalls \/ UNCHANGED start
        /\ MemoryStep \/ UNCHANGED <<assigned, agent, told, cancel>>
        /\ InboundStep \/ UNCHANGED <<handler, dead>>
        /\ InboundStep \/ WorkerStep \/ UNCHANGED up
        /\ WorkerStep \/ UNCHANGED workerVars
        /\ DownStep \/ UNCHANGED down
<1> USE DEF vars, dbVars, gatewayVars, workerVars
<1>1. CASE UNCHANGED vars
  BY <1>1
<1>2. CASE \E r \in Run : StartStep(r)
  BY <1>2 DEF DbStep, StartCalls, MemoryStep, InboundStep, WorkerStep, DownStep,
     StartStep, ReadTicket, CheckStart, CommitStart, SelectAgent, HoldRun,
     SendStart, UndoStart
<1>3. CASE \E r \in Run : CancelStep(r) \/ LeaseLapses(r)
  BY <1>3 DEF DbStep, StartCalls, MemoryStep, InboundStep, WorkerStep, DownStep,
     CancelStep, BeginCancel, BeginExpiry, Begin, CommitCancel, FinishCancel,
     LeaseLapses
<1>4. CASE \E r \in Run : CallTimesOut(r) \/ TaskStep(r)
  BY <1>4 DEF DbStep, StartCalls, MemoryStep, InboundStep, WorkerStep, DownStep,
     CallTimesOut, TaskStep, CallTool, FinishRun
<1>5. CASE \E g \in Gen : HandlerStep(g)
  <2> PICK g \in Gen : HandlerStep(g)
    BY <1>5
  <2>1. InboundStep
    BY DEF InboundStep
  <2>2. DbStep \/ UNCHANGED dbVars
    BY DEF HandlerStep, DbStep, Register, FinishTool, AckTerminal
  <2>3. UNCHANGED start /\ UNCHANGED workerVars
    BY DEF HandlerStep, Register, TakeAccepted, TakeStep, TakeTool, FirstTool,
       FinishTool, TakeTerminal, CommitTerminal, AckTerminal
  <2>4. MemoryStep \/ UNCHANGED <<assigned, agent, told, cancel>>
    BY DEF HandlerStep, MemoryStep, TakeAccepted, TakeStep, TakeTool, FirstTool,
       FinishTool, TakeTerminal, CommitTerminal
  <2>5. DownStep \/ UNCHANGED down
    BY DEF HandlerStep, DownStep, Register, TakeAccepted, TakeStep, FirstTool,
       CommitTerminal
  <2> QED
    BY <2>1, <2>2, <2>3, <2>4, <2>5
<1>6. CASE \E g \in Gen : StreamClosed(g) \/ OpenStream(g)
  BY <1>6 DEF DbStep, StartCalls, MemoryStep, InboundStep, WorkerStep, DownStep,
     StreamClosed, OpenStream
<1>7. CASE (\E t \in Ticket : HumanAct(t)) \/ GatewayRestart
  BY <1>7 DEF DbStep, StartCalls, MemoryStep, InboundStep, WorkerStep, DownStep,
     HumanAct, GatewayRestart
<1>8. CASE WorkerRead \/ LoseStream \/ WorkerCrash \/ AgeOut
  BY <1>8 DEF DbStep, StartCalls, MemoryStep, InboundStep, WorkerStep, DownStep,
     WorkerRead, TakeStart, TakeResult, TakeCancel, TakeAck, LoseStream,
     WorkerCrash, AgeOut
<1> QED
  BY <1>1, <1>2, <1>3, <1>4, <1>5, <1>6, <1>7, <1>8 DEF Next

\* How a row may change in one step: a run may be created or ended, no more.
LEMMA RowsMove ==
  ASSUME RunsInv, [Next]_vars, NEW r \in Run
  PROVE  (HasRow(r) => HasRow(r)') /\ (Ended(r) => run'[r] = run[r])
<1> USE DEF HasRow, Ended, Verdict
<1>a. run \in [Run -> RunStatus]
  BY DEF RunsInv, TypeOK, DbTypes
<1>1. CASE UNCHANGED run
  BY <1>1
<1>2. ASSUME NEW q \in Run, CommitStart(q)
      PROVE  (HasRow(r) => HasRow(r)') /\ (Ended(r) => run'[r] = run[r])
  <2>1. ~HasRow(q)
    BY <1>2 DEF CommitStart, RunsInv, StepsKnowRows
  <2>2. UNCHANGED run \/ run' = [run EXCEPT ![q] = "running"]
    BY <1>2 DEF CommitStart
  <2> QED
    BY <1>a, <2>1, <2>2
<1>3. ASSUME NEW q \in Run, UndoStart(q)
      PROVE  (HasRow(r) => HasRow(r)') /\ (Ended(r) => run'[r] = run[r])
  BY <1>3, <1>a DEF UndoStart, Running
<1>4. ASSUME NEW g \in Gen, CommitTerminal(g)
      PROVE  (HasRow(r) => HasRow(r)') /\ (Ended(r) => run'[r] = run[r])
  <2>1. handler[g].status \in Verdict
    BY <1>4 DEF CommitTerminal, RunsInv, TypeOK, StreamTypes, Handler
  <2>2. \/ UNCHANGED run
        \/ /\ Running(handler[g].run)
           /\ run' = [run EXCEPT ![handler[g].run] = handler[g].status]
    BY <1>4 DEF CommitTerminal, Finishable
  <2> QED
    BY <1>a, <2>1, <2>2 DEF Running
<1>5. ASSUME NEW q \in Run, CommitCancel(q)
      PROVE  (HasRow(r) => HasRow(r)') /\ (Ended(r) => run'[r] = run[r])
  BY <1>5, <1>a DEF CommitCancel, CancelHits, Running
<1>6. CASE GatewayRestart
  BY <1>6, <1>a DEF GatewayRestart, Running
<1>7. DbStep => \/ UNCHANGED run \/ GatewayRestart
                \/ \E q \in Run : CommitStart(q) \/ UndoStart(q) \/ CommitCancel(q)
                \/ \E g \in Gen : CommitTerminal(g)
  BY DEF DbStep, HoldRun, LeaseLapses, TakeAccepted, TakeStep, TakeTool,
     FirstTool, TakeTerminal, HumanAct
<1> QED
  BY <1>1, <1>2, <1>3, <1>4, <1>5, <1>6, <1>7, StepsByGroup DEF dbVars

\* What is known of rows on the wire stays true of them.
LEMMA SoundnessKept ==
  ASSUME RunsInv, [Next]_vars
  PROVE  /\ SoundUp \subseteq SoundUp' /\ SoundDown \subseteq SoundDown'
         /\ SoundRetained \subseteq SoundRetained'
<1>1. \A r \in Run : (HasRow(r) => HasRow(r)') /\ (Ended(r) => Ended(r)')
  BY RowsMove DEF Ended
<1>2. /\ \A m \in UpMsg : m.type # "hello" => m.run \in Run
      /\ \A m \in DownMsg : m.run \in Run
      /\ \A e \in Retained : e.run \in Run
  BY DEF UpMsg, DownMsg, Retained
<1> QED
  BY <1>1, <1>2 DEF SoundUp, SoundDown, SoundRetained

\* A row appears only where startTicketRun creates it.
LEMMA RowsAppear ==
  ASSUME RunsInv, [Next]_vars, NEW r \in Run, ~HasRow(r), HasRow(r)'
  PROVE  start'[r].phase = "created"
<1> USE DEF HasRow
<1>a. run \in [Run -> RunStatus] /\ start \in [Run -> Start]
  BY DEF RunsInv, TypeOK, DbTypes, StartTypes
<1>1. CASE UNCHANGED run
  BY <1>1
<1>2. ASSUME NEW q \in Run, CommitStart(q) PROVE start'[r].phase = "created"
  <2>1. run' # run
    BY <1>a
  <2>2. run' = [run EXCEPT ![q] = "running"] /\ start' = [start EXCEPT ![q].phase = "created"]
    BY <1>2, <2>1 DEF CommitStart
  <2>3. r = q
    BY <1>a, <2>2
  <2> QED
    BY <1>a, <2>2, <2>3 DEF Start
<1>3. ASSUME NEW q \in Run, UndoStart(q) PROVE FALSE
  BY <1>3, <1>a DEF UndoStart, Running
<1>4. ASSUME NEW g \in Gen, CommitTerminal(g) PROVE FALSE
  <2>1. \/ UNCHANGED run
        \/ /\ Running(handler[g].run)
           /\ run' = [run EXCEPT ![handler[g].run] = handler[g].status]
    BY <1>4 DEF CommitTerminal, Finishable
  <2> QED
    BY <1>a, <2>1 DEF Running
<1>5. ASSUME NEW q \in Run, CommitCancel(q) PROVE FALSE
  BY <1>5, <1>a DEF CommitCancel, CancelHits, Running
<1>6. CASE GatewayRestart
  BY <1>6, <1>a DEF GatewayRestart, Running
<1>7. DbStep => \/ UNCHANGED run \/ GatewayRestart
                \/ \E q \in Run : CommitStart(q) \/ UndoStart(q) \/ CommitCancel(q)
                \/ \E g \in Gen : CommitTerminal(g)
  BY DEF DbStep, HoldRun, LeaseLapses, TakeAccepted, TakeStep, TakeTool,
     FirstTool, TakeTerminal, HumanAct
<1> QED
  BY <1>1, <1>2, <1>3, <1>4, <1>5, <1>6, <1>7, StepsByGroup DEF dbVars

\* The status graph leads to statuses.
LEMMA AfterTyped ==
  ASSUME NEW s, NEW a, HasEdge(s, a)
  PROVE  After(s, a) \in TicketStatus
<1>1. \A e \in Transitions : e[3] \in TicketStatus
  BY DEF Transitions, TicketStatus
<1>2. (CHOOSE e \in Transitions : e[1] = s /\ e[2] = a) \in Transitions
  BY DEF HasEdge
<1> QED
  BY <1>1, <1>2 DEF After

-----------------------------------------------------------------------------
LEMMA DbTypesStep ==
  ASSUME TypeOK, [Next]_vars PROVE DbTypes'
<1> USE DEF DbTypes
<1>a. /\ ticket \in [Ticket -> TicketStatus] /\ run \in [Run -> RunStatus]
      /\ lease \in [Run -> {"none", "live", "lapsed"}] /\ inserted \in Seq(Run)
      /\ strayed \in SUBSET Ticket /\ TicketOf \in [Run -> Ticket]
  BY TicketOfAssumption DEF TypeOK
<1>b. {"failed", "running"} \subseteq RunStatus /\ Verdict \subseteq RunStatus
  BY DEF RunStatus, Verdict
<1>1. CASE UNCHANGED dbVars
  BY <1>1, <1>a DEF dbVars
<1>2. ASSUME NEW r \in Run, CommitStart(r) PROVE DbTypes'
  <2>1. Routed(r) \in TicketStatus
    BY <1>2, AfterTyped DEF CommitStart, TypeOK, StartTypes, Approved, Routed
  <2>2. Append(inserted, r) \in Seq(Run)
    BY <1>a
  <2>3. \/ UNCHANGED <<ticket, run, inserted>>
        \/ /\ ticket' = [ticket EXCEPT ![TicketOf[r]] = Routed(r)]
           /\ run' = [run EXCEPT ![r] = "running"]
           /\ inserted' = Append(inserted, r)
    BY <1>2 DEF CommitStart
  <2>4. UNCHANGED <<lease, strayed>>
    BY <1>2 DEF CommitStart
  <2> QED
    BY <1>a, <1>b, <2>1, <2>2, <2>3, <2>4
<1>3. ASSUME NEW r \in Run, HoldRun(r) PROVE DbTypes'
  BY <1>3, <1>a DEF HoldRun
<1>4. ASSUME NEW r \in Run, UndoStart(r) PROVE DbTypes'
  <2>1. start[r].from \in TicketStatus
    BY DEF TypeOK, StartTypes, Start
  <2>2. ticket' \in [Ticket -> TicketStatus]
    BY <1>4, <1>a, <2>1 DEF UndoStart, Restored
  <2>3. strayed' \in SUBSET Ticket
    BY <1>4, <1>a DEF UndoStart
  <2> QED
    BY <1>4, <1>a, <1>b, <2>2, <2>3 DEF UndoStart
<1>5. ASSUME NEW r \in Run, LeaseLapses(r) PROVE DbTypes'
  BY <1>5, <1>a DEF LeaseLapses
<1>6. ASSUME NEW r \in Run, CommitCancel(r) PROVE DbTypes'
  <2>1. CASE UNCHANGED <<run, lease, ticket>>
    BY <1>6, <2>1, <1>a DEF CommitCancel
  <2>2. CASE /\ HasEdge(cancel[r].seen, "fail")
             /\ run' = [run EXCEPT ![r] = "failed"]
             /\ lease' = [lease EXCEPT ![r] = "none"]
             /\ ticket' = [ticket EXCEPT ![TicketOf[r]] =
                  IF @ = cancel[r].seen THEN After(@, "fail") ELSE @]
    <3>1. After(cancel[r].seen, "fail") \in TicketStatus
      BY <2>2, AfterTyped
    <3> QED
      BY <1>6, <2>2, <3>1, <1>a, <1>b DEF CommitCancel
  <2> QED
    BY <1>6, <2>1, <2>2 DEF CommitCancel
<1>7. ASSUME NEW g \in Gen, TakeAccepted(g) \/ TakeStep(g) \/ TakeTool(g) \/ TakeTerminal(g)
      PROVE  DbTypes'
  <2>1. UNCHANGED lease \/ lease' = [lease EXCEPT ![Head(up[g]).run] = "live"]
    BY <1>7 DEF TakeAccepted, TakeStep, TakeTool, TakeTerminal, Renew
  <2>2. UNCHANGED <<ticket, run, inserted, strayed>>
    BY <1>7 DEF TakeAccepted, TakeStep, TakeTool, TakeTerminal
  <2> QED
    BY <2>1, <2>2, <1>a
<1>8. ASSUME NEW g \in Gen, FirstTool(g) PROVE DbTypes'
  BY <1>8, <1>a, AfterTyped DEF FirstTool
<1>9. ASSUME NEW g \in Gen, CommitTerminal(g) PROVE DbTypes'
  <2>1. handler[g].status \in Verdict
    BY <1>9 DEF CommitTerminal, TypeOK, StreamTypes, Handler
  <2>2. CASE UNCHANGED <<ticket, run, lease>>
    BY <1>9, <2>2, <1>a DEF CommitTerminal
  <2>3. ASSUME NEW t, NEW a, HasEdge(ticket[t], a),
               run' = [run EXCEPT ![handler[g].run] = handler[g].status],
               lease' = [lease EXCEPT ![handler[g].run] = "none"],
               ticket' = [ticket EXCEPT ![t] = After(@, a)]
        PROVE  DbTypes'
    <3>1. After(ticket[t], a) \in TicketStatus
      BY <2>3, AfterTyped
    <3> QED
      BY <1>9, <2>1, <2>3, <3>1, <1>a, <1>b DEF CommitTerminal
  <2> QED
    BY <1>9, <2>2, <2>3 DEF CommitTerminal
<1>10. CASE GatewayRestart
  <2>1. ticket' \in [Ticket -> TicketStatus]
    BY <1>10, <1>a, AfterTyped DEF GatewayRestart
  <2> QED
    BY <1>10, <2>1, <1>a, <1>b DEF GatewayRestart
<1>11. ASSUME NEW t \in Ticket, HumanAct(t) PROVE DbTypes'
  BY <1>11, <1>a, AfterTyped DEF HumanAct
<1> QED
  BY StepsByGroup, <1>1, <1>2, <1>3, <1>4, <1>5, <1>6, <1>7, <1>8, <1>9, <1>10,
     <1>11 DEF DbStep

\* What is known of the startTicketRun call of a run.
StartKnown(r) ==
  /\ start[r] \in Start
  /\ start[r].phase \in Approved => HasEdge(start[r].from, "startRun")
  /\ start[r].phase \in {"read", "checked"} => ~HasRow(r)
  /\ start[r].phase = "held" => HasRow(r)

LEMMA StartKnownStep ==
  ASSUME RunsInv, [Next]_vars
  PROVE  /\ start' \in [Run -> Start]
         /\ \A q \in Run : StartKnown(q)'
<1>a. start \in [Run -> Start] /\ agent \in Gen \cup {NoGen}
      /\ ticket \in [Ticket -> TicketStatus] /\ TicketOf \in [Run -> Ticket]
  BY TicketOfAssumption DEF RunsInv, TypeOK, DbTypes, StartTypes, MemoryTypes
<1>b. \A q \in Run : StartKnown(q)
  BY DEF RunsInv, TypeOK, StartTypes, StepsKnowRows, StartKnown
<1>c. NoStart \in Start /\ NoStart.phase = "none"
      /\ [NoStart EXCEPT !.phase = "done"] \in Start
      /\ [NoStart EXCEPT !.phase = "done"].phase = "done"
      /\ "none" \notin Approved /\ "done" \notin Approved /\ "held" \notin Approved
  BY DEF NoStart, Start, StartPhase, TicketStatus, Approved
<1>d. ASSUME NEW q \in Run, start'[q] = start[q] PROVE StartKnown(q)'
  <2>1. start[q].phase \in {"read", "checked"} => ~HasRow(q)'
    BY <1>b, <1>d, RowsAppear DEF StartKnown
  <2>2. start[q].phase = "held" => HasRow(q)'
    BY <1>b, RowsMove DEF StartKnown
  <2> QED
    BY <1>b, <1>d, <2>1, <2>2 DEF StartKnown
<1>e. ASSUME NEW r \in Run, NEW s \in Start, start' = [start EXCEPT ![r] = s],
             s.phase \in Approved => HasEdge(s.from, "startRun"),
             s.phase \in {"read", "checked"} => ~HasRow(r)',
             s.phase = "held" => HasRow(r)'
      PROVE  start' \in [Run -> Start] /\ \A q \in Run : StartKnown(q)'
  <2>1. start' \in [Run -> Start] /\ start'[r] = s
    BY <1>a, <1>e
  <2>2. \A q \in Run \ {r} : start'[q] = start[q]
    BY <1>a, <1>e
  <2>3. StartKnown(r)'
    BY <1>e, <2>1 DEF StartKnown
  <2> QED
    BY <1>d, <2>1, <2>2, <2>3
<1>1. CASE UNCHANGED start
  BY <1>1, <1>a, <1>d
<1>2. ASSUME NEW r \in Run, ReadTicket(r)
      PROVE  start' \in [Run -> Start] /\ \A q \in Run : StartKnown(q)'
  <2> DEFINE s == [phase |-> "read", gen |-> NoGen, from |-> ticket[TicketOf[r]]]
  <2>1. s \in Start /\ s.phase = "read" /\ start' = [start EXCEPT ![r] = s]
    BY <1>2, <1>a DEF ReadTicket, Start, StartPhase
  <2>2. ~HasRow(r)'
    BY <1>2 DEF ReadTicket, HasRow, dbVars
  <2>3. s.phase \notin Approved /\ s.phase # "held"
    BY <2>1 DEF Approved
  <2> HIDE DEF s
  <2> QED
    BY <1>e, <2>1, <2>2, <2>3
<1>3. ASSUME NEW r \in Run, CheckStart(r)
      PROVE  start' \in [Run -> Start] /\ \A q \in Run : StartKnown(q)'
  <2>1. ~HasRow(r)'
    BY <1>3, <1>b DEF CheckStart, HasRow, dbVars, StartKnown
  <2>2. CASE start' = [start EXCEPT ![r] = NoStart]
    BY <2>2, <1>c, <1>e
  <2>3. CASE HasEdge(start[r].from, "startRun")
             /\ start' = [start EXCEPT ![r] = [@ EXCEPT !.phase = "checked"]]
    <3> DEFINE s == [start[r] EXCEPT !.phase = "checked"]
    <3>1. s \in Start /\ s.from = start[r].from /\ start' = [start EXCEPT ![r] = s]
          /\ s.phase = "checked"
      BY <2>3, <1>a DEF Start, StartPhase
    <3> QED
      BY <2>1, <2>3, <3>1, <1>e
  <2> QED
    BY <1>3, <2>2, <2>3 DEF CheckStart, MayStart
<1>4. ASSUME NEW r \in Run, CommitStart(r)
      PROVE  start' \in [Run -> Start] /\ \A q \in Run : StartKnown(q)'
  <2>1. CASE start' = [start EXCEPT ![r] = NoStart]
    BY <2>1, <1>c, <1>e
  <2>2. CASE start' = [start EXCEPT ![r].phase = "created"]
    <3> DEFINE s == [start[r] EXCEPT !.phase = "created"]
    <3>1. s \in Start /\ s.phase = "created" /\ start' = [start EXCEPT ![r] = s]
          /\ s.from = start[r].from
      BY <2>2, <1>a DEF Start, StartPhase
    <3>2. HasEdge(start[r].from, "startRun")
      BY <1>4, <1>b DEF CommitStart, StartKnown, Approved
    <3> HIDE DEF s
    <3> QED
      BY <3>1, <3>2, <1>e
  <2> QED
    BY <1>4, <2>1, <2>2 DEF CommitStart
<1>5. ASSUME NEW r \in Run, SelectAgent(r)
      PROVE  start' \in [Run -> Start] /\ \A q \in Run : StartKnown(q)'
  <2> DEFINE p == IF agent = NoGen THEN "undoing" ELSE "selected"
             s == [start[r] EXCEPT !.phase = p, !.gen = agent]
  <2>1. s \in Start /\ s.phase = p /\ start' = [start EXCEPT ![r] = s]
        /\ s.from = start[r].from
    BY <1>5, <1>a DEF SelectAgent, Start, StartPhase
  <2>2. s.phase \in {"undoing", "selected"}
    BY <2>1
  <2>3. HasEdge(s.from, "startRun")
    BY <1>5, <1>b, <2>1 DEF SelectAgent, StartKnown, Approved
  <2> HIDE DEF s
  <2> QED
    BY <2>1, <2>2, <2>3, <1>e
<1>6. ASSUME NEW r \in Run, HoldRun(r)
      PROVE  start' \in [Run -> Start] /\ \A q \in Run : StartKnown(q)'
  <2> DEFINE p == IF Running(r) THEN "held" ELSE "undoing"
             s == [start[r] EXCEPT !.phase = p]
  <2>1. s \in Start /\ s.phase = p /\ start' = [start EXCEPT ![r] = s]
        /\ s.from = start[r].from
    BY <1>6, <1>a DEF HoldRun, Start, StartPhase
  <2>2. Running(r) => HasRow(r)'
    BY <1>6 DEF HoldRun, Running, HasRow
  <2>3. s.phase \in {"undoing", "held"} /\ (s.phase = "held" => HasRow(r)')
    BY <2>1, <2>2
  <2>4. HasEdge(s.from, "startRun")
    BY <1>6, <1>b, <2>1 DEF HoldRun, StartKnown, Approved
  <2> HIDE DEF s
  <2> QED
    BY <2>1, <2>3, <2>4, <1>c, <1>e
<1>7. ASSUME NEW r \in Run, SendStart(r) \/ UndoStart(r)
      PROVE  start' \in [Run -> Start] /\ \A q \in Run : StartKnown(q)'
  <2>1. start' = [start EXCEPT ![r] = [NoStart EXCEPT !.phase = "done"]]
    BY <1>7 DEF SendStart, UndoStart
  <2> QED
    BY <2>1, <1>c, <1>e
<1>8. CASE GatewayRestart
  <2>1. start' \in [Run -> Start] /\ \A q \in Run : start'[q].phase \in {"none", "done"}
    BY <1>8, <1>c DEF GatewayRestart
  <2> QED
    BY <2>1 DEF StartKnown, Approved
<1> QED
  BY StepsByGroup, <1>1, <1>2, <1>3, <1>4, <1>5, <1>6, <1>7, <1>8
     DEF StartCalls, StartStep

LEMMA CancelKnownStep ==
  ASSUME RunsInv, [Next]_vars
  PROVE  /\ MemoryTypes'
         /\ \A r \in Run : cancel'[r].phase = "committed" => Ended(r)'
<1> DEFINE Goal == /\ MemoryTypes'
                   /\ \A r \in Run : cancel'[r].phase = "committed" => Ended(r)'
           Known(f) == /\ f \in [Run -> Cancel]
                       /\ \A r \in Run : f[r].phase = "committed" => Ended(r)'
<1>a. /\ assigned \in SUBSET Run /\ agent \in Gen \cup {NoGen}
      /\ told \in [Run -> Verdict \cup {"none"}] /\ cancel \in [Run -> Cancel]
      /\ ticket \in [Ticket -> TicketStatus] /\ TicketOf \in [Run -> Ticket]
  BY TicketOfAssumption DEF RunsInv, TypeOK, DbTypes, MemoryTypes
<1>b. Known(cancel)
  <2>1. \A r \in Run : Ended(r) => Ended(r)'
    BY RowsMove DEF Ended
  <2> QED
    BY <1>a, <2>1 DEF RunsInv, StepsKnowRows
<1>c. ASSUME NEW r \in Run, NEW c \in Cancel, c.phase = "committed" => Ended(r)'
      PROVE  Known([cancel EXCEPT ![r] = c])
  BY <1>a, <1>b, <1>c
<1>d. NoCancel \in Cancel /\ NoCancel.phase = "none"
  BY DEF NoCancel, Cancel, TicketStatus
<1>e. ASSUME Known(cancel'), assigned' \in SUBSET Run, agent' \in Gen \cup {NoGen},
             told' \in [Run -> Verdict \cup {"none"}]
      PROVE  Goal
  BY <1>e DEF MemoryTypes
<1> HIDE DEF Goal, Known
<1>1. CASE UNCHANGED <<assigned, agent, told, cancel>>
  BY <1>1, <1>a, <1>b, <1>e DEF Goal
<1>2. ASSUME NEW r \in Run, SendStart(r) PROVE Goal
  BY <1>2, <1>a, <1>b, <1>e DEF SendStart
<1>3. ASSUME NEW r \in Run, NEW sweep \in BOOLEAN, Begin(r, sweep) PROVE Goal
  <2> DEFINE c == [phase |-> "begun", sweep |-> sweep, seen |-> ticket[TicketOf[r]],
                   gen |-> IF r \in assigned THEN agent ELSE NoGen]
  <2>1. c \in Cancel /\ c.phase = "begun" /\ cancel' = [cancel EXCEPT ![r] = c]
    BY <1>3, <1>a DEF Begin, Cancel
  <2> HIDE DEF c
  <2>2. Known(cancel')
    BY <2>1, <1>c
  <2> QED
    BY <1>3, <1>a, <1>e, <2>2 DEF Begin
<1>4. ASSUME NEW r \in Run, CommitCancel(r) PROVE Goal
  <2>1. CASE /\ run' = [run EXCEPT ![r] = "failed"]
             /\ cancel' = [cancel EXCEPT ![r].phase = "committed"]
    <3> DEFINE c == [cancel[r] EXCEPT !.phase = "committed"]
    <3>1. c \in Cancel /\ cancel' = [cancel EXCEPT ![r] = c]
      BY <2>1, <1>a DEF Cancel
    <3>2. Ended(r)'
      BY <2>1 DEF RunsInv, TypeOK, DbTypes, Ended, Verdict
    <3> HIDE DEF c
    <3>3. Known(cancel')
      BY <3>1, <3>2, <1>c
    <3> QED
      BY <1>4, <3>3, <1>a, <1>e DEF CommitCancel
  <2>2. CASE cancel' = [cancel EXCEPT ![r] = NoCancel]
    <3>1. Known(cancel')
      BY <2>2, <1>c, <1>d
    <3> QED
      BY <1>4, <3>1, <1>a, <1>e DEF CommitCancel
  <2> QED
    BY <1>4, <2>1, <2>2 DEF CommitCancel, AfterThrow
<1>5. ASSUME NEW r \in Run, FinishCancel(r) PROVE Goal
  <2>1. Known(cancel')
    BY <1>5, <1>c, <1>d DEF FinishCancel
  <2> QED
    BY <1>5, <2>1, <1>a, <1>e DEF FinishCancel
<1>6. ASSUME NEW g \in Gen, Register(g) PROVE Goal
  BY <1>6, <1>a, <1>b, <1>e DEF Register
<1>7. ASSUME NEW g \in Gen, AckTerminal(g) PROVE Goal
  <2>1. handler[g].status \in Verdict
    BY <1>7 DEF AckTerminal, RunsInv, TypeOK, StreamTypes, Handler
  <2>2. told' \in [Run -> Verdict \cup {"none"}]
    BY <1>7, <2>1, <1>a DEF AckTerminal
  <2> QED
    BY <1>7, <2>2, <1>a, <1>b, <1>e DEF AckTerminal
<1>8. ASSUME NEW g \in Gen, StreamClosed(g) PROVE Goal
  BY <1>8, <1>a, <1>b, <1>e DEF StreamClosed
<1>9. CASE GatewayRestart
  <2>1. Known(cancel')
    BY <1>9, <1>d DEF GatewayRestart, Known
  <2> QED
    BY <1>9, <2>1, <1>a, <1>e DEF GatewayRestart, Goal
<1>10. \A r \in Run : CancelStep(r) =>
         (\E sweep \in BOOLEAN : Begin(r, sweep)) \/ CommitCancel(r) \/ FinishCancel(r)
  BY DEF CancelStep, BeginCancel, BeginExpiry
<1>11. Goal
  BY StepsByGroup, <1>1, <1>2, <1>3, <1>4, <1>5, <1>6, <1>7, <1>8, <1>9, <1>10
     DEF MemoryStep, Goal
<1> QED
  BY <1>11 DEF Goal

-----------------------------------------------------------------------------
(* The two directions of the stream.                                        *)

\* The message a handler takes is about a run that has a row.
LEMMA HeadIsSound ==
  ASSUME RunsInv, NEW g \in Gen, up[g] # <<>>
  PROVE  /\ Head(up[g]) \in SoundUp /\ Tail(up[g]) \in Seq(SoundUp)
         /\ Head(up[g]).type \in {"accepted", "step", "tool", "terminal"} =>
              Head(up[g]).run \in Run /\ HasRow(Head(up[g]).run)
         /\ Head(up[g]).type = "terminal" => Head(up[g]).status \in Verdict
<1>1. up[g] \in Seq(SoundUp)
  BY DEF RunsInv, WireIsSound
<1>2. Head(up[g]) \in SoundUp /\ Tail(up[g]) \in Seq(SoundUp)
  BY <1>1
<1> QED
  BY <1>2 DEF SoundUp, UpMsg

\* What is known of the inbound handler of a stream.
HandlerKnown(g) ==
  /\ handler[g] \in Handler
  /\ handler[g].phase # "idle" => HasRow(handler[g].run)
  /\ handler[g].phase = "committed" => Ended(handler[g].run)

LEMMA HandlerKnownStep ==
  ASSUME RunsInv, [Next]_vars
  PROVE  /\ handler' \in [Gen -> Handler] /\ dead' \in SUBSET Gen
         /\ \A g \in Gen : HandlerKnown(g)'
<1> DEFINE Goal == /\ handler' \in [Gen -> Handler] /\ dead' \in SUBSET Gen
                   /\ \A g \in Gen : HandlerKnown(g)'
<1>a. handler \in [Gen -> Handler] /\ dead \in SUBSET Gen /\ run \in [Run -> RunStatus]
  BY DEF RunsInv, TypeOK, StreamTypes, DbTypes
<1>b. \A r \in Run : (HasRow(r) => HasRow(r)') /\ (Ended(r) => Ended(r)')
  BY RowsMove DEF Ended
<1>c. \A g \in Gen : HandlerKnown(g)
  BY <1>a DEF RunsInv, StepsKnowRows, HandlerKnown
<1>d. \A h \in Handler : h.phase # "idle" => h.run \in Run
  BY DEF Handler
<1>e. \A g \in Gen : handler'[g] = handler[g] => HandlerKnown(g)'
  BY <1>a, <1>b, <1>c, <1>d DEF HandlerKnown
<1>f. ASSUME NEW g \in Gen, NEW h \in Handler, handler' = [handler EXCEPT ![g] = h],
             dead' \in SUBSET Gen, h.phase # "idle" => HasRow(h.run),
             h.phase = "committed" => Ended(h.run)'
      PROVE  Goal
  <2>1. handler' \in [Gen -> Handler] /\ handler'[g] = h
    BY <1>a, <1>f
  <2>2. \A k \in Gen \ {g} : handler'[k] = handler[k]
    BY <1>a, <1>f
  <2>3. HandlerKnown(g)'
    BY <1>b, <1>d, <1>f, <2>1 DEF HandlerKnown
  <2> QED
    BY <1>e, <1>f, <2>1, <2>2, <2>3
<1>g. IdleHandler \in Handler /\ IdleHandler.phase = "idle"
  BY DEF IdleHandler, Handler
<1>h. ASSUME NEW g \in Gen, Refuse(g) PROVE Goal
  BY <1>h, <1>a, <1>f, <1>g DEF Refuse
<1>1. CASE UNCHANGED <<handler, dead>>
  BY <1>1, <1>a, <1>e
<1> HIDE DEF Goal
<1>2. ASSUME NEW g \in Gen, Register(g) \/ TakeAccepted(g) \/ TakeStep(g) PROVE Goal
  BY <1>1, <1>2, <1>h DEF Register, TakeAccepted, TakeStep, Goal
<1>3. ASSUME NEW g \in Gen, TakeTool(g) PROVE Goal
  <2> DEFINE h == [phase |-> "tool", run |-> Head(up[g]).run, status |-> "none"]
  <2>1. Head(up[g]).run \in Run /\ HasRow(Head(up[g]).run)
    BY <1>3, HeadIsSound DEF TakeTool, AtHead
  <2>2. h \in Handler /\ h.phase = "tool" /\ h.run = Head(up[g]).run
    BY <2>1 DEF Handler
  <2>3. dead' = dead /\ (handler' = handler \/ handler' = [handler EXCEPT ![g] = h])
    BY <1>3 DEF TakeTool
  <2> HIDE DEF h
  <2> QED
    BY <2>1, <2>2, <2>3, <1>1, <1>a, <1>f DEF Goal
<1>4. ASSUME NEW g \in Gen, FirstTool(g) PROVE Goal
  <2> DEFINE h == [handler[g] EXCEPT !.phase = "executing"]
  <2>1. handler[g].phase = "tool" /\ handler[g] \in Handler
    BY <1>4, <1>a DEF FirstTool
  <2>2. h \in Handler /\ h.phase = "executing" /\ h.run = handler[g].run
    BY <2>1 DEF Handler
  <2>3. dead' = dead /\ handler' = [handler EXCEPT ![g] = h]
    BY <1>4 DEF FirstTool
  <2> HIDE DEF h
  <2> QED
    BY <2>1, <2>2, <2>3, <1>a, <1>c, <1>f DEF HandlerKnown
<1>5. ASSUME NEW g \in Gen, FinishTool(g) \/ AckTerminal(g) PROVE Goal
  BY <1>5, <1>a, <1>f, <1>g DEF FinishTool, AckTerminal
<1>6. ASSUME NEW g \in Gen, TakeTerminal(g) PROVE Goal
  <2> DEFINE h == [phase |-> "terminal", run |-> Head(up[g]).run,
                   status |-> Head(up[g]).status]
  <2>1. Head(up[g]).run \in Run /\ HasRow(Head(up[g]).run) /\ Head(up[g]).status \in Verdict
    BY <1>6, HeadIsSound DEF TakeTerminal, AtHead
  <2>2. h \in Handler /\ h.phase = "terminal" /\ h.run = Head(up[g]).run
    BY <2>1 DEF Handler
  <2>3. \/ dead' = dead /\ handler' = handler
        \/ dead' = dead /\ handler' = [handler EXCEPT ![g] = h]
        \/ Refuse(g)
    BY <1>6 DEF TakeTerminal
  <2> HIDE DEF h
  <2> QED
    BY <2>1, <2>2, <2>3, <1>1, <1>a, <1>f, <1>h DEF Goal
<1>7. ASSUME NEW g \in Gen, CommitTerminal(g) PROVE Goal
  <2> DEFINE h == [handler[g] EXCEPT !.phase = "committed"]
  <2>1. handler[g].phase = "terminal" /\ handler[g] \in Handler
    BY <1>7, <1>a DEF CommitTerminal
  <2> PICK r \in Run : r = handler[g].run
    BY <2>1 DEF Handler
  <2>2. /\ h \in Handler /\ h.phase = "committed" /\ h.run = r
        /\ handler[g].status \in Verdict /\ HasRow(r)
    BY <2>1, <1>c DEF Handler, HandlerKnown
  <2>3. CASE ~Running(r) /\ handler' = [handler EXCEPT ![g] = h] /\ UNCHANGED <<run, dead>>
    <3>1. Ended(r)'
      BY <2>2, <2>3, <1>a DEF Running, HasRow, Ended, RunStatus
    <3> HIDE DEF h
    <3> QED
      BY <2>2, <2>3, <3>1, <1>a, <1>f
  <2>4. CASE /\ run' = [run EXCEPT ![r] = handler[g].status]
             /\ handler' = [handler EXCEPT ![g] = h] /\ UNCHANGED dead
    <3>1. Ended(r)'
      BY <2>2, <2>4, <1>a DEF Ended
    <3> HIDE DEF h
    <3> QED
      BY <2>2, <2>4, <3>1, <1>a, <1>f
  <2> QED
    BY <1>7, <2>3, <2>4, <1>h DEF CommitTerminal, Finishable, NoEdge
<1>8. ASSUME NEW g \in Gen, OpenStream(g) PROVE Goal
  BY <1>8, <1>a, <1>e DEF OpenStream, Goal
<1>9. CASE GatewayRestart
  <2>1. handler' \in [Gen -> Handler] /\ \A g \in Gen : handler'[g].phase = "idle"
    BY <1>9, <1>g DEF GatewayRestart
  <2> QED
    BY <1>9, <2>1 DEF GatewayRestart, HandlerKnown, Goal
<1>10. Goal
  BY StepsByGroup, <1>1, <1>2, <1>3, <1>4, <1>5, <1>6, <1>7, <1>8, <1>9
     DEF InboundStep, HandlerStep, Goal
<1> QED
  BY <1>10 DEF Goal

LEMMA SoundMessages ==
  ASSUME NEW r \in Run, HasRow(r)
  PROVE  /\ \A t \in {"accepted", "step", "tool"} : Up(t, r, "none") \in SoundUp
         /\ \A s \in Verdict : Up("terminal", r, s) \in SoundUp
         /\ \A t \in {"start", "result", "cancel"} : Down(t, r) \in SoundDown
         /\ Ended(r) => Down("ack", r) \in SoundDown
         /\ \A s \in Verdict : End(r, s) \in SoundRetained
BY DEF SoundUp, SoundDown, SoundRetained, UpMsg, DownMsg, Retained, Up, Down, End

LEMMA WriteTyped ==
  ASSUME NEW S, NEW g, NEW m \in S, down \in Seq(S), Write(g, m)
  PROVE  down' \in Seq(S)
BY DEF Write

LEMMA SendTyped ==
  ASSUME NEW S, NEW ms \in Seq(S), up \in [Gen -> Seq(S)], Send(ms)
  PROVE  up' \in [Gen -> Seq(S)]
<1>1. \A g \in Gen : up[g] \o ms \in Seq(S)
  BY ConcatProperties
<1> QED
  BY <1>1 DEF Send

LEMMA RetainTyped ==
  ASSUME NEW S, NEW ends \in Seq(S), retained \in Seq(S), Retain(ends)
  PROVE  retained' \in Seq(S)
<1> DEFINE s == retained \o ends
           m == IF Len(s) > RetainedLimit THEN Len(s) - RetainedLimit + 1 ELSE 1
<1>1. s \in Seq(S)
  BY ConcatProperties
<1>2. Len(s) \in Nat /\ RetainedLimit \in Nat
  BY <1>1, LimitAssumption
<1>3. retained' = SubSeq(s, m, Len(s)) /\ m \in Nat \ {0}
  BY <1>2 DEF Retain
<1>4. \A i \in m .. Len(s) : s[i] \in S
  BY <1>1, <1>2, <1>3
<1> HIDE DEF s, m
<1> QED
  BY <1>2, <1>3, <1>4, SubSeqProperties

\* The messages to the worker: an acknowledgement only for an ended row.
LEMMA DownStepSound ==
  ASSUME RunsInv, [Next]_vars
  PROVE  down' \in Seq(SoundDown)
<1>a. down \in Seq(SoundDown) /\ run \in [Run -> RunStatus]
  BY DEF RunsInv, WireIsSound, TypeOK, DbTypes
<1>b. \A g \in Gen : handler[g].phase # "idle" =>
        handler[g].run \in Run /\ HasRow(handler[g].run)
  BY DEF RunsInv, TypeOK, StreamTypes, StepsKnowRows, Handler
<1>c. \A r \in Run : ~Running(r) /\ HasRow(r) => Ended(r)
  BY <1>a DEF Running, HasRow, Ended, RunStatus
<1>d. \A r \in Run : Ended(r) => HasRow(r)
  BY DEF Ended, HasRow, Verdict
<1>1. CASE UNCHANGED down
  BY <1>1, <1>a
<1>2. ASSUME NEW r \in Run, SendStart(r) PROVE down' \in Seq(SoundDown)
  <2>1. Down("start", r) \in SoundDown
    BY <1>2, SoundMessages DEF SendStart, RunsInv, StepsKnowRows
  <2> QED
    BY <1>2, <2>1, <1>a, WriteTyped DEF SendStart
<1>3. ASSUME NEW r \in Run, FinishCancel(r) PROVE down' \in Seq(SoundDown)
  <2>1. Down("cancel", r) \in SoundDown
    BY <1>3, <1>d, SoundMessages DEF FinishCancel, RunsInv, StepsKnowRows
  <2> QED
    BY <1>3, <2>1, <1>a, WriteTyped DEF FinishCancel
<1>4. ASSUME NEW g \in Gen, TakeTool(g) PROVE down' \in Seq(SoundDown)
  <2>1. Down("result", Head(up[g]).run) \in SoundDown
    BY <1>4, HeadIsSound, SoundMessages DEF TakeTool, AtHead
  <2> QED
    BY <1>4, <2>1, <1>1, <1>a, WriteTyped DEF TakeTool
<1>5. ASSUME NEW g \in Gen, FinishTool(g) PROVE down' \in Seq(SoundDown)
  <2>1. Down("result", handler[g].run) \in SoundDown
    BY <1>5, <1>b, SoundMessages DEF FinishTool
  <2> QED
    BY <1>5, <2>1, <1>a, WriteTyped DEF FinishTool
<1>6. ASSUME NEW g \in Gen, TakeTerminal(g) PROVE down' \in Seq(SoundDown)
  <2>1. CASE AlreadyEnded(Head(up[g]).run) /\ Write(g, Down("ack", Head(up[g]).run))
    <3>1. Down("ack", Head(up[g]).run) \in SoundDown
      BY <1>6, <2>1, <1>c, HeadIsSound, SoundMessages DEF TakeTerminal, AtHead, AlreadyEnded
    <3> QED
      BY <2>1, <3>1, <1>a, WriteTyped
  <2> QED
    BY <1>6, <2>1, <1>1 DEF TakeTerminal
<1>7. ASSUME NEW g \in Gen, AckTerminal(g) PROVE down' \in Seq(SoundDown)
  <2>1. Ended(handler[g].run)
    BY <1>7 DEF AckTerminal, RunsInv, StepsKnowRows
  <2>2. Down("ack", handler[g].run) \in SoundDown
    BY <1>7, <1>b, <2>1, SoundMessages DEF AckTerminal
  <2> QED
    BY <1>7, <2>2, <1>a, WriteTyped DEF AckTerminal
<1>8. CASE WorkerRead
  <2>1. down # <<>> /\ down' = Tail(down)
    BY <1>8 DEF WorkerRead, TakeStart, TakeResult, TakeCancel, TakeAck, AtWorker
  <2> QED
    BY <2>1, <1>a
<1>9. CASE LoseStream \/ WorkerCrash
  <2>1. down' = <<>>
    BY <1>9 DEF LoseStream, WorkerCrash, Cut
  <2> QED
    BY <2>1
<1> QED
  BY StepsByGroup, <1>1, <1>2, <1>3, <1>4, <1>5, <1>6, <1>7, <1>8, <1>9 DEF DownStep

\* What the worker process keeps.
WorkerKnown ==
  /\ stream \in Gen \cup {NoGen}
  /\ task \in [Run -> {"none", "thinking", "calling"}]
  /\ calls \in [Run -> 0..MaxCalls]
  /\ verdict \in [Run -> Verdict \cup {"none"}]

\* A task that ends leaves a sound terminal, retained and sent.
LEMMA ConcludeSound ==
  ASSUME RunsInv, NEW r \in Run, task[r] # "none", NEW s \in Verdict,
         NEW steps \in Seq(SoundUp), Conclude(r, s, steps)
  PROVE  /\ task' \in [Run -> {"none", "thinking", "calling"}]
         /\ \A q \in Run : task'[q] # "none" => HasRow(q)
         /\ verdict' \in [Run -> Verdict \cup {"none"}]
         /\ retained' \in Seq(SoundRetained)
         /\ up' \in [Gen -> Seq(SoundUp)]
<1>a. /\ task \in [Run -> {"none", "thinking", "calling"}]
      /\ verdict \in [Run -> Verdict \cup {"none"}]
      /\ retained \in Seq(SoundRetained) /\ up \in [Gen -> Seq(SoundUp)]
  BY DEF RunsInv, TypeOK, WorkerTypes, WireIsSound
<1>b. \A q \in Run : task[q] # "none" => HasRow(q)
  BY DEF RunsInv, StepsKnowRows
<1>1. Up("terminal", r, s) \in SoundUp /\ End(r, s) \in SoundRetained
  BY <1>b, SoundMessages
<1>2. steps \o <<Up("terminal", r, s)>> \in Seq(SoundUp) /\ <<End(r, s)>> \in Seq(SoundRetained)
  BY <1>1, ConcatProperties
<1>3. retained' \in Seq(SoundRetained)
  BY <1>2, <1>a, RetainTyped DEF Conclude
<1>4. up' \in [Gen -> Seq(SoundUp)]
  BY <1>2, <1>a, SendTyped DEF Conclude
<1> QED
  BY <1>3, <1>4, <1>a, <1>b DEF Conclude

\* The worker acts on runs that have a row, and reports only those.
LEMMA WorkerStepSound ==
  ASSUME RunsInv, [Next]_vars
  PROVE  /\ WorkerKnown'
         /\ \A q \in Run : task'[q] # "none" => HasRow(q)
         /\ retained' \in Seq(SoundRetained)
         /\ WorkerStep => up' \in [Gen -> Seq(SoundUp)]
<1> DEFINE Goal == /\ WorkerKnown'
                   /\ \A q \in Run : task'[q] # "none" => HasRow(q)
                   /\ retained' \in Seq(SoundRetained)
                   /\ up' \in [Gen -> Seq(SoundUp)]
<1>a. /\ stream \in Gen \cup {NoGen}
      /\ task \in [Run -> {"none", "thinking", "calling"}]
      /\ calls \in [Run -> 0..MaxCalls]
      /\ verdict \in [Run -> Verdict \cup {"none"}]
      /\ retained \in Seq(SoundRetained) /\ up \in [Gen -> Seq(SoundUp)]
  BY DEF RunsInv, TypeOK, WorkerTypes, WireIsSound
<1>b. \A q \in Run : task[q] # "none" => HasRow(q)
  BY DEF RunsInv, StepsKnowRows
<1>c. \A type : AtWorker(type) => Head(down).run \in Run /\ HasRow(Head(down).run)
  <2>1. down # <<>> => Head(down) \in SoundDown
    BY DEF RunsInv, WireIsSound
  <2> QED
    BY <2>1 DEF AtWorker, SoundDown, DownMsg
<1>d. {"failed", "exhausted"} \subseteq Verdict
  BY DEF Verdict
<1>1. ASSUME UNCHANGED workerVars
      PROVE  /\ WorkerKnown' /\ retained' \in Seq(SoundRetained)
             /\ \A q \in Run : task'[q] # "none" => HasRow(q)
  BY <1>1, <1>a, <1>b DEF workerVars, WorkerKnown
<1>2. ASSUME NEW g \in Gen, OpenStream(g) PROVE Goal
  <2> DEFINE hello == <<Up("hello", NoRun, "none")>>
             replay == [i \in 1..Len(retained) |->
                          Up("terminal", retained[i].run, retained[i].status)]
  <2>1. hello \in Seq(SoundUp)
    BY DEF SoundUp, UpMsg, Up
  <2>2. \A i \in 1..Len(retained) :
          Up("terminal", retained[i].run, retained[i].status) \in SoundUp
    <3>1. \A i \in 1..Len(retained) : retained[i] \in SoundRetained
      BY <1>a
    <3> QED
      BY <3>1, SoundMessages DEF SoundRetained, Retained
  <2>3. Len(retained) \in Nat
    BY <1>a
  <2>4. replay \in Seq(SoundUp)
    BY <2>2, <2>3, SeqDef
  <2>5. hello \o replay \in Seq(SoundUp)
    BY <2>1, <2>4, ConcatProperties
  <2>6. up' = [up EXCEPT ![g] = hello \o replay]
    BY <1>2 DEF OpenStream
  <2> HIDE DEF hello, replay
  <2>7. up' \in [Gen -> Seq(SoundUp)]
    BY <2>5, <2>6, <1>a
  <2> QED
    BY <1>2, <2>7, <1>a, <1>b DEF OpenStream, WorkerKnown
<1>3. CASE TakeStart
  <2> PICK r \in Run : r = Head(down).run
    BY <1>3, <1>c DEF TakeStart
  <2>1. HasRow(r)
    BY <1>3, <1>c DEF TakeStart
  <2>2. /\ <<End(r, "failed")>> \in Seq(SoundRetained)
        /\ <<Up("terminal", r, "failed")>> \in Seq(SoundUp)
        /\ <<Up("accepted", r, "none")>> \in Seq(SoundUp)
    BY <2>1, <1>d, SoundMessages
  <2>3. CASE /\ Retain(<<End(r, "failed")>>)
             /\ verdict' = [verdict EXCEPT ![r] = "failed"]
             /\ Send(<<Up("terminal", r, "failed")>>)
             /\ UNCHANGED task
    <3>1. retained' \in Seq(SoundRetained) /\ up' \in [Gen -> Seq(SoundUp)]
      BY <2>2, <2>3, <1>a, RetainTyped, SendTyped
    <3> QED
      BY <1>3, <2>3, <3>1, <1>a, <1>b, <1>d DEF TakeStart, WorkerKnown
  <2>4. CASE /\ task' = [task EXCEPT ![r] = "thinking"]
             /\ Send(<<Up("accepted", r, "none")>>)
             /\ UNCHANGED <<retained, verdict>>
    <3>1. up' \in [Gen -> Seq(SoundUp)]
      BY <2>2, <2>4, <1>a, SendTyped
    <3> QED
      BY <1>3, <2>1, <2>4, <3>1, <1>a, <1>b DEF TakeStart, WorkerKnown
  <2> QED
    BY <1>3, <2>3, <2>4 DEF TakeStart
<1>4. CASE TakeResult
  <2> PICK r \in Run : r = Head(down).run
    BY <1>4, <1>c DEF TakeResult
  <2>1. HasRow(r)
    BY <1>4, <1>c DEF TakeResult
  <2>2. <<Up("step", r, "none")>> \in Seq(SoundUp)
    BY <2>1, SoundMessages
  <2>3. /\ up' \in [Gen -> Seq(SoundUp)]
        /\ task' = task \/ task' = [task EXCEPT ![r] = "thinking"]
    BY <1>4, <2>2, <1>a, SendTyped DEF TakeResult
  <2> QED
    BY <1>4, <2>1, <2>3, <1>a, <1>b DEF TakeResult, WorkerKnown
<1>5. CASE TakeAck
  <2>1. retained' \in Seq(SoundRetained)
    <3>1. ASSUME NEW i \in 1..Len(retained), retained' = RemoveAt(retained, i)
          PROVE  retained' \in Seq(SoundRetained)
      <4>1. /\ SubSeq(retained, 1, i - 1) \in Seq(SoundRetained)
            /\ SubSeq(retained, i + 1, Len(retained)) \in Seq(SoundRetained)
        BY <1>a
      <4> QED
        BY <3>1, <4>1, ConcatProperties DEF RemoveAt
    <3> QED
      BY <1>5, <3>1, <1>a DEF TakeAck
  <2> QED
    BY <1>5, <2>1, <1>a, <1>b DEF TakeAck, WorkerKnown
<1>6. CASE TakeCancel
  <2> PICK r \in Run : r = Head(down).run
    BY <1>6, <1>c DEF TakeCancel
  <2>1. \/ UNCHANGED <<task, verdict, retained, up>>
        \/ task[r] # "none" /\ Conclude(r, "failed", <<>>)
    BY <1>6 DEF TakeCancel
  <2>2. UNCHANGED <<stream, calls>> /\ <<>> \in Seq(SoundUp)
    BY <1>6 DEF TakeCancel
  <2> QED
    BY <2>1, <2>2, <1>a, <1>b, <1>d, ConcludeSound DEF WorkerKnown
<1>7. ASSUME NEW r \in Run, CallTool(r) PROVE Goal
  <2>1. HasRow(r)
    BY <1>7, <1>b DEF CallTool
  <2>2. <<Up("step", r, "none"), Up("tool", r, "none")>> \in Seq(SoundUp)
    BY <2>1, SoundMessages
  <2>3. up' \in [Gen -> Seq(SoundUp)]
    BY <1>7, <2>2, <1>a, SendTyped DEF CallTool
  <2>4. calls' \in [Run -> 0..MaxCalls]
    BY <1>7, <1>a, LimitAssumption DEF CallTool
  <2> QED
    BY <1>7, <2>1, <2>3, <2>4, <1>a, <1>b DEF CallTool, WorkerKnown
<1>8. ASSUME NEW r \in Run, CallTimesOut(r) PROVE Goal
  <2>1. <<Up("step", r, "none"), Up("step", r, "none")>> \in Seq(SoundUp)
    BY <1>8, <1>b, SoundMessages DEF CallTimesOut
  <2> QED
    BY <1>8, <2>1, <1>a, <1>d, ConcludeSound DEF CallTimesOut, WorkerKnown
<1>9. ASSUME NEW r \in Run, FinishRun(r) PROVE Goal
  <2>1. task[r] # "none" /\ UNCHANGED <<stream, calls>>
    BY <1>9 DEF FinishRun
  <2>2. <<Up("step", r, "none")>> \in Seq(SoundUp) /\ <<>> \in Seq(SoundUp)
    BY <2>1, <1>b, SoundMessages
  <2>3. PICK s \in Verdict, steps \in Seq(SoundUp) : Conclude(r, s, steps)
    BY <1>9, <2>2 DEF FinishRun
  <2> QED
    BY <2>1, <2>3, <1>a, ConcludeSound DEF WorkerKnown
<1>10. ASSUME Cut PROVE /\ up' \in [Gen -> Seq(SoundUp)] /\ stream' = NoGen
                        /\ task' \in [Run -> {"none", "thinking", "calling"}]
                        /\ \A q \in Run : task'[q] = "none"
  <2>1. PICK n \in 0..Len(up[stream]) : up' = [up EXCEPT ![stream] = SubSeq(@, 1, n)]
    BY <1>10 DEF Cut
  <2>2. stream \in Gen => SubSeq(up[stream], 1, n) \in Seq(SoundUp)
    BY <1>a
  <2> QED
    BY <1>10, <2>1, <2>2, <1>a DEF Cut
<1>11. CASE LoseStream
  <2> PICK n \in 0..MaxConcurrent :
        \E ending \in [1..n -> Busy] :
          Retain([i \in 1..n |-> End(ending[i], "failed")])
    BY <1>11 DEF LoseStream
  <2> PICK ending \in [1..n -> Busy] : Retain([i \in 1..n |-> End(ending[i], "failed")])
    OBVIOUS
  <2> DEFINE ends == [i \in 1..n |-> End(ending[i], "failed")]
  <2>1. \A i \in 1..n : End(ending[i], "failed") \in SoundRetained
    BY <1>b, <1>d, SoundMessages DEF Busy
  <2>2. ends \in Seq(SoundRetained)
    BY <2>1, LimitAssumption, SeqDef
  <2>3. Retain(ends)
    OBVIOUS
  <2> HIDE DEF ends
  <2>4. retained' \in Seq(SoundRetained)
    BY <2>2, <2>3, <1>a, RetainTyped
  <2>5. verdict' \in [Run -> Verdict \cup {"none"}] /\ UNCHANGED calls /\ Cut
    BY <1>11, <1>a, <1>d DEF LoseStream
  <2> QED
    BY <2>4, <2>5, <1>10, <1>a DEF WorkerKnown
<1>12. CASE WorkerCrash
  BY <1>12, <1>10, <1>a DEF WorkerCrash, WorkerKnown
<1>13. CASE AgeOut
  BY <1>13, <1>a, <1>b DEF AgeOut, WorkerKnown
<1> HIDE DEF Goal
<1>14. WorkerStep => Goal
  BY <1>2, <1>3, <1>4, <1>5, <1>6, <1>7, <1>8, <1>9, <1>11, <1>12, <1>13
     DEF WorkerStep, TaskStep, WorkerRead, Goal
<1> QED
  BY StepsByGroup, <1>1, <1>14 DEF Goal

\* The messages to the gateway are about runs that have a row.
LEMMA UpStepSound ==
  ASSUME RunsInv, [Next]_vars
  PROVE  up' \in [Gen -> Seq(SoundUp)]
<1>a. up \in [Gen -> Seq(SoundUp)]
  BY DEF RunsInv, WireIsSound
<1>1. ASSUME NEW g \in Gen, up' = [up EXCEPT ![g] = <<>>]
      PROVE  up' \in [Gen -> Seq(SoundUp)]
  BY <1>1, <1>a
<1>2. ASSUME NEW g \in Gen, up[g] # <<>>, Pop(g)
      PROVE  up' \in [Gen -> Seq(SoundUp)]
  BY <1>2, <1>a, HeadIsSound DEF Pop
<1>3. CASE GatewayRestart
  BY <1>3 DEF GatewayRestart
<1>4. ASSUME NEW g \in Gen, HandlerStep(g)
      PROVE  \/ UNCHANGED up \/ up' = [up EXCEPT ![g] = <<>>]
             \/ up[g] # <<>> /\ Pop(g)
  BY <1>4 DEF HandlerStep, Register, TakeAccepted, TakeStep, TakeTool, FirstTool,
     FinishTool, TakeTerminal, CommitTerminal, NoEdge, AckTerminal, AtHead, Refuse
<1>5. ASSUME NEW g \in Gen, OpenStream(g) PROVE WorkerStep
  BY <1>5 DEF WorkerStep
<1> QED
  BY StepsByGroup, WorkerStepSound, <1>a, <1>1, <1>2, <1>3, <1>4, <1>5 DEF InboundStep

LEMMA SpendingSteps ==
  /\ \A r \in Run : StartStep(r) => UNCHANGED spent
  /\ \A r \in Run : CancelStep(r) \/ LeaseLapses(r) => UNCHANGED spent \/ Spend("cancel")
  /\ \A r \in Run : CallTimesOut(r) \/ TaskStep(r) => UNCHANGED spent
  /\ \A g \in Gen : HandlerStep(g) \/ StreamClosed(g) \/ OpenStream(g) => UNCHANGED spent
  /\ \A t \in Ticket : HumanAct(t) => Spend("human")
  /\ GatewayRestart => Spend("restart")
  /\ WorkerRead => UNCHANGED spent
  /\ LoseStream => UNCHANGED spent \/ Spend("loss")
  /\ WorkerCrash => Spend("crash")
  /\ AgeOut => Spend("age")
<1>1. \A r \in Run : StartStep(r) => UNCHANGED spent
  BY DEF StartStep, ReadTicket, CheckStart, CommitStart, SelectAgent, HoldRun,
     SendStart, UndoStart
<1>2. \A r \in Run : CancelStep(r) \/ LeaseLapses(r) => UNCHANGED spent \/ Spend("cancel")
  BY DEF CancelStep, BeginCancel, BeginExpiry, CommitCancel, FinishCancel, LeaseLapses
<1>3. \A r \in Run : CallTimesOut(r) \/ TaskStep(r) => UNCHANGED spent
  BY DEF CallTimesOut, TaskStep, CallTool, FinishRun
<1>4. \A g \in Gen : HandlerStep(g) \/ StreamClosed(g) \/ OpenStream(g) => UNCHANGED spent
  BY DEF HandlerStep, Register, TakeAccepted, TakeStep, TakeTool, FirstTool,
     FinishTool, TakeTerminal, CommitTerminal, AckTerminal, StreamClosed, OpenStream
<1>5. /\ \A t \in Ticket : HumanAct(t) => Spend("human")
      /\ GatewayRestart => Spend("restart")
      /\ WorkerRead => UNCHANGED spent
      /\ LoseStream => UNCHANGED spent \/ Spend("loss")
      /\ WorkerCrash => Spend("crash")
      /\ AgeOut => Spend("age")
  BY DEF HumanAct, GatewayRestart, WorkerRead, TakeStart, TakeResult, TakeCancel,
     TakeAck, LoseStream, WorkerCrash, AgeOut
<1> QED
  BY <1>1, <1>2, <1>3, <1>4, <1>5

LEMMA SpentMoves ==
  ASSUME [Next]_vars
  PROVE  UNCHANGED spent \/ \E d \in Disturbance : Spend(d)
<1>1. {"loss", "crash", "restart", "cancel", "human", "age"} \subseteq Disturbance
  BY DEF Disturbance
<1>2. CASE UNCHANGED vars
  BY <1>2 DEF vars
<1> QED
  BY <1>1, <1>2, SpendingSteps DEF Next

LEMMA SpentStep ==
  ASSUME spent \in [Disturbance -> Nat], [Next]_vars
  PROVE  spent' \in [Disturbance -> Nat]
<1>1. ASSUME NEW d \in Disturbance, Spend(d) PROVE spent' \in [Disturbance -> Nat]
  BY <1>1 DEF Spend
<1> QED
  BY <1>1, SpentMoves

LEMMA ForgottenStep ==
  ASSUME forgotten \in BOOLEAN, [Next]_vars
  PROVE  forgotten' \in BOOLEAN
<1>1. ASSUME NEW ends, Retain(ends) PROVE forgotten' \in BOOLEAN
  <2> DEFINE over == Len(retained \o ends) > RetainedLimit
  <2>1. forgotten' = (forgotten \/ over)
    BY <1>1 DEF Retain
  <2> HIDE DEF over
  <2> QED
    BY <2>1, Zenon
<1>2. CASE UNCHANGED forgotten
  BY <1>2
<1>3. CASE WorkerStep
  <2>1. ASSUME NEW r \in Run, CallTool(r) \/ CallTimesOut(r) \/ FinishRun(r)
        PROVE  forgotten' \in BOOLEAN
    BY <2>1, <1>1, <1>2 DEF CallTool, CallTimesOut, FinishRun, Conclude
  <2>2. CASE WorkerRead
    BY <2>2, <1>1, <1>2 DEF WorkerRead, TakeStart, TakeResult, TakeCancel, TakeAck, Conclude
  <2>3. CASE LoseStream
    BY <2>3, <1>1 DEF LoseStream
  <2>4. CASE WorkerCrash \/ AgeOut
    BY <2>4 DEF WorkerCrash, AgeOut
  <2>5. ASSUME NEW g \in Gen, OpenStream(g) PROVE forgotten' \in BOOLEAN
    BY <2>5, <1>2 DEF OpenStream
  <2> QED
    BY <1>3, <2>1, <2>2, <2>3, <2>4, <2>5 DEF WorkerStep, TaskStep
<1> QED
  BY <1>2, <1>3, StepsByGroup DEF workerVars

-----------------------------------------------------------------------------
LEMMA InitSound == Init => RunsInv
<1> SUFFICES ASSUME Init PROVE RunsInv
  OBVIOUS
<1>1. DbTypes
  BY DEF Init, DbTypes, TicketStatus, RunStatus
<1>2. StartTypes /\ MemoryTypes
  BY DEF Init, StartTypes, Approved, MemoryTypes, NoStart, NoCancel, Start, StartPhase,
     Cancel, TicketStatus
<1>3. StreamTypes /\ WireIsSound
  BY DEF Init, StreamTypes, WireIsSound, IdleHandler, Handler
<1>4. WorkerTypes /\ spent \in [Disturbance -> Nat]
  <2>1. forgotten \in BOOLEAN
    BY DEF Init
  <2> QED
    BY <2>1, LimitAssumption DEF Init, WorkerTypes
<1>5. StepsKnowRows
  BY DEF Init, StepsKnowRows, NoStart, NoCancel, IdleHandler
<1> QED
  BY <1>1, <1>2, <1>3, <1>4, <1>5 DEF RunsInv, TypeOK

LEMMA RunsInvStep == RunsInv /\ [Next]_vars => RunsInv'
<1> SUFFICES ASSUME RunsInv, [Next]_vars PROVE RunsInv'
  OBVIOUS
<1>a. \A r \in Run : HasRow(r) => HasRow(r)'
  BY RowsMove
<1>1. DbTypes'
  BY DbTypesStep DEF RunsInv
<1>2. /\ StartTypes'
      /\ \A r \in Run : start'[r].phase \in {"read", "checked"} => ~HasRow(r)'
      /\ \A r \in Run : start'[r].phase = "held" => HasRow(r)'
  BY StartKnownStep DEF StartKnown, StartTypes
<1>3. /\ MemoryTypes'
      /\ \A r \in Run : cancel'[r].phase = "committed" => Ended(r)'
  BY CancelKnownStep
<1>4. WireIsSound'
  <2>1. \A s \in Seq(SoundUp) : s \in Seq(SoundUp')
    BY SoundnessKept, SeqMonotonic
  <2>2. up' \in [Gen -> Seq(SoundUp')]
    BY <2>1, UpStepSound
  <2>3. down' \in Seq(SoundDown') /\ retained' \in Seq(SoundRetained')
    BY SoundnessKept, SeqMonotonic, DownStepSound, WorkerStepSound
  <2> QED
    BY <2>2, <2>3 DEF WireIsSound
<1>5. StreamTypes'
  <2>1. SoundUp' \subseteq UpMsg /\ SoundDown' \subseteq DownMsg
    BY DEF SoundUp, SoundDown
  <2>2. \A s \in Seq(SoundUp') : s \in Seq(UpMsg)
    BY <2>1, SeqMonotonic
  <2>3. down' \in Seq(DownMsg)
    BY <1>4, <2>1, SeqMonotonic DEF WireIsSound
  <2>4. up' \in [Gen -> Seq(UpMsg)]
    BY <1>4, <2>2 DEF WireIsSound
  <2> QED
    BY <2>3, <2>4, HandlerKnownStep DEF StreamTypes
<1>6. WorkerTypes'
  <2>1. SoundRetained' \subseteq Retained
    BY DEF SoundRetained
  <2>2. retained' \in Seq(Retained)
    BY <1>4, <2>1, SeqMonotonic DEF WireIsSound
  <2>3. forgotten' \in BOOLEAN
    BY ForgottenStep DEF RunsInv, TypeOK, WorkerTypes
  <2> QED
    BY <2>2, <2>3, WorkerStepSound DEF WorkerKnown, WorkerTypes
<1>7. spent' \in [Disturbance -> Nat]
  BY SpentStep DEF RunsInv, TypeOK
<1>8. StepsKnowRows'
  <2>1. \A r \in Run : task'[r] # "none" => HasRow(r)'
    BY <1>a, WorkerStepSound
  <2>2. \A g \in Gen : /\ handler'[g].phase # "idle" => HasRow(handler[g].run)'
                       /\ handler'[g].phase = "committed" => Ended(handler[g].run)'
    BY HandlerKnownStep DEF HandlerKnown
  <2> QED
    BY <1>2, <1>3, <2>1, <2>2 DEF StepsKnowRows
<1> QED
  BY <1>1, <1>2, <1>3, <1>4, <1>5, <1>6, <1>7, <1>8 DEF RunsInv, TypeOK

\* The inductive invariant holds: whatever is lost, cancelled, restarted or
\* replayed, what is on the wire and between two awaits is about rows that exist.
THEOREM RunsInvariant == Spec => []RunsInv
BY InitSound, RunsInvStep, PTL DEF Spec

\* The variables keep their types.
THEOREM TypeCorrect == Spec => []TypeOK
<1>1. RunsInv => TypeOK
  BY DEF RunsInv
<1> QED
  BY <1>1, RunsInvariant, PTL

\* The worker is told to forget a terminal only once the gateway's row has
\* ended, so no verdict is dropped that the gateway could still need.
THEOREM AckedRunsEndedHolds == Spec => []AckedRunsEnded
<1>1. RunsInv => AckedRunsEnded
  <2> SUFFICES ASSUME RunsInv, NEW i \in 1..Len(down), down[i].type = "ack"
               PROVE  ~Running(down[i].run)
    BY DEF AckedRunsEnded
  <2>1. down \in Seq(SoundDown)
    BY DEF RunsInv, WireIsSound
  <2>2. down[i] \in SoundDown
    BY <2>1
  <2> QED
    BY <2>2 DEF SoundDown, Ended, Running, Verdict
<1> QED
  BY <1>1, RunsInvariant, PTL

\* How a run ended is final: no terminal, cancellation, expiry, compensation or
\* restart that comes second changes it.
THEOREM EndedRunsStayHolds == Spec => EndedRunsStay
<1> DEFINE Final == \A r \in Run : run[r] \in Verdict => run'[r] = run[r]
<1>1. RunsInv /\ [Next]_vars => [Final]_vars
  BY RowsMove DEF Ended
<1> QED
  BY <1>1, RunsInvariant, PTL DEF Spec, EndedRunsStay

-----------------------------------------------------------------------------
(* Tickets and their runs.                                                 *)

\* Where the actions of a run lead in the status graph.
LEMMA Graph ==
  /\ \A s : HasEdge(s, "startRun") =>
       s \in {"open", "escalated"} /\ After(s, "startRun") = "routing"
  /\ \A s : HasEdge(s, "firstTool") => s = "routing" /\ After(s, "firstTool") = "resolving"
  /\ \A s : HasEdge(s, "fail") <=> s = "resolving"
  /\ After("resolving", "fail") = "escalated"
  /\ \A v \in Verdict, s \in {"routing", "resolving"} : HasEdge(s, ActionOf(v)) =>
       /\ s = "resolving"
       /\ After(s, ActionOf(v)) = IF v = "resolved" THEN "resolved" ELSE "escalated"
<1> DEFINE E(s, a) == {e \in Transitions : e[1] = s /\ e[2] = a}
<1>1. ASSUME NEW s, NEW a, NEW u, E(s, a) = {<<s, a, u>>} PROVE After(s, a) = u
  <2>1. (CHOOSE e \in Transitions : e[1] = s /\ e[2] = a) \in E(s, a)
    <3>1. <<s, a, u>> \in E(s, a)
      BY <1>1
    <3>2. <<s, a, u>> \in Transitions /\ <<s, a, u>>[1] = s /\ <<s, a, u>>[2] = a
      BY <3>1
    <3> QED
      BY <3>2
  <2> DEFINE c == CHOOSE e \in Transitions : e[1] = s /\ e[2] = a
  <2>2. After(s, a) = c[3]
    BY DEF After
  <2>3. c = <<s, a, u>>
    BY <1>1, <2>1
  <2> HIDE DEF c
  <2> QED
    BY <2>2, <2>3
<1>3. /\ After("open", "startRun") = "routing" /\ After("escalated", "startRun") = "routing"
      /\ After("routing", "firstTool") = "resolving"
      /\ After("resolving", "fail") = "escalated" /\ After("resolving", "exhaust") = "escalated"
      /\ After("resolving", "escalate") = "escalated"
      /\ After("resolving", "resolve") = "resolved"
  <2>1. E("open", "startRun") = {<<"open", "startRun", "routing">>}
    BY DEF Transitions
  <2>2. E("escalated", "startRun") = {<<"escalated", "startRun", "routing">>}
    BY DEF Transitions
  <2>3. E("routing", "firstTool") = {<<"routing", "firstTool", "resolving">>}
    BY DEF Transitions
  <2>4. E("resolving", "fail") = {<<"resolving", "fail", "escalated">>}
    BY DEF Transitions
  <2>5. E("resolving", "exhaust") = {<<"resolving", "exhaust", "escalated">>}
    BY DEF Transitions
  <2>6. E("resolving", "escalate") = {<<"resolving", "escalate", "escalated">>}
    BY DEF Transitions
  <2>7. E("resolving", "resolve") = {<<"resolving", "resolve", "resolved">>}
    BY DEF Transitions
  <2>8. After("open", "startRun") = "routing"
    BY <1>1, <2>1
  <2>9. After("escalated", "startRun") = "routing"
    BY <1>1, <2>2
  <2>10. After("routing", "firstTool") = "resolving"
    BY <1>1, <2>3
  <2>11. After("resolving", "fail") = "escalated"
    BY <1>1, <2>4
  <2>12. After("resolving", "exhaust") = "escalated"
    BY <1>1, <2>5
  <2>13. After("resolving", "escalate") = "escalated"
    BY <1>1, <2>6
  <2>14. After("resolving", "resolve") = "resolved"
    BY <1>1, <2>7
  <2> QED
    BY <2>8, <2>9, <2>10, <2>11, <2>12, <2>13, <2>14
<1>4. /\ \A s : HasEdge(s, "startRun") => s \in {"open", "escalated"}
      /\ \A s : HasEdge(s, "firstTool") => s = "routing"
      /\ \A s : HasEdge(s, "fail") <=> s = "resolving"
      /\ \A a \in {"fail", "exhaust", "escalate", "resolve"} : ~HasEdge("routing", a)
  BY DEF HasEdge, Transitions
<1>5. /\ ActionOf("resolved") = "resolve" /\ ActionOf("failed") = "fail"
      /\ ActionOf("exhausted") = "exhaust" /\ ActionOf("escalated") = "escalate"
  BY DEF ActionOf
<1> QED
  BY <1>3, <1>4, <1>5 DEF Verdict

\* The latest run of a ticket is one of its runs, and inserting one replaces it.
LEMMA LatestIsOfTicket ==
  ASSUME inserted \in Seq(Run), NEW t \in Ticket, NEW r \in Latest(t)
  PROVE  r \in Run /\ TicketOf[r] = t
BY DEF Latest

LEMMA LatestAfterInsert ==
  ASSUME inserted \in Seq(Run), NEW r \in Run, inserted' = Append(inserted, r),
         NEW t \in Ticket
  PROVE  Latest(t)' = IF TicketOf[r] = t THEN {r} ELSE Latest(t)
<1> DEFINE n == Len(inserted)
<1>1. /\ n \in Nat /\ Len(inserted') = n + 1 /\ inserted'[n + 1] = r
      /\ \A i \in 1..n : inserted'[i] = inserted[i]
  OBVIOUS
<1>2. CASE TicketOf[r] = t
  <2>1. ASSUME NEW j \in 1..(n + 1)
        PROVE  (\A k \in 1..(n + 1) : TicketOf[inserted'[k]] = t => k <= j) <=> j = n + 1
    BY <1>1, <1>2, <2>1
  <2> QED
    BY <1>1, <1>2, <2>1 DEF Latest
<1>3. CASE TicketOf[r] # t
  <2>1. \A j : j \in 1..(n + 1) /\ TicketOf[inserted'[j]] = t <=>
                 j \in 1..n /\ TicketOf[inserted[j]] = t
    BY <1>1, <1>3
  <2>2. \A j \in 1..n : (\A k \in 1..(n + 1) : TicketOf[inserted'[k]] = t => k <= j) <=>
                        (\A k \in 1..n : TicketOf[inserted[k]] = t => k <= j)
    BY <2>1
  <2>3. Latest(t)' = {inserted'[i] : i \in {j \in 1..(n + 1) :
           /\ TicketOf[inserted'[j]] = t
           /\ \A k \in 1..(n + 1) : TicketOf[inserted'[k]] = t => k <= j}}
    BY <1>1 DEF Latest
  <2>4. Latest(t) = {inserted[i] : i \in {j \in 1..n :
           /\ TicketOf[inserted[j]] = t
           /\ \A k \in 1..n : TicketOf[inserted[k]] = t => k <= j}}
    BY DEF Latest
  <2> HIDE DEF n
  <2> QED
    BY <1>1, <1>3, <2>1, <2>2, <2>3, <2>4
<1> QED
  BY <1>2, <1>3

\* What has been disturbed stays disturbed.
LEMMA AloneBefore ==
  ASSUME RunsInv, [Next]_vars
  PROVE  /\ \A t \in Ticket : Alone(t)' => Alone(t)
         /\ spent["restart"]' = 0 => spent["restart"] = 0
<1>a. spent \in [Disturbance -> Nat] /\ {"human", "restart"} \subseteq Disturbance
  BY DEF RunsInv, TypeOK, Disturbance
<1>1. UNCHANGED spent \/ \E d \in Disturbance : spent' = [spent EXCEPT ![d] = @ + 1]
  BY SpentMoves DEF Spend
<1>2. \A d \in Disturbance : spent'[d] = 0 => spent[d] = 0
  BY <1>1, <1>a
<1>3. strayed \subseteq strayed'
  <2>1. CASE UNCHANGED dbVars
    BY <2>1 DEF dbVars
  <2>2. CASE DbStep
    BY <2>2 DEF DbStep, CommitStart, HoldRun, UndoStart, LeaseLapses, CommitCancel,
       TakeAccepted, TakeStep, TakeTool, FirstTool, TakeTerminal, CommitTerminal,
       GatewayRestart, HumanAct
  <2> QED
    BY <2>1, <2>2, StepsByGroup
<1> QED
  BY <1>2, <1>3, <1>a DEF Alone

\* What TicketsInv says of one ticket.
TicketHeld(t) ==
  /\ \A r \in Run : TicketOf[r] = t /\ Running(r) =>
       /\ ticket[t] \in {"routing", "resolving"} /\ r \in Latest(t)
       /\ cancel[r].phase = "begun" /\ cancel[r].seen = "resolving" => ticket[t] = "resolving"
       /\ \A q \in Run : TicketOf[q] = t /\ Running(q) => q = r
  /\ spent["restart"] = 0 /\ ticket[t] = "routing" =>
       \E r \in Run : TicketOf[r] = t /\ Running(r)
  /\ ticket[t] \in {"resolved", "escalated"} =>
       \E r \in Latest(t) : (ticket[t] = "resolved") <=> (run[r] = "resolved")
CancelsHaveRow == \A r \in Run : cancel[r].phase = "begun" => HasRow(r)

LEMMA ByTicket ==
  RunsInv => (TicketsInv <=> CancelsHaveRow /\ \A t \in Ticket : Alone(t) => TicketHeld(t))
<1> SUFFICES ASSUME RunsInv
             PROVE  TicketsInv <=> CancelsHaveRow /\ \A t \in Ticket : Alone(t) => TicketHeld(t)
  OBVIOUS
<1>a. \A r \in Run : TicketOf[r] \in Ticket
  BY TicketOfAssumption
<1>1. ASSUME TicketsInv
      PROVE  CancelsHaveRow /\ \A t \in Ticket : Alone(t) => TicketHeld(t)
  BY <1>1, <1>a DEF TicketsInv, RunningHasTicket, CancelSaw, OneRunPerTicket,
     RoutingMeansRun, LatestRunDecides, TicketHeld, CancelsHaveRow
<1>2. ASSUME CancelsHaveRow, \A t \in Ticket : Alone(t) => TicketHeld(t)
      PROVE  TicketsInv
  <2>1. RunningHasTicket /\ CancelSaw /\ OneRunPerTicket
    BY <1>2, <1>a DEF RunningHasTicket, CancelSaw, OneRunPerTicket, TicketHeld, CancelsHaveRow
  <2>2. RoutingMeansRun /\ LatestRunDecides
    BY <1>2 DEF RoutingMeansRun, LatestRunDecides, TicketHeld
  <2> QED
    BY <2>1, <2>2 DEF TicketsInv
<1> QED
  BY <1>1, <1>2

\* A step that leaves the ticket and its runs alone, and whose cancellations
\* see the ticket as it is, keeps it.
LEMMA TicketLeft ==
  ASSUME NEW t \in Ticket, TicketHeld(t), inserted \in Seq(Run),
         ticket'[t] = ticket[t], Latest(t)' = Latest(t),
         \A r \in Run : TicketOf[r] = t => run'[r] = run[r],
         \A r \in Run : TicketOf[r] = t /\ Running(r) /\ cancel'[r].phase = "begun"
                          /\ cancel'[r].seen = "resolving" =>
           \/ cancel[r].phase = "begun" /\ cancel[r].seen = "resolving"
           \/ ticket[t] = "resolving",
         spent'["restart"] = 0 => spent["restart"] = 0
  PROVE  TicketHeld(t)'
<1>1. \A r \in Latest(t) : r \in Run /\ run'[r] = run[r]
  BY LatestIsOfTicket
<1>2. \A r \in Run : TicketOf[r] = t => (Running(r)' <=> Running(r))
  BY DEF Running
<1>3. \A r \in Run : TicketOf[r] = t /\ Running(r) =>
        /\ ticket'[t] \in {"routing", "resolving"} /\ r \in Latest(t)'
        /\ cancel'[r].phase = "begun" /\ cancel'[r].seen = "resolving" => ticket'[t] = "resolving"
        /\ \A q \in Run : TicketOf[q] = t /\ Running(q) => q = r
  BY DEF TicketHeld
<1>4. spent'["restart"] = 0 /\ ticket'[t] = "routing" =>
        \E r \in Run : TicketOf[r] = t /\ Running(r)
  BY DEF TicketHeld
<1>5. ticket'[t] \in {"resolved", "escalated"} =>
        \E r \in Latest(t)' : (ticket'[t] = "resolved") <=> (run'[r] = "resolved")
  BY <1>1 DEF TicketHeld
<1> QED
  BY <1>2, <1>3, <1>4, <1>5 DEF TicketHeld

\* The running run of the ticket ends, and the ticket is left as it ended.
LEMMA RunEnds ==
  ASSUME NEW t \in Ticket, TicketHeld(t), NEW r \in Run, TicketOf[r] = t, Running(r),
         Latest(t)' = Latest(t), run'[r] \in Verdict,
         \A q \in Run \ {r} : TicketOf[q] = t => run'[q] = run[q],
         ticket'[t] = "routing" => spent'["restart"] # 0,
         ticket'[t] \in {"resolved", "escalated"} =>
           ((ticket'[t] = "resolved") <=> (run'[r] = "resolved"))
  PROVE  TicketHeld(t)'
<1>1. \A q \in Run : TicketOf[q] = t => ~Running(q)'
  <2>1. \A q \in Run : TicketOf[q] = t /\ Running(q) => q = r
    BY DEF TicketHeld
  <2> QED
    BY <2>1 DEF Running, Verdict
<1>2. r \in Latest(t)'
  BY DEF TicketHeld
<1> QED
  BY <1>1, <1>2 DEF TicketHeld

\* The types these proofs use.
LEMMA TicketTypes ==
  ASSUME RunsInv
  PROVE  /\ ticket \in [Ticket -> TicketStatus] /\ run \in [Run -> RunStatus]
         /\ inserted \in Seq(Run) /\ start \in [Run -> Start] /\ cancel \in [Run -> Cancel]
         /\ handler \in [Gen -> Handler] /\ TicketOf \in [Run -> Ticket]
         /\ spent \in [Disturbance -> Nat]
BY TicketOfAssumption DEF RunsInv, TypeOK, DbTypes, StartTypes, MemoryTypes, StreamTypes

\* A start routes a ticket only from a status in which no run of it runs.
LEMMA TicketAtCommitStart ==
  ASSUME TicketsInv, [Next]_vars, NEW r \in Run, CommitStart(r),
         NEW t \in Ticket, Alone(t)'
  PROVE  TicketHeld(t)'
<1>a. RunsInv /\ CancelsHaveRow /\ TicketHeld(t) /\ (spent'["restart"] = 0 => spent["restart"] = 0)
  BY ByTicket, AloneBefore DEF TicketsInv
<1>b. /\ ticket \in [Ticket -> TicketStatus] /\ run \in [Run -> RunStatus]
      /\ inserted \in Seq(Run) /\ start \in [Run -> Start] /\ TicketOf \in [Run -> Ticket]
  BY <1>a, TicketTypes
<1>1. UNCHANGED cancel
  BY DEF CommitStart
<1>2. CASE UNCHANGED <<ticket, run, inserted>>
  BY <1>a, <1>b, <1>1, <1>2, TicketLeft DEF Latest
<1>3. CASE /\ Unmoved(r) /\ ticket' = [ticket EXCEPT ![TicketOf[r]] = Routed(r)]
           /\ run' = [run EXCEPT ![r] = "running"] /\ inserted' = Append(inserted, r)
  <2>1. HasEdge(start[r].from, "startRun") /\ ~HasRow(r)
    BY <1>a DEF CommitStart, RunsInv, TypeOK, StartTypes, Approved, StepsKnowRows
  <2>2. ticket[TicketOf[r]] \in {"open", "escalated"} /\ Routed(r) = "routing"
    BY <1>3, <2>1, Graph DEF Unmoved, Routed
  <2>3. CASE TicketOf[r] # t
    <3>1. Latest(t)' = Latest(t) /\ ticket'[t] = ticket[t]
      BY <1>3, <1>b, <2>3, LatestAfterInsert
    <3>2. \A q \in Run : TicketOf[q] = t => run'[q] = run[q]
      BY <1>3, <1>b, <2>3
    <3> QED
      BY <3>1, <3>2, <1>a, <1>b, <1>1, TicketLeft
  <2>4. CASE TicketOf[r] = t
    <3>1. Latest(t)' = {r} /\ ticket'[t] = "routing" /\ run'[r] = "running"
      BY <1>3, <1>b, <2>2, <2>4, LatestAfterInsert
    <3>2. \A q \in Run : TicketOf[q] = t => ~Running(q)
      BY <1>a, <2>2, <2>4 DEF TicketHeld
    <3>3. \A q \in Run : TicketOf[q] = t /\ Running(q)' => q = r
      BY <1>3, <1>b, <3>2 DEF Running
    <3>4. cancel'[r].phase # "begun"
      BY <1>a, <1>1, <2>1 DEF CancelsHaveRow
    <3> QED
      BY <2>4, <3>1, <3>3, <3>4 DEF TicketHeld, Running
  <2> QED
    BY <2>3, <2>4
<1> QED
  BY <1>2, <1>3 DEF CommitStart

\* A start that is undone ends its run; one that comes late strays the ticket.
LEMMA TicketAtUndoStart ==
  ASSUME TicketsInv, [Next]_vars, NEW r \in Run, UndoStart(r),
         NEW t \in Ticket, Alone(t)'
  PROVE  TicketHeld(t)'
<1>a. RunsInv /\ TicketHeld(t) /\ (spent'["restart"] = 0 => spent["restart"] = 0)
  BY ByTicket, AloneBefore DEF TicketsInv
<1>b. /\ ticket \in [Ticket -> TicketStatus] /\ run \in [Run -> RunStatus]
      /\ inserted \in Seq(Run) /\ start \in [Run -> Start] /\ TicketOf \in [Run -> Ticket]
  BY <1>a, TicketTypes
<1>1. UNCHANGED <<cancel, inserted>> /\ Latest(t)' = Latest(t)
  BY DEF UndoStart, Latest
<1>2. \A q \in Run \ {r} : run'[q] = run[q]
  BY <1>b DEF UndoStart
<1>3. HasEdge(start[r].from, "startRun")
  BY <1>a DEF UndoStart, RunsInv, TypeOK, StartTypes, Approved
<1>4. start[r].from \in {"open", "escalated"} /\ Routed(r) = "routing"
  BY <1>3, Graph DEF Routed
<1>5. CASE TicketOf[r] # t
  <2>1. ticket'[t] = ticket[t]
    BY <1>b, <1>5 DEF UndoStart, Restored
  <2> QED
    BY <2>1, <1>a, <1>b, <1>1, <1>2, <1>5, TicketLeft
<1>6. CASE TicketOf[r] = t /\ Running(r)
  <2>1. run'[r] = "failed"
    BY <1>6, <1>b DEF UndoStart
  <2>2. ticket'[t] = IF ticket[t] = "routing" THEN start[r].from ELSE ticket[t]
    BY <1>6, <1>4, <1>b DEF UndoStart, Restored
  <2>3. ticket[t] \in {"routing", "resolving"}
    BY <1>6, <1>a DEF TicketHeld
  <2>4. ticket'[t] \in {"open", "escalated", "resolving"}
    BY <2>2, <2>3, <1>4
  <2> QED
    BY <2>1, <2>4, <1>a, <1>1, <1>2, <1>6, RunEnds DEF Verdict
<1>7. CASE TicketOf[r] = t /\ ~Running(r)
  <2>1. ticket[t] # "routing"
    BY <1>4, <1>7 DEF UndoStart, Alone
  <2>2. ticket'[t] = ticket[t]
    BY <2>1, <1>4, <1>7, <1>b DEF UndoStart, Restored
  <2>3. run'[r] = run[r]
    BY <1>7, <1>b DEF UndoStart
  <2> QED
    BY <2>2, <2>3, <1>a, <1>b, <1>1, <1>2, TicketLeft
<1> QED
  BY <1>5, <1>6, <1>7

\* The first tool of a run, running or not, turns routing into resolving.
LEMMA TicketAtFirstTool ==
  ASSUME TicketsInv, [Next]_vars, NEW g \in Gen, FirstTool(g),
         NEW t \in Ticket, Alone(t)'
  PROVE  TicketHeld(t)'
<1>a. RunsInv /\ TicketHeld(t)
  BY ByTicket, AloneBefore DEF TicketsInv
<1>b. ticket \in [Ticket -> TicketStatus] /\ inserted \in Seq(Run)
  BY <1>a, TicketTypes
<1>1. UNCHANGED <<cancel, inserted, run, spent>> /\ Latest(t)' = Latest(t)
  BY DEF FirstTool, Latest
<1>2. \/ ticket'[t] = ticket[t]
      \/ ticket[t] = "routing" /\ ticket'[t] = "resolving"
  BY <1>b, Graph DEF FirstTool
<1>3. CASE ticket'[t] = ticket[t]
  BY <1>3, <1>a, <1>b, <1>1, TicketLeft
<1>4. CASE ticket[t] = "routing" /\ ticket'[t] = "resolving"
  BY <1>4, <1>a, <1>1 DEF TicketHeld, Running
<1> QED
  BY <1>2, <1>3, <1>4

\* A terminal decides the ticket of the run that is running.
LEMMA TicketAtCommitTerminal ==
  ASSUME TicketsInv, [Next]_vars, NEW g \in Gen, CommitTerminal(g),
         NEW t \in Ticket, Alone(t)'
  PROVE  TicketHeld(t)'
<1> DEFINE r == handler[g].run
           v == handler[g].status
<1>a. RunsInv /\ TicketHeld(t)
  BY ByTicket, AloneBefore DEF TicketsInv
<1>b. /\ ticket \in [Ticket -> TicketStatus] /\ run \in [Run -> RunStatus]
      /\ inserted \in Seq(Run) /\ handler \in [Gen -> Handler] /\ TicketOf \in [Run -> Ticket]
  BY <1>a, TicketTypes
<1>c. r \in Run /\ v \in Verdict
  BY <1>b DEF CommitTerminal, Handler
<1>1. UNCHANGED <<cancel, inserted, spent>> /\ Latest(t)' = Latest(t)
  BY DEF CommitTerminal, Latest
<1>2. CASE UNCHANGED <<ticket, run>>
  BY <1>2, <1>a, <1>b, <1>1, TicketLeft
<1>3. CASE /\ Running(r) /\ HasEdge(ticket[TicketOf[r]], ActionOf(v))
           /\ run' = [run EXCEPT ![r] = v]
           /\ ticket' = [ticket EXCEPT ![TicketOf[r]] = After(@, ActionOf(v))]
  <2> HIDE DEF r, v
  <2>1. \A q \in Run \ {r} : run'[q] = run[q]
    BY <1>3, <1>b
  <2>2. CASE TicketOf[r] # t
    <3>1. ticket'[t] = ticket[t]
      BY <1>3, <1>b, <2>2
    <3> QED
      BY <3>1, <2>1, <2>2, <1>a, <1>b, <1>1, TicketLeft
  <2>3. CASE TicketOf[r] = t
    <3>1. ticket[t] \in {"routing", "resolving"}
      BY <1>3, <1>a, <1>c, <2>3 DEF TicketHeld
    <3>2. After(ticket[t], ActionOf(v)) = IF v = "resolved" THEN "resolved" ELSE "escalated"
      BY <1>3, <1>c, <2>3, <3>1, Graph
    <3>3. ticket'[t] = (IF v = "resolved" THEN "resolved" ELSE "escalated") /\ run'[r] = v
      BY <1>3, <1>b, <1>c, <2>3, <3>2
    <3> QED
      BY <3>3, <2>1, <2>3, <1>a, <1>c, <1>1, <1>3, RunEnds
  <2> QED
    BY <2>2, <2>3
<1> QED
  BY <1>2, <1>3 DEF CommitTerminal, Finishable

\* A cancellation reads the ticket of a running run.
LEMMA TicketAtBegin ==
  ASSUME TicketsInv, [Next]_vars, NEW r \in Run, BeginCancel(r) \/ BeginExpiry(r),
         NEW t \in Ticket, Alone(t)'
  PROVE  TicketHeld(t)'
<1>a. RunsInv /\ TicketHeld(t) /\ (spent'["restart"] = 0 => spent["restart"] = 0)
  BY ByTicket, AloneBefore DEF TicketsInv
<1>b. inserted \in Seq(Run) /\ cancel \in [Run -> Cancel]
  BY <1>a, TicketTypes
<1>1. UNCHANGED <<ticket, run, inserted>> /\ Latest(t)' = Latest(t)
  BY DEF BeginCancel, BeginExpiry, Begin, dbVars, Latest
<1>2. PICK c : cancel' = [cancel EXCEPT ![r] = c] /\ c.seen = ticket[TicketOf[r]]
  <2>1. PICK sweep \in BOOLEAN : Begin(r, sweep)
    BY DEF BeginCancel, BeginExpiry
  <2> DEFINE c == [phase |-> "begun", sweep |-> sweep, seen |-> ticket[TicketOf[r]],
                   gen |-> IF r \in assigned THEN agent ELSE NoGen]
  <2>2. cancel' = [cancel EXCEPT ![r] = c] /\ c.seen = ticket[TicketOf[r]]
    BY <2>1 DEF Begin
  <2> QED
    BY <2>2
<1>3. \A q \in Run : cancel'[q] = cancel[q] \/ cancel'[q].seen = ticket[TicketOf[q]]
  BY <1>2, <1>b
<1> QED
  BY <1>1, <1>3, <1>a, <1>b, TicketLeft

\* A cancellation fails the running run and escalates what it was resolving.
LEMMA TicketAtCommitCancel ==
  ASSUME TicketsInv, [Next]_vars, NEW r \in Run, CommitCancel(r),
         NEW t \in Ticket, Alone(t)'
  PROVE  TicketHeld(t)'
<1>a. RunsInv /\ TicketHeld(t)
  BY ByTicket, AloneBefore DEF TicketsInv
<1>b. /\ ticket \in [Ticket -> TicketStatus] /\ run \in [Run -> RunStatus]
      /\ inserted \in Seq(Run) /\ cancel \in [Run -> Cancel] /\ TicketOf \in [Run -> Ticket]
  BY <1>a, TicketTypes
<1>1. UNCHANGED <<inserted, spent>> /\ Latest(t)' = Latest(t)
  BY DEF CommitCancel, Latest
<1>2. \A q \in Run : cancel'[q] = cancel[q] \/ cancel'[q].phase # "begun"
  <2>1. \/ cancel' = [cancel EXCEPT ![r].phase = "committed"]
        \/ cancel' = [cancel EXCEPT ![r] = NoCancel]
    BY DEF CommitCancel, AfterThrow
  <2>2. NoCancel.phase = "none"
    BY DEF NoCancel
  <2>3. [cancel[r] EXCEPT !.phase = "committed"].phase = "committed"
    BY <1>b DEF Cancel
  <2> QED
    BY <1>b, <2>1, <2>2, <2>3
<1>3. CASE UNCHANGED <<ticket, run>>
  BY <1>3, <1>a, <1>b, <1>1, <1>2, TicketLeft
<1>4. CASE /\ Running(r) /\ HasEdge(cancel[r].seen, "fail")
           /\ run' = [run EXCEPT ![r] = "failed"]
           /\ ticket' = [ticket EXCEPT ![TicketOf[r]] =
                IF @ = cancel[r].seen THEN After(@, "fail") ELSE @]
  <2>1. /\ run'[r] = "failed" /\ \A q \in Run \ {r} : run'[q] = run[q]
        /\ cancel[r].seen = "resolving" /\ After("resolving", "fail") = "escalated"
    BY <1>4, <1>b, Graph
  <2>2. CASE TicketOf[r] # t
    <3>1. ticket'[t] = ticket[t]
      BY <1>4, <1>b, <2>2
    <3> QED
      BY <3>1, <2>1, <2>2, <1>a, <1>b, <1>1, <1>2, TicketLeft
  <2>3. CASE TicketOf[r] = t
    <3>1. ticket[t] = "resolving"
      BY <1>4, <1>a, <2>1, <2>3 DEF TicketHeld, CommitCancel
    <3>2. ticket'[t] = "escalated"
      BY <1>4, <1>b, <2>1, <2>3, <3>1
    <3> QED
      BY <3>2, <2>1, <2>3, <1>a, <1>1, <1>4, RunEnds DEF Verdict
  <2> QED
    BY <2>2, <2>3
<1> QED
  BY <1>3, <1>4 DEF CommitCancel, CancelHits

\* reconcileOrphans fails the running run of a ticket that has lost its lease.
LEMMA TicketAtRestart ==
  ASSUME TicketsInv, [Next]_vars, GatewayRestart, NEW t \in Ticket, Alone(t)'
  PROVE  TicketHeld(t)'
<1> DEFINE orphans == {r \in Run : Running(r) /\ lease[r] # "live"}
<1>a. RunsInv /\ TicketHeld(t) /\ (spent'["restart"] = 0 => spent["restart"] = 0)
  BY ByTicket, AloneBefore DEF TicketsInv
<1>b. /\ run \in [Run -> RunStatus] /\ inserted \in Seq(Run)
      /\ spent \in [Disturbance -> Nat] /\ "restart" \in Disturbance
  BY <1>a, TicketTypes DEF Disturbance
<1>1. UNCHANGED inserted /\ Latest(t)' = Latest(t)
  BY DEF GatewayRestart, Latest
<1>2. \A q \in Run : cancel'[q].phase # "begun"
  BY DEF GatewayRestart, NoCancel
<1>3. \A q \in Run : run'[q] = IF q \in orphans THEN "failed" ELSE run[q]
  BY DEF GatewayRestart
<1>4. ticket'[t] = IF (\E q \in orphans : TicketOf[q] = t) /\ HasEdge(ticket[t], "fail")
                     THEN After(ticket[t], "fail") ELSE ticket[t]
  BY DEF GatewayRestart
<1>5. spent'["restart"] # 0
  BY <1>b DEF GatewayRestart, Spend
<1> HIDE DEF orphans
<1>6. CASE ~\E q \in orphans : TicketOf[q] = t
  BY <1>1, <1>2, <1>3, <1>4, <1>6, <1>a, <1>b, TicketLeft
<1>7. ASSUME NEW q \in orphans, TicketOf[q] = t PROVE TicketHeld(t)'
  <2>1. q \in Run /\ Running(q) /\ run'[q] = "failed"
    BY <1>3, <1>7 DEF orphans
  <2>2. \A p \in Run \ {q} : TicketOf[p] = t => run'[p] = run[p]
    <3>1. ASSUME NEW p \in Run \ {q}, TicketOf[p] = t PROVE p \notin orphans
      BY <3>1, <2>1, <1>7, <1>a DEF TicketHeld, orphans
    <3> QED
      BY <3>1, <1>3
  <2>3. ticket[t] \in {"routing", "resolving"}
    BY <2>1, <1>7, <1>a DEF TicketHeld
  <2>4. ticket'[t] = IF ticket[t] = "resolving" THEN "escalated" ELSE "routing"
    BY <2>3, <1>4, <1>7, Graph
  <2> QED
    BY <2>1, <2>2, <2>4, <1>1, <1>5, <1>7, <1>a, RunEnds DEF Verdict
<1> QED
  BY <1>6, <1>7

LEMMA TicketsInvInit == Init => TicketsInv
<1> SUFFICES ASSUME Init PROVE TicketsInv
  OBVIOUS
<1>1. RunsInv
  BY InitSound
<1>2. CancelsHaveRow
  BY DEF Init, CancelsHaveRow, NoCancel
<1>3. \A t \in Ticket : TicketHeld(t)
  BY DEF Init, TicketHeld, Running
<1> QED
  BY <1>1, <1>2, <1>3, ByTicket

\* A cancellation under way is about a run that has a row.
LEMMA CancelsHaveRowStep ==
  ASSUME TicketsInv, [Next]_vars PROVE CancelsHaveRow'
<1>a. RunsInv /\ CancelsHaveRow /\ cancel \in [Run -> Cancel]
  BY ByTicket, TicketTypes DEF TicketsInv
<1>b. \A q \in Run : HasRow(q) => HasRow(q)'
  BY <1>a, RowsMove
<1>1. \A q \in Run : \/ cancel'[q] = cancel[q] \/ cancel'[q].phase # "begun" \/ HasRow(q)
  <2>1. CASE UNCHANGED <<assigned, agent, told, cancel>>
    BY <2>1
  <2>2. ASSUME NEW r \in Run, BeginCancel(r) \/ BeginExpiry(r)
        PROVE  \A q \in Run : cancel'[q] = cancel[q] \/ HasRow(q)
    <3>1. Running(r)
      BY <2>2 DEF BeginCancel, BeginExpiry, Begin
    <3>2. \E c : cancel' = [cancel EXCEPT ![r] = c]
      <4>1. PICK sweep \in BOOLEAN : Begin(r, sweep)
        BY <2>2 DEF BeginCancel, BeginExpiry
      <4> QED
        BY <4>1 DEF Begin
    <3> QED
      BY <1>a, <3>1, <3>2 DEF HasRow, Running
  <2>3. ASSUME NEW r \in Run, CommitCancel(r) \/ FinishCancel(r)
        PROVE  \A q \in Run : cancel'[q] = cancel[q] \/ cancel'[q].phase # "begun"
    <3>1. \/ cancel' = [cancel EXCEPT ![r].phase = "committed"]
          \/ cancel' = [cancel EXCEPT ![r] = NoCancel]
      BY <2>3 DEF CommitCancel, FinishCancel, AfterThrow
    <3>2. NoCancel.phase = "none"
      BY DEF NoCancel
    <3>3. [cancel[r] EXCEPT !.phase = "committed"].phase = "committed"
      BY <1>a DEF Cancel
    <3> QED
      BY <1>a, <3>1, <3>2, <3>3
  <2>4. CASE GatewayRestart
    BY <2>4 DEF GatewayRestart, NoCancel
  <2>5. \A r \in Run : SendStart(r) => UNCHANGED cancel
    BY DEF SendStart
  <2>6. \A g \in Gen : Register(g) \/ AckTerminal(g) \/ StreamClosed(g) => UNCHANGED cancel
    BY DEF Register, AckTerminal, StreamClosed
  <2> QED
    BY StepsByGroup, <2>1, <2>2, <2>3, <2>4, <2>5, <2>6 DEF MemoryStep, CancelStep
<1> QED
  BY <1>a, <1>b, <1>1 DEF CancelsHaveRow

\* A step that touches no row, no ticket and no cancellation.
LEMMA TicketAtRest ==
  ASSUME TicketsInv, [Next]_vars, UNCHANGED <<ticket, run, inserted>>,
         \A q \in Run : cancel'[q] = cancel[q] \/ cancel'[q].phase # "begun",
         NEW t \in Ticket, Alone(t)'
  PROVE  TicketHeld(t)'
<1>a. RunsInv /\ TicketHeld(t) /\ (spent'["restart"] = 0 => spent["restart"] = 0)
  BY ByTicket, AloneBefore DEF TicketsInv
<1>1. inserted \in Seq(Run) /\ Latest(t)' = Latest(t)
  BY <1>a, TicketTypes DEF Latest
<1> QED
  BY <1>a, <1>1, TicketLeft

\* The steps that move a ticket or a row.
LEMMA TicketMoves ==
  ASSUME [Next]_vars
  PROVE  \/ UNCHANGED <<ticket, run, inserted, strayed>> \/ GatewayRestart
         \/ \E r \in Run : CommitStart(r) \/ UndoStart(r) \/ CommitCancel(r)
         \/ \E g \in Gen : FirstTool(g) \/ CommitTerminal(g)
         \/ \E u \in Ticket : HumanAct(u)
<1>1. CASE DbStep
  BY <1>1 DEF DbStep, HoldRun, LeaseLapses, TakeAccepted, TakeStep, TakeTool,
     TakeTerminal
<1> QED
  BY <1>1, StepsByGroup DEF dbVars

LEMMA TicketsInvStep == TicketsInv /\ [Next]_vars => TicketsInv'
<1> SUFFICES ASSUME TicketsInv, [Next]_vars PROVE TicketsInv'
  OBVIOUS
<1>a. RunsInv /\ RunsInv' /\ cancel \in [Run -> Cancel]
  BY RunsInvStep, TicketTypes DEF TicketsInv
<1>1. ASSUME NEW t \in Ticket, Alone(t)' PROVE TicketHeld(t)'
  <2>1. ASSUME NEW r \in Run, CommitStart(r) \/ UndoStart(r) PROVE TicketHeld(t)'
    BY <1>1, <2>1, TicketAtCommitStart, TicketAtUndoStart
  <2>2. ASSUME NEW r \in Run, BeginCancel(r) \/ BeginExpiry(r) \/ CommitCancel(r)
        PROVE  TicketHeld(t)'
    BY <1>1, <2>2, TicketAtBegin, TicketAtCommitCancel
  <2>3. ASSUME NEW g \in Gen, FirstTool(g) \/ CommitTerminal(g) PROVE TicketHeld(t)'
    BY <1>1, <2>3, TicketAtFirstTool, TicketAtCommitTerminal
  <2>4. CASE GatewayRestart
    BY <1>1, <2>4, TicketAtRestart
  <2>5. ASSUME NEW u \in Ticket, HumanAct(u) PROVE FALSE
    <3>1. spent \in [Disturbance -> Nat] /\ "human" \in Disturbance
      BY <1>a, TicketTypes DEF Disturbance
    <3> QED
      BY <1>1, <2>5, <3>1 DEF HumanAct, Spend, Alone
  <2>6. ASSUME NEW r \in Run, FinishCancel(r) PROVE TicketHeld(t)'
    <3>1. cancel' = [cancel EXCEPT ![r] = NoCancel] /\ UNCHANGED <<ticket, run, inserted>>
      BY <2>6 DEF FinishCancel, dbVars
    <3>2. \A q \in Run : cancel'[q] = cancel[q] \/ cancel'[q].phase # "begun"
      BY <1>a, <3>1 DEF NoCancel
    <3> QED
      BY <1>1, <3>1, <3>2, TicketAtRest
  <2>7. CASE UNCHANGED <<ticket, run, inserted, cancel>>
    BY <1>1, <2>7, TicketAtRest
  <2>8. \/ UNCHANGED <<ticket, run, inserted, strayed>> \/ GatewayRestart
        \/ \E r \in Run : CommitStart(r) \/ UndoStart(r) \/ CommitCancel(r)
        \/ \E g \in Gen : FirstTool(g) \/ CommitTerminal(g)
        \/ \E u \in Ticket : HumanAct(u)
    BY TicketMoves
  <2>9. \/ UNCHANGED cancel \/ GatewayRestart
        \/ \E r \in Run : BeginCancel(r) \/ BeginExpiry(r) \/ CommitCancel(r) \/ FinishCancel(r)
    <3>1. CASE MemoryStep
      BY <3>1 DEF MemoryStep, CancelStep, SendStart, Register, AckTerminal, StreamClosed
    <3> QED
      BY <3>1, StepsByGroup
  <2> QED
    BY <2>1, <2>2, <2>3, <2>4, <2>5, <2>6, <2>7, <2>8, <2>9
<1>2. (RunsInv => (TicketsInv <=> CancelsHaveRow /\ \A t \in Ticket : Alone(t) => TicketHeld(t)))'
  BY ByTicket, PTL
<1> QED
  BY <1>a, <1>1, <1>2, CancelsHaveRowStep

\* The inductive invariant of tickets and their runs holds, for every number of
\* runs, tickets and disturbances.
THEOREM TicketsInvariant == Spec => []TicketsInv
BY TicketsInvInit, TicketsInvStep, PTL DEF Spec

\* As long as nobody else moves a ticket and no start of it is undone too late,
\* it has one running run: the status alone keeps concurrent starts apart.
THEOREM OneRunPerTicketHolds == Spec => []OneRunPerTicket
<1>1. TicketsInv => OneRunPerTicket
  BY DEF TicketsInv
<1> QED
  BY <1>1, TicketsInvariant, PTL

\* Without a restart of the gateway, a ticket that is routing has a run: no
\* failed start, cancellation or expiry strands it.
THEOREM RoutingMeansRunHolds == Spec => []RoutingMeansRun
<1>1. TicketsInv => RoutingMeansRun
  BY DEF TicketsInv
<1> QED
  BY <1>1, TicketsInvariant, PTL

\* A ticket is resolved or escalated as its latest run ended, whatever earlier
\* runs the worker still reports.
THEOREM LatestRunDecidesHolds == Spec => []LatestRunDecides
<1>1. TicketsInv => LatestRunDecides
  BY DEF TicketsInv
<1> QED
  BY <1>1, TicketsInvariant, PTL

-----------------------------------------------------------------------------
(* AgentRuns implements TicketRuns.                                        *)

LEMMA PromisedTerms ==
  /\ Promised!TicketStatus = TicketStatus /\ Promised!Outcome = Verdict
  /\ \A s, a : Promised!HasEdge(s, a) <=> HasEdge(s, a)
  /\ \A s, a : Promised!After(s, a) = After(s, a)
  /\ \A v \in Verdict : Promised!EdgeOf(v) = ActionOf(v)
  /\ \A t : Promised!UnderWay(t) = {r \in Run : TicketOf[r] = t /\ Running(r)}
  /\ \A t \in Ticket : Promised!Free(t) <=> Alone(t)
<1>1. Promised!Transitions = Transitions
  BY DEF Promised!Transitions, Transitions
<1>2. /\ \A s, a : Promised!HasEdge(s, a) <=> HasEdge(s, a)
      /\ \A s, a : Promised!After(s, a) = After(s, a)
  BY <1>1 DEF Promised!HasEdge, HasEdge, Promised!After, After
<1>3. \A v \in Verdict : Promised!EdgeOf(v) = ActionOf(v)
  BY DEF Promised!EdgeOf, ActionOf
<1>4. Promised!TicketStatus = TicketStatus /\ Promised!Outcome = Verdict
  BY DEF Promised!TicketStatus, TicketStatus, Promised!Outcome, Verdict
<1>5. \A t : Promised!UnderWay(t) = {r \in Run : TicketOf[r] = t /\ Running(r)}
  BY DEF Promised!UnderWay, Running
<1>6. \A t \in Ticket : Promised!Free(t) <=> Alone(t)
  BY DEF Promised!Free, Disturbed
<1> QED
  BY <1>2, <1>3, <1>4, <1>5, <1>6

\* What a step that moves no start and strays no ticket leaves alone.
LEMMA HistoryStays ==
  /\ UNCHANGED inserted => LatestOf' = LatestOf
  /\ UNCHANGED strayed /\ spent'["human"] = spent["human"] =>
       Disturbed' = Disturbed /\ \A t : Alone(t)' <=> Alone(t)
<1>1. ASSUME UNCHANGED inserted PROVE LatestOf' = LatestOf
  BY <1>1 DEF LatestOf, Latest
<1>2. ASSUME UNCHANGED strayed, spent'["human"] = spent["human"]
      PROVE  Disturbed' = Disturbed /\ \A t : Alone(t)' <=> Alone(t)
  BY <1>2 DEF Disturbed, Alone
<1> QED
  BY <1>1, <1>2

\* A ticket has one latest run.
LEMMA LatestIsOne ==
  ASSUME inserted \in Seq(Run), NEW t, NEW q \in Latest(t), NEW r \in Latest(t)
  PROVE  q = r
<1>1. PICK i \in 1..Len(inserted) :
        /\ inserted[i] = q /\ TicketOf[inserted[i]] = t
        /\ \A k \in 1..Len(inserted) : TicketOf[inserted[k]] = t => k <= i
  BY DEF Latest
<1>2. PICK j \in 1..Len(inserted) :
        /\ inserted[j] = r /\ TicketOf[inserted[j]] = t
        /\ \A k \in 1..Len(inserted) : TicketOf[inserted[k]] = t => k <= j
  BY DEF Latest
<1>3. i <= j /\ j <= i
  BY <1>1, <1>2
<1>4. i \in Int /\ j \in Int
  OBVIOUS
<1>5. i = j
  BY <1>3, <1>4
<1> QED
  BY <1>1, <1>2, <1>5

\* A running run of a ticket nobody disturbed is the only one under way, and its
\* latest.
LEMMA OwnsTicket ==
  ASSUME TicketsInv, NEW r \in Run, Running(r), Alone(TicketOf[r])
  PROVE  /\ Promised!UnderWay(TicketOf[r]) = {r} /\ LatestOf[TicketOf[r]] = {r}
         /\ ticket[TicketOf[r]] \in {"routing", "resolving"}
<1>1. RunsInv /\ inserted \in Seq(Run) /\ TicketOf[r] \in Ticket
  BY TicketTypes DEF TicketsInv
<1>2. ticket[TicketOf[r]] \in {"routing", "resolving"} /\ r \in Latest(TicketOf[r])
  BY DEF TicketsInv, RunningHasTicket
<1>3. Latest(TicketOf[r]) = {r}
  BY <1>1, <1>2, LatestIsOne
<1>4. \A q \in Run : TicketOf[q] = TicketOf[r] /\ Running(q) => q = r
  BY DEF TicketsInv, OneRunPerTicket
<1>5. Promised!UnderWay(TicketOf[r]) = {r}
  BY <1>4, PromisedTerms
<1> QED
  BY <1>1, <1>2, <1>3, <1>5 DEF LatestOf

\* startTicketRun: the compare-and-set on the ticket starts the run.
LEMMA PromisedAtCommitStart ==
  ASSUME TicketsInv, NEW r \in Run, CommitStart(r)
  PROVE  Promised!Next \/ UNCHANGED Promised!promise
<1> DEFINE t == TicketOf[r]
<1>a. RunsInv
  BY DEF TicketsInv
<1>b. /\ ticket \in [Ticket -> TicketStatus] /\ run \in [Run -> RunStatus]
      /\ inserted \in Seq(Run) /\ t \in Ticket
  BY <1>a, TicketTypes
<1>1. UNCHANGED <<strayed, spent>>
  BY DEF CommitStart
<1>2. Disturbed' = Disturbed
  BY <1>1, HistoryStays
<1>3. CASE UNCHANGED <<ticket, run, inserted>>
  BY <1>2, <1>3, HistoryStays DEF Promised!promise
<1>4. CASE /\ Unmoved(r) /\ ticket' = [ticket EXCEPT ![t] = Routed(r)]
           /\ run' = [run EXCEPT ![r] = "running"] /\ inserted' = Append(inserted, r)
  <2>1. HasEdge(start[r].from, "startRun") /\ run[r] = "absent"
    BY <1>a DEF CommitStart, RunsInv, TypeOK, StartTypes, Approved, StepsKnowRows, HasRow
  <2>2. HasEdge(ticket[t], "startRun") /\ ticket' = [ticket EXCEPT ![t] = After(@, "startRun")]
    BY <1>b, <1>4, <2>1 DEF Unmoved, Routed
  <2>3. Alone(t) => Promised!UnderWay(t) = {}
    <3>1. ticket[t] \notin {"routing", "resolving"}
      BY <2>2, Graph
    <3>2. ASSUME Alone(t), NEW q \in Run, TicketOf[q] = t, Running(q) PROVE FALSE
      BY <3>1, <3>2, OwnsTicket
    <3> QED
      BY <3>2, PromisedTerms
  <2>4. LatestOf' = [LatestOf EXCEPT ![t] = {r}]
    <3>1. \A u \in Ticket : Latest(u)' = IF TicketOf[r] = u THEN {r} ELSE Latest(u)
      BY <1>b, <1>4, LatestAfterInsert
    <3> QED
      BY <1>b, <3>1 DEF LatestOf
  <2>5. Promised!Start(r)
    <3>1. Promised!Move(t, "startRun")
      BY <1>b, <2>2, PromisedTerms DEF Promised!Move
    <3> QED
      BY <1>b, <1>2, <1>4, <2>1, <2>3, <2>4, <3>1, PromisedTerms DEF Promised!Start
  <2> QED
    BY <2>5 DEF Promised!Next
<1> QED
  BY <1>3, <1>4 DEF CommitStart

\* The compensating transaction withdraws a start, or strays the ticket.
LEMMA PromisedAtUndoStart ==
  ASSUME TicketsInv, [Next]_vars, NEW r \in Run, UndoStart(r)
  PROVE  Promised!Next \/ UNCHANGED Promised!promise
<1> DEFINE t == TicketOf[r]
<1>a. RunsInv
  BY DEF TicketsInv
<1>b. /\ ticket \in [Ticket -> TicketStatus] /\ run \in [Run -> RunStatus]
      /\ start \in [Run -> Start] /\ t \in Ticket
  BY <1>a, TicketTypes
<1>1. UNCHANGED <<inserted, spent>> /\ LatestOf' = LatestOf
  BY HistoryStays DEF UndoStart
<1>2. HasEdge(start[r].from, "startRun") /\ start[r].from \in TicketStatus
  BY <1>a, <1>b DEF UndoStart, RunsInv, TypeOK, StartTypes, Approved, Start
<1>3. Routed(r) = "routing"
  BY <1>2, Graph DEF Routed
<1>4. ticket' = IF ticket[t] = "routing" THEN [ticket EXCEPT ![t] = start[r].from]
                                         ELSE ticket
  BY <1>b, <1>3 DEF UndoStart, Restored
<1>5. CASE Running(r)
  <2>1. run' = [run EXCEPT ![r] = "failed"] /\ UNCHANGED strayed
    BY <1>b, <1>5 DEF UndoStart
  <2>2. Disturbed' = Disturbed
    BY <1>1, <2>1, HistoryStays
  <2>3. Promised!Ends(r, "failed")
    BY <1>5, <2>1 DEF Promised!Ends, Running
  <2>4. Alone(t) => Promised!UnderWay(t) = {r} /\ LatestOf[t] = {r}
    BY <1>5, OwnsTicket
  <2>5. IF ticket[t] = "routing"
          THEN \E s \in Promised!TicketStatus : /\ Promised!HasEdge(s, "startRun")
                                                /\ ticket' = [ticket EXCEPT ![t] = s]
          ELSE UNCHANGED ticket
    BY <1>2, <1>4, PromisedTerms
  <2>6. Promised!Withdraw(r)
    BY <1>b, <1>1, <2>2, <2>3, <2>4, <2>5, PromisedTerms DEF Promised!Withdraw
  <2> QED
    BY <2>6 DEF Promised!Next
<1>6. CASE ~Running(r) /\ ticket[t] = "routing"
  <2>1. UNCHANGED run /\ t \in strayed'
    BY <1>b, <1>3, <1>6 DEF UndoStart
  <2>2. Disturbed \cup {t} \subseteq Disturbed' /\ Disturbed' \subseteq Ticket
    BY <1>a, <1>b, <2>1, AloneBefore DEF Disturbed, Alone
  <2>3. \E s \in Promised!TicketStatus : ticket' = [ticket EXCEPT ![t] = s]
    BY <1>2, <1>4, <1>6, PromisedTerms
  <2>4. Promised!Meddle(t)
    BY <1>1, <2>1, <2>2, <2>3 DEF Promised!Meddle
  <2> QED
    BY <1>b, <2>4 DEF Promised!Next
<1>7. CASE ~Running(r) /\ ticket[t] # "routing"
  <2>1. UNCHANGED <<run, ticket, strayed>>
    BY <1>b, <1>3, <1>4, <1>7 DEF UndoStart
  <2>2. Disturbed' = Disturbed
    BY <1>1, <2>1, HistoryStays
  <2> QED
    BY <1>1, <2>1, <2>2 DEF Promised!promise
<1> QED
  BY <1>5, <1>6, <1>7

\* handleToolRequest: the ticket is being resolved from the first tool on.
LEMMA PromisedAtFirstTool ==
  ASSUME OutcomesInv, NEW g \in Gen, FirstTool(g)
  PROVE  Promised!Next \/ UNCHANGED Promised!promise
<1> DEFINE t == TicketOf[handler[g].run]
<1>a. RunsInv
  BY DEF OutcomesInv, TicketsInv
<1>b. ticket \in [Ticket -> TicketStatus] /\ t \in Ticket
  BY <1>a, TicketTypes DEF FirstTool, Handler
<1>1. UNCHANGED <<run, inserted, strayed, spent>> /\ handler[g].phase = "tool"
  BY DEF FirstTool
<1>2. LatestOf' = LatestOf /\ Disturbed' = Disturbed
  BY <1>1, HistoryStays
<1>3. CASE ~HasEdge(ticket[t], "firstTool")
  <2>1. UNCHANGED ticket
    BY <1>3 DEF FirstTool
  <2> QED
    BY <1>1, <1>2, <2>1 DEF Promised!promise
<1>4. CASE HasEdge(ticket[t], "firstTool")
  <2>1. ticket' = [ticket EXCEPT ![t] = After(@, "firstTool")]
    BY <1>4 DEF FirstTool
  <2>2. ticket[t] = "routing"
    BY <1>4, Graph
  <2>3. Alone(t) => \E r \in Run : TicketOf[r] = t /\ Running(r)
    BY <1>1, <2>2 DEF OutcomesInv, ToolsHaveRun
  <2>4. Promised!Free(t) => Promised!UnderWay(t) # {}
    BY <1>b, <2>3, PromisedTerms
  <2>5. Promised!Move(t, "firstTool")
    BY <1>b, <1>4, <2>1, PromisedTerms DEF Promised!Move
  <2>6. Promised!Work(t)
    BY <1>1, <1>2, <2>4, <2>5 DEF Promised!Work
  <2> QED
    BY <1>b, <2>6 DEF Promised!Next
<1> QED
  BY <1>3, <1>4

\* A run that ends takes its ticket along the edge of its outcome.
LEMMA PromisedAtEnd ==
  ASSUME TicketsInv, NEW r \in Run, Running(r), NEW v \in Verdict,
         run' = [run EXCEPT ![r] = v], UNCHANGED <<inserted, strayed, spent>>,
         \/ /\ HasEdge(ticket[TicketOf[r]], ActionOf(v))
            /\ ticket' = [ticket EXCEPT ![TicketOf[r]] = After(@, ActionOf(v))]
         \/ ~Alone(TicketOf[r]) /\ v = "failed" /\ UNCHANGED ticket
  PROVE  Promised!Next
<1> DEFINE t == TicketOf[r]
<1>a. RunsInv
  BY DEF TicketsInv
<1>b. t \in Ticket
  BY <1>a, TicketTypes
<1>1. LatestOf' = LatestOf /\ Disturbed' = Disturbed
  BY HistoryStays
<1>2. Promised!Ends(r, v)
  BY DEF Promised!Ends, Running
<1>3. CASE /\ HasEdge(ticket[t], ActionOf(v))
           /\ ticket' = [ticket EXCEPT ![t] = After(@, ActionOf(v))]
  <2>1. Promised!Move(t, Promised!EdgeOf(v))
    BY <1>b, <1>3, PromisedTerms DEF Promised!Move
  <2>2. Promised!Free(t) => Promised!UnderWay(t) = {r} /\ LatestOf[t] = {r}
    BY <1>b, OwnsTicket, PromisedTerms
  <2>3. Promised!Conclude(r, v)
    BY <1>1, <1>2, <2>1, <2>2 DEF Promised!Conclude
  <2>4. v \in Promised!Outcome
    BY PromisedTerms
  <2> QED
    BY <2>3, <2>4 DEF Promised!Next
<1>4. CASE ~Alone(t) /\ v = "failed" /\ UNCHANGED ticket
  <2>1. Promised!Drop(r)
    BY <1>b, <1>1, <1>2, <1>4, PromisedTerms DEF Promised!Drop
  <2> QED
    BY <2>1 DEF Promised!Next
<1> QED
  BY <1>3, <1>4

\* persistRunUpdate: the terminal of a running run concludes it.
LEMMA PromisedAtCommitTerminal ==
  ASSUME TicketsInv, NEW g \in Gen, CommitTerminal(g)
  PROVE  Promised!Next \/ UNCHANGED Promised!promise
<1> DEFINE r == handler[g].run
           v == handler[g].status
<1>a. RunsInv
  BY DEF TicketsInv
<1>b. r \in Run /\ v \in Verdict
  BY <1>a, TicketTypes DEF CommitTerminal, Handler
<1>1. UNCHANGED <<inserted, strayed, spent>>
  BY DEF CommitTerminal
<1>2. CASE UNCHANGED <<ticket, run>>
  BY <1>1, <1>2, HistoryStays DEF Promised!promise
<1>3. CASE /\ Running(r) /\ HasEdge(ticket[TicketOf[r]], ActionOf(v))
           /\ run' = [run EXCEPT ![r] = v]
           /\ ticket' = [ticket EXCEPT ![TicketOf[r]] = After(@, ActionOf(v))]
  <2> HIDE DEF r, v
  <2> QED
    BY <1>b, <1>1, <1>3, PromisedAtEnd
<1> QED
  BY <1>2, <1>3 DEF CommitTerminal, Finishable

\* cancelRun: a cancellation or an expiry concludes the run as failed, or drops one
\* whose ticket somebody else moved since it was read.
LEMMA PromisedAtCommitCancel ==
  ASSUME TicketsInv, NEW r \in Run, CommitCancel(r)
  PROVE  Promised!Next \/ UNCHANGED Promised!promise
<1> DEFINE t == TicketOf[r]
<1>a. RunsInv
  BY DEF TicketsInv
<1>b. ticket \in [Ticket -> TicketStatus] /\ t \in Ticket
  BY <1>a, TicketTypes
<1>1. UNCHANGED <<inserted, strayed, spent>> /\ cancel[r].phase = "begun"
  BY DEF CommitCancel
<1>2. CASE UNCHANGED <<ticket, run>>
  BY <1>1, <1>2, HistoryStays DEF Promised!promise
<1>3. CASE /\ Running(r) /\ HasEdge(cancel[r].seen, "fail")
           /\ run' = [run EXCEPT ![r] = "failed"]
           /\ ticket' = [ticket EXCEPT ![t] =
                IF @ = cancel[r].seen THEN After(@, "fail") ELSE @]
  <2>1. cancel[r].seen = "resolving" /\ "failed" \in Verdict /\ ActionOf("failed") = "fail"
    BY <1>3, Graph DEF Verdict, ActionOf
  <2>2. CASE ticket[t] = "resolving"
    <3>1. HasEdge(ticket[t], "fail") /\ ticket' = [ticket EXCEPT ![t] = After(@, "fail")]
      BY <1>b, <1>3, <2>1, <2>2
    <3> QED
      BY <1>1, <1>3, <2>1, <3>1, PromisedAtEnd
  <2>3. CASE ticket[t] # "resolving"
    <3>1. UNCHANGED ticket
      BY <1>b, <1>3, <2>1, <2>3
    <3>2. ~Alone(t)
      BY <1>1, <1>3, <2>1, <2>3 DEF TicketsInv, CancelSaw
    <3> QED
      BY <1>1, <1>3, <2>1, <3>1, <3>2, PromisedAtEnd
  <2> QED
    BY <2>2, <2>3
<1> QED
  BY <1>2, <1>3 DEF CommitCancel, CancelHits

\* reconcileOrphans fails the runs whose lease is not ahead of the clock.
LEMMA PromisedAtRestart ==
  ASSUME TicketsInv, GatewayRestart
  PROVE  Promised!Next
<1> DEFINE orphans == {r \in Run : Running(r) /\ lease[r] # "live"}
<1>a. spent \in [Disturbance -> Nat] /\ {"human", "restart"} \subseteq Disturbance
  BY TicketTypes DEF TicketsInv, Disturbance
<1>1. UNCHANGED <<inserted, strayed>> /\ spent'["human"] = spent["human"]
  BY <1>a DEF GatewayRestart, Spend
<1>2. LatestOf' = LatestOf /\ Disturbed' = Disturbed
  BY <1>1, HistoryStays
<1>3. run' = [r \in Run |-> IF r \in orphans THEN "failed" ELSE run[r]]
  BY DEF GatewayRestart
<1>4. ticket' = [t \in Ticket |->
        IF (\E r \in orphans : TicketOf[r] = t) /\ HasEdge(ticket[t], "fail")
          THEN After(ticket[t], "fail") ELSE ticket[t]]
  BY DEF GatewayRestart
<1>5. orphans \in SUBSET Run /\ \A r \in orphans : run[r] = "running"
  BY DEF Running
<1> HIDE DEF orphans
<1>6. Promised!Restart(orphans)
  BY <1>2, <1>3, <1>4, <1>5, PromisedTerms DEF Promised!Restart
<1> QED
  BY <1>5, <1>6 DEF Promised!Next

\* Whoever else moves a ticket disturbs it.
LEMMA PromisedAtHumanAct ==
  ASSUME TicketsInv, [Next]_vars, NEW t \in Ticket, HumanAct(t)
  PROVE  Promised!Next
<1>a. RunsInv /\ spent \in [Disturbance -> Nat] /\ "human" \in Disturbance
  BY TicketTypes DEF TicketsInv, Disturbance
<1>1. UNCHANGED <<run, inserted>> /\ LatestOf' = LatestOf
  BY HistoryStays DEF HumanAct
<1>2. spent'["human"] # 0
  BY <1>a DEF HumanAct, Spend
<1>3. Disturbed' = Ticket
  BY <1>2 DEF Disturbed, Alone
<1>4. \E s \in TicketStatus : ticket' = [ticket EXCEPT ![t] = s]
  <2>1. PICK a : HasEdge(ticket[t], a) /\ ticket' = [ticket EXCEPT ![t] = After(@, a)]
    BY DEF HumanAct
  <2>2. After(ticket[t], a) \in TicketStatus
    BY <2>1, AfterTyped
  <2>3. ticket' = [ticket EXCEPT ![t] = After(ticket[t], a)]
    BY <2>1
  <2> QED
    BY <2>2, <2>3
<1>5. Promised!Meddle(t)
  BY <1>1, <1>3, <1>4, PromisedTerms DEF Promised!Meddle, Disturbed
<1> QED
  BY <1>5 DEF Promised!Next

\* Only somebody who moves a ticket counts as one.
LEMMA HumanSpends ==
  ASSUME RunsInv, [Next]_vars
  PROVE  (\E t \in Ticket : HumanAct(t)) \/ spent'["human"] = spent["human"]
<1>a. spent \in [Disturbance -> Nat] /\ "human" \in Disturbance
  BY TicketTypes DEF Disturbance
<1>1. ASSUME NEW d \in Disturbance \ {"human"}, Spend(d)
      PROVE  spent'["human"] = spent["human"]
  BY <1>a, <1>1 DEF Spend
<1>2. CASE UNCHANGED vars
  BY <1>2 DEF vars
<1>3. {"loss", "crash", "restart", "cancel", "age"} \subseteq Disturbance \ {"human"}
  BY DEF Disturbance
<1>4. \A d \in {"loss", "crash", "restart", "cancel", "age"} :
        Spend(d) => spent'["human"] = spent["human"]
  BY <1>1, <1>3
<1> QED
  BY <1>2, <1>4, SpendingSteps DEF Next

\* A handler is at a tool only for the run that it found running.
LEMMA ToolsBegin ==
  ASSUME RunsInv, [Next]_vars, NEW g \in Gen, handler'[g].phase = "tool"
  PROVE  handler'[g] = handler[g] \/ Running(handler'[g].run)
<1> DEFINE Same == \A k \in Gen : handler'[k] = handler[k] \/ handler'[k].phase # "tool"
<1>a. handler \in [Gen -> Handler]
  BY TicketTypes
<1>b. IdleHandler.phase = "idle"
  BY DEF IdleHandler
<1>c. ASSUME NEW k \in Gen, NEW h \in Handler, h.phase # "tool",
             handler' = [handler EXCEPT ![k] = h]
      PROVE  Same
  BY <1>a, <1>c
<1>d. IdleHandler \in Handler
  BY DEF IdleHandler, Handler
<1>1. UNCHANGED handler => Same
  OBVIOUS
<1>2. ASSUME NEW k \in Gen, Refuse(k) PROVE Same
  BY <1>2, <1>b, <1>c, <1>d DEF Refuse
<1> HIDE DEF Same
<1>3. ASSUME NEW k \in Gen, Register(k) \/ TakeAccepted(k) \/ TakeStep(k) \/ OpenStream(k)
      PROVE  Same
  BY <1>3, <1>1, <1>2 DEF Register, TakeAccepted, TakeStep, OpenStream
<1>4. ASSUME NEW k \in Gen, FirstTool(k) PROVE Same
  <2> DEFINE h == [handler[k] EXCEPT !.phase = "executing"]
  <2>1. handler[k] \in Handler /\ handler[k].phase = "tool"
    BY <1>a, <1>4 DEF FirstTool
  <2>2. h \in Handler /\ h.phase # "tool"
    BY <2>1 DEF Handler
  <2>3. handler' = [handler EXCEPT ![k] = h]
    BY <1>4 DEF FirstTool
  <2> HIDE DEF h
  <2> QED
    BY <2>2, <2>3, <1>c
<1>5. ASSUME NEW k \in Gen, FinishTool(k) \/ AckTerminal(k) PROVE Same
  BY <1>5, <1>b, <1>c, <1>d DEF FinishTool, AckTerminal
<1>6. ASSUME NEW k \in Gen, TakeTerminal(k) PROVE Same
  <2> DEFINE h == [phase |-> "terminal", run |-> Head(up[k]).run,
                   status |-> Head(up[k]).status]
  <2>1. Head(up[k]).run \in Run /\ Head(up[k]).status \in Verdict
    BY <1>6, HeadIsSound DEF TakeTerminal, AtHead
  <2>2. h \in Handler /\ h.phase # "tool"
    BY <2>1 DEF Handler
  <2>3. handler' = handler \/ handler' = [handler EXCEPT ![k] = h] \/ Refuse(k)
    BY <1>6 DEF TakeTerminal
  <2> HIDE DEF h
  <2> QED
    BY <2>2, <2>3, <1>1, <1>2, <1>c
<1>7. ASSUME NEW k \in Gen, CommitTerminal(k) PROVE Same
  <2> DEFINE h == [handler[k] EXCEPT !.phase = "committed"]
  <2>1. handler[k] \in Handler /\ handler[k].phase = "terminal"
    BY <1>a, <1>7 DEF CommitTerminal
  <2>2. h \in Handler /\ h.phase # "tool"
    BY <2>1 DEF Handler
  <2>3. handler' = [handler EXCEPT ![k] = h] \/ Refuse(k)
    BY <1>7 DEF CommitTerminal, NoEdge
  <2> HIDE DEF h
  <2> QED
    BY <2>2, <2>3, <1>2, <1>c
<1>8. ASSUME GatewayRestart PROVE Same
  BY <1>8, <1>b DEF GatewayRestart, Same
<1>9. ASSUME NEW k \in Gen, TakeTool(k)
      PROVE  handler'[g] = handler[g] \/ Running(handler'[g].run)
  <2> DEFINE h == [phase |-> "tool", run |-> Head(up[k]).run, status |-> "none"]
  <2>1. \/ handler' = handler
        \/ Running(Head(up[k]).run) /\ handler' = [handler EXCEPT ![k] = h]
    BY <1>9 DEF TakeTool
  <2>2. h.run = Head(up[k]).run
    OBVIOUS
  <2> HIDE DEF h
  <2> QED
    BY <2>1, <2>2, <1>a
<1>10. Same \/ \E k \in Gen : TakeTool(k)
  BY StepsByGroup, <1>1, <1>3, <1>4, <1>5, <1>6, <1>7, <1>8 DEF InboundStep, HandlerStep
<1> QED
  BY <1>9, <1>10 DEF Same

\* A ticket stays routing, or becomes it, only with a run under way: a start that
\* fails gives the ticket back, and nothing else ends a run that has used no tool.
LEMMA RoutingKeepsRun ==
  ASSUME TicketsInv, [Next]_vars, ~GatewayRestart, NEW t \in Ticket, Alone(t)',
         ticket'[t] = "routing",
         ticket[t] = "routing" => \E r \in Run : TicketOf[r] = t /\ Running(r)
  PROVE  \E r \in Run : TicketOf[r] = t /\ Running(r)'
<1> DEFINE Goal == \E r \in Run : TicketOf[r] = t /\ Running(r)'
<1>a. RunsInv /\ Alone(t)
  BY AloneBefore DEF TicketsInv
<1>b. /\ ticket \in [Ticket -> TicketStatus] /\ run \in [Run -> RunStatus]
      /\ handler \in [Gen -> Handler] /\ TicketOf \in [Run -> Ticket]
  BY <1>a, TicketTypes
<1>c. ASSUME ticket[t] = "routing", NEW q \in Run,
             \A r \in Run \ {q} : run'[r] = run[r], TicketOf[q] # t \/ ~Running(q)
      PROVE  Goal
  BY <1>c DEF Running
<1>d. ASSUME UNCHANGED run, ticket[t] = "routing" PROVE Goal
  BY <1>d DEF Running
<1> HIDE DEF Goal
<1>1. ASSUME UNCHANGED <<ticket, run>> PROVE Goal
  BY <1>1, <1>d
<1>2. ASSUME NEW r \in Run, CommitStart(r) PROVE Goal
  <2>1. CASE UNCHANGED <<ticket, run>>
    BY <1>1, <2>1
  <2>2. CASE /\ ticket' = [ticket EXCEPT ![TicketOf[r]] = Routed(r)]
             /\ run' = [run EXCEPT ![r] = "running"]
    <3>1. run'[r] = "running" /\ \A q \in Run \ {r} : run'[q] = run[q]
      BY <1>b, <2>2
    <3>2. CASE TicketOf[r] = t
      BY <3>1, <3>2 DEF Goal, Running
    <3>3. CASE TicketOf[r] # t
      <4>1. ticket[t] = "routing"
        BY <1>b, <2>2, <3>3
      <4> QED
        BY <4>1, <3>1, <3>3, <1>c
    <3> QED
      BY <3>2, <3>3
  <2> QED
    BY <1>2, <2>1, <2>2 DEF CommitStart
<1>3. ASSUME NEW r \in Run, UndoStart(r) PROVE Goal
  <2>1. start[r].from # "routing" /\ Routed(r) = "routing"
    <3>1. HasEdge(start[r].from, "startRun")
      BY <1>3, <1>a DEF UndoStart, RunsInv, TypeOK, StartTypes, Approved
    <3> QED
      BY <3>1, Graph DEF Routed
  <2>2. \A q \in Run \ {r} : run'[q] = run[q]
    BY <1>3, <1>b DEF UndoStart
  <2>3. ticket' = [ticket EXCEPT ![TicketOf[r]] =
                     IF @ = "routing" THEN start[r].from ELSE @]
    BY <1>3, <2>1 DEF UndoStart, Restored
  <2>4. TicketOf[r] # t /\ ticket[t] = "routing"
    BY <1>b, <2>1, <2>3
  <2> QED
    BY <2>2, <2>4, <1>c
<1>4. ASSUME NEW g \in Gen, FirstTool(g) PROVE Goal
  <2>1. UNCHANGED run
    BY <1>4 DEF FirstTool
  <2>2. ticket[t] = "routing"
    BY <1>4, <1>b, Graph DEF FirstTool
  <2> QED
    BY <2>1, <2>2, <1>d
<1>5. ASSUME NEW r \in Run, Running(r), NEW v,
             run' = [run EXCEPT ![r] = v],
             TicketOf[r] # t => ticket'[t] = ticket[t],
             TicketOf[r] = t => ticket'[t] # "routing"
      PROVE  Goal
  BY <1>5, <1>b, <1>c
<1>6. ASSUME NEW g \in Gen, CommitTerminal(g) PROVE Goal
  <2> DEFINE r == handler[g].run
             v == handler[g].status
  <2>1. r \in Run /\ v \in Verdict
    BY <1>6, <1>b DEF CommitTerminal, Handler
  <2>2. CASE UNCHANGED <<ticket, run>>
    BY <1>1, <2>2
  <2>3. CASE /\ Running(r) /\ HasEdge(ticket[TicketOf[r]], ActionOf(v))
             /\ run' = [run EXCEPT ![r] = v]
             /\ ticket' = [ticket EXCEPT ![TicketOf[r]] = After(@, ActionOf(v))]
    <3> HIDE DEF r, v
    <3>1. TicketOf[r] = t => ticket'[t] # "routing"
      <4> SUFFICES ASSUME TicketOf[r] = t PROVE ticket'[t] # "routing"
        OBVIOUS
      <4>1. ticket[t] \in {"routing", "resolving"}
        BY <1>a, <2>1, <2>3, OwnsTicket
      <4>2. After(ticket[t], ActionOf(v)) \in {"resolved", "escalated"}
        BY <2>1, <2>3, <4>1, Graph
      <4> QED
        BY <1>b, <2>3, <4>2
    <3>2. TicketOf[r] # t => ticket'[t] = ticket[t]
      BY <1>b, <2>3
    <3> QED
      BY <2>1, <2>3, <3>1, <3>2, <1>5
  <2> QED
    BY <1>6, <2>2, <2>3 DEF CommitTerminal, Finishable
<1>7. ASSUME NEW r \in Run, CommitCancel(r) PROVE Goal
  <2>1. CASE UNCHANGED <<ticket, run>>
    BY <1>1, <2>1
  <2>2. CASE /\ Running(r) /\ HasEdge(cancel[r].seen, "fail")
             /\ run' = [run EXCEPT ![r] = "failed"]
             /\ ticket' = [ticket EXCEPT ![TicketOf[r]] =
                  IF @ = cancel[r].seen THEN After(@, "fail") ELSE @]
    <3>1. TicketOf[r] = t => ticket'[t] # "routing"
      <4> SUFFICES ASSUME TicketOf[r] = t PROVE ticket'[t] # "routing"
        OBVIOUS
      <4>1. cancel[r].seen = "resolving" /\ After("resolving", "fail") = "escalated"
        BY <2>2, Graph
      <4>2. ticket[t] = "resolving"
        BY <1>7, <1>a, <2>2, <4>1 DEF CommitCancel, TicketsInv, CancelSaw
      <4> QED
        BY <1>b, <2>2, <4>1, <4>2
    <3>2. TicketOf[r] # t => ticket'[t] = ticket[t]
      BY <1>b, <2>2
    <3> QED
      BY <2>2, <3>1, <3>2, <1>5
  <2> QED
    BY <1>7, <2>1, <2>2 DEF CommitCancel, CancelHits
<1>8. ASSUME NEW u \in Ticket, HumanAct(u) PROVE FALSE
  <2>1. spent \in [Disturbance -> Nat] /\ "human" \in Disturbance
    BY <1>a, TicketTypes DEF Disturbance
  <2> QED
    BY <1>8, <2>1 DEF HumanAct, Spend, Alone
<1>9. Goal
  BY TicketMoves, <1>1, <1>2, <1>3, <1>4, <1>6, <1>7, <1>8
<1> QED
  BY <1>9 DEF Goal

LEMMA OutcomesInvInit == Init => OutcomesInv
<1>1. Init => ToolsHaveRun
  BY DEF Init, ToolsHaveRun, IdleHandler
<1> QED
  BY <1>1, TicketsInvInit DEF OutcomesInv

LEMMA OutcomesInvStep == OutcomesInv /\ [Next]_vars => OutcomesInv'
<1> SUFFICES ASSUME OutcomesInv, [Next]_vars PROVE OutcomesInv'
  OBVIOUS
<1>a. TicketsInv /\ RunsInv /\ TicketsInv' /\ RunsInv'
  BY TicketsInvStep DEF OutcomesInv, TicketsInv
<1>b. handler' \in [Gen -> Handler] /\ TicketOf \in [Run -> Ticket]
  BY <1>a, TicketOfAssumption DEF RunsInv, TypeOK, StreamTypes
<1>1. ASSUME NEW g \in Gen, NEW h \in Handler, h = handler'[g], h.phase = "tool",
             Alone(TicketOf[h.run])', ticket'[TicketOf[h.run]] = "routing"
      PROVE  \E r \in Run : TicketOf[r] = TicketOf[h.run] /\ Running(r)'
  <2>1. h.run \in Run
    BY <1>1 DEF Handler
  <2> PICK t \in Ticket : t = TicketOf[h.run]
    BY <1>b, <2>1
  <2>2. Alone(t)' /\ Alone(t) /\ ticket'[t] = "routing"
    BY <1>1, <1>a, AloneBefore
  <2>3. ~GatewayRestart
    BY <1>1 DEF GatewayRestart, IdleHandler
  <2>4. ticket[t] = "routing" => \E r \in Run : TicketOf[r] = t /\ Running(r)
    <3>1. h = handler[g] \/ Running(h.run)
      BY <1>1, <1>a, ToolsBegin
    <3>2. CASE h = handler[g]
      BY <1>1, <2>2, <3>2 DEF OutcomesInv, ToolsHaveRun
    <3> QED
      BY <2>1, <3>1, <3>2
  <2> QED
    BY <1>a, <2>2, <2>3, <2>4, RoutingKeepsRun
<1>2. \A g \in Gen : \E h \in Handler : h = handler'[g]
  BY <1>b
<1>3. ToolsHaveRun'
  BY <1>1, <1>2 DEF ToolsHaveRun
<1> QED
  BY <1>a, <1>3 DEF OutcomesInv

\* A call whose run was found running moves no ticket that has lost its run.
THEOREM OutcomesInvariant == Spec => []OutcomesInv
BY OutcomesInvInit, OutcomesInvStep, PTL DEF Spec

LEMMA PromisedStep ==
  OutcomesInv /\ [Next]_vars => Promised!Next \/ UNCHANGED Promised!promise
<1> SUFFICES ASSUME OutcomesInv, [Next]_vars
             PROVE  Promised!Next \/ UNCHANGED Promised!promise
  OBVIOUS
<1>a. TicketsInv /\ RunsInv
  BY DEF OutcomesInv, TicketsInv
<1>1. CASE UNCHANGED <<ticket, run, inserted, strayed>>
  <2>1. (\E t \in Ticket : HumanAct(t)) \/ spent'["human"] = spent["human"]
    BY <1>a, HumanSpends
  <2>2. CASE spent'["human"] = spent["human"]
    BY <1>1, <2>2, HistoryStays DEF Promised!promise
  <2> QED
    BY <1>a, <2>1, <2>2, PromisedAtHumanAct
<1>2. CASE GatewayRestart \/ \E t \in Ticket : HumanAct(t)
  BY <1>a, <1>2, PromisedAtRestart, PromisedAtHumanAct
<1>3. CASE \E r \in Run : CommitStart(r) \/ UndoStart(r) \/ CommitCancel(r)
  BY <1>a, <1>3, PromisedAtCommitStart, PromisedAtUndoStart, PromisedAtCommitCancel
<1>4. CASE \E g \in Gen : FirstTool(g) \/ CommitTerminal(g)
  BY <1>a, <1>4, PromisedAtFirstTool, PromisedAtCommitTerminal
<1> QED
  BY TicketMoves, <1>1, <1>2, <1>3, <1>4

\* The gateway and its worker keep what TicketRuns promises, for every number of
\* runs, tickets, streams and disturbances.
THEOREM RunsAsPromisedHolds == Spec => RunsAsPromised
<1>1. Init => Promised!Init
  <2> SUFFICES ASSUME Init PROVE Promised!Init
    OBVIOUS
  <2>1. LatestOf = [t \in Ticket |-> {}]
    BY DEF Init, LatestOf, Latest
  <2>2. Disturbed = {}
    BY DEF Init, Disturbed, Alone, Disturbance
  <2> QED
    BY <2>1, <2>2 DEF Init, Promised!Init
<1> QED
  BY <1>1, PromisedStep, OutcomesInvariant, PTL DEF Spec, RunsAsPromised, Promised!Spec

-----------------------------------------------------------------------------
(* What the worker retains.                                                *)

OneStart ==
  \A i, j \in 1..Len(down) : down[i].type = "start" /\ down[i] = down[j] => i = j
DistinctRuns(s) == \A i, j \in 1..Len(s) : s[i].run = s[j].run => i = j

\* _retain_terminal keeps what is not over the limit, and nothing else.
LEMMA RetainKeeps ==
  ASSUME retained \in Seq(Retained), DistinctRuns(retained),
         NEW ends \in Seq(Retained), DistinctRuns(ends),
         \A i \in 1..Len(ends) : ~Kept(ends[i].run), Retain(ends)
  PROVE  /\ DistinctRuns(retained') /\ (~forgotten' => ~forgotten)
         /\ \A r : Kept(r)' => Kept(r) \/ \E i \in 1..Len(ends) : ends[i].run = r
         /\ ~forgotten' =>
              \A r : Kept(r) \/ (\E i \in 1..Len(ends) : ends[i].run = r) => Kept(r)'
<1> DEFINE s == retained \o ends
<1>1. /\ s \in Seq(Retained) /\ Len(s) = Len(retained) + Len(ends)
      /\ \A i \in 1..Len(s) : s[i] = IF i <= Len(retained) THEN retained[i]
                                                          ELSE ends[i - Len(retained)]
  BY ConcatProperties
<1>2. DistinctRuns(s)
  <2> SUFFICES ASSUME NEW i \in 1..Len(s), NEW j \in 1..Len(s), s[i].run = s[j].run
               PROVE  i = j
    BY DEF DistinctRuns
  <2> HIDE DEF s
  <2>0. Len(retained) \in Nat /\ Len(ends) \in Nat /\ i \in Nat /\ j \in Nat
    BY <1>1
  <2>1. CASE i <= Len(retained) /\ j <= Len(retained)
    BY <2>0, <2>1, <1>1 DEF DistinctRuns
  <2>2. CASE i > Len(retained) /\ j > Len(retained)
    <3>1. i - Len(retained) \in 1..Len(ends) /\ j - Len(retained) \in 1..Len(ends)
      BY <2>0, <2>2, <1>1
    <3>2. ends[i - Len(retained)].run = ends[j - Len(retained)].run
      BY <2>0, <2>2, <1>1
    <3>3. i - Len(retained) = j - Len(retained)
      BY <3>1, <3>2 DEF DistinctRuns
    <3> QED
      BY <2>0, <3>3
  <2>a. ASSUME NEW k \in 1..Len(s), NEW l \in 1..Len(s), k <= Len(retained),
               l > Len(retained)
        PROVE  s[k].run # s[l].run
    <3>1. k \in 1..Len(retained) /\ s[k] = retained[k]
      BY <2>0, <2>a, <1>1
    <3>2. l - Len(retained) \in 1..Len(ends) /\ s[l] = ends[l - Len(retained)]
      BY <2>0, <2>a, <1>1
    <3>3. Kept(s[k].run)
      BY <3>1 DEF Kept
    <3>4. ~Kept(s[l].run)
      BY <3>2
    <3> QED
      BY <3>3, <3>4
  <2>3. CASE i <= Len(retained) /\ j > Len(retained)
    BY <2>3, <2>a
  <2>4. CASE j <= Len(retained) /\ i > Len(retained)
    BY <2>4, <2>a
  <2> QED
    BY <2>0, <2>1, <2>2, <2>3, <2>4
<1> DEFINE over == Len(s) > RetainedLimit
           m == IF over THEN Len(s) - RetainedLimit + 1 ELSE 1
<1>3. retained' = SubSeq(s, m, Len(s)) /\ forgotten' = (forgotten \/ over)
  BY DEF Retain
<1> HIDE DEF s
<1>4. Len(s) \in Nat /\ Len(retained) \in Nat /\ Len(ends) \in Nat /\ RetainedLimit \in Nat \ {0}
  BY <1>1, LimitAssumption
<1>5. m \in 1..(Len(s) + 1) /\ (~over => m = 1)
  BY <1>4
<1>6. ~forgotten' => ~forgotten /\ m = 1
  BY <1>3, <1>5
<1> HIDE DEF m, over
<1>7. /\ Len(retained') = Len(s) - m + 1
      /\ \A i \in 1..Len(retained') : i + m - 1 \in 1..Len(s) /\ retained'[i] = s[i + m - 1]
  <2>1. /\ Len(SubSeq(s, m, Len(s))) = Len(s) - m + 1
        /\ \A i \in 1..(Len(s) - m + 1) : SubSeq(s, m, Len(s))[i] = s[i + m - 1]
    BY <1>1, <1>4, <1>5
  <2>2. \A i \in 1..(Len(s) - m + 1) : i + m - 1 \in 1..Len(s)
    BY <1>4, <1>5
  <2> QED
    BY <1>3, <2>1, <2>2
<1>8. DistinctRuns(retained')
  <2> SUFFICES ASSUME NEW i \in 1..Len(retained'), NEW j \in 1..Len(retained'),
                      retained'[i].run = retained'[j].run
               PROVE  i = j
    BY DEF DistinctRuns
  <2>1. i + m - 1 = j + m - 1
    BY <1>2, <1>7 DEF DistinctRuns
  <2> QED
    BY <2>1, <1>5
<1>9. ASSUME NEW r, NEW j \in 1..Len(s), s[j].run = r
      PROVE  Kept(r) \/ \E i \in 1..Len(ends) : ends[i].run = r
  <2>1. CASE j <= Len(retained)
    BY <1>4, <1>9, <2>1, <1>1 DEF Kept
  <2>2. CASE j > Len(retained)
    <3>1. j - Len(retained) \in 1..Len(ends)
      BY <1>4, <2>2, <1>1
    <3> QED
      BY <1>4, <1>9, <2>2, <3>1, <1>1
  <2> QED
    BY <1>4, <2>1, <2>2, <1>1
<1>10. ASSUME NEW r, Kept(r)' PROVE Kept(r) \/ \E i \in 1..Len(ends) : ends[i].run = r
  <2>1. PICK i \in 1..Len(retained') : retained'[i].run = r
    BY <1>10 DEF Kept
  <2>2. i + m - 1 \in 1..Len(s) /\ s[i + m - 1].run = r
    BY <2>1, <1>7
  <2> QED
    BY <2>2, <1>9
<1>11. ASSUME ~forgotten', NEW r, Kept(r) \/ \E i \in 1..Len(ends) : ends[i].run = r
       PROVE  Kept(r)'
  <2>1. m = 1
    BY <1>6, <1>11
  <2>2. retained' = s
    BY <2>1, <1>3, <1>1
  <2>3. ASSUME NEW i \in 1..Len(retained), retained[i].run = r
        PROVE  \E j \in 1..Len(s) : s[j].run = r
    <3>1. i \in 1..Len(s) /\ i <= Len(retained)
      BY <1>4, <1>1
    <3>2. s[i] = retained[i]
      BY <3>1, <1>1
    <3> QED
      BY <2>3, <3>1, <3>2
  <2>4. ASSUME NEW i \in 1..Len(ends), ends[i].run = r
        PROVE  \E j \in 1..Len(s) : s[j].run = r
    <3>1. /\ Len(retained) + i \in 1..Len(s) /\ ~(Len(retained) + i <= Len(retained))
          /\ Len(retained) + i - Len(retained) = i
      BY <1>4, <1>1
    <3>2. s[Len(retained) + i] = ends[i]
      BY <3>1, <1>1
    <3> QED
      BY <2>4, <3>1, <3>2
  <2> QED
    BY <1>11, <2>2, <2>3, <2>4 DEF Kept
<1> QED
  BY <1>6, <1>8, <1>10, <1>11

LEMMA TailOfDown ==
  ASSUME down \in Seq(DownMsg), OneStart, down # <<>>, down' = Tail(down)
  PROVE  /\ OneStart' /\ \A r : StartSent(r)' => StartSent(r)
         /\ \A r : Head(down) = Down("start", r) => StartSent(r) /\ ~StartSent(r)'
<1>1. /\ Len(down') = Len(down) - 1 /\ Len(down) \in Nat \ {0}
      /\ \A i \in 1..Len(down') : i + 1 \in 1..Len(down) /\ down'[i] = down[i + 1]
  OBVIOUS
<1>2. Head(down) = down[1] /\ 1 \in 1..Len(down)
  BY <1>1
<1>4. OneStart'
  <2> SUFFICES ASSUME NEW i \in 1..Len(down'), NEW j \in 1..Len(down'),
                      down'[i].type = "start", down'[i] = down'[j]
               PROVE  i = j
    BY DEF OneStart
  <2>1. i + 1 = j + 1
    BY <1>1 DEF OneStart
  <2> QED
    BY <2>1
<1>5. \A r : StartSent(r)' => StartSent(r)
  BY <1>1 DEF StartSent, Down
<1>6. ASSUME NEW r, Head(down) = Down("start", r)
      PROVE  StartSent(r) /\ ~StartSent(r)'
  <2>1. down[1] = Down("start", r) /\ down[1].type = "start"
    BY <1>2, <1>6 DEF Down
  <2>2. ASSUME NEW i \in 1..Len(down'), down'[i] = Down("start", r) PROVE FALSE
    <3>1. down[i + 1] = down[1] /\ i + 1 \in 1..Len(down)
      BY <1>1, <2>1, <2>2
    <3>2. i + 1 = 1
      BY <1>2, <2>1, <3>1 DEF OneStart
    <3> QED
      BY <3>2
  <2> QED
    BY <1>2, <2>1, <2>2 DEF StartSent, Down
<1> QED
  BY <1>4, <1>5, <1>6

LEMMA WriteToDown ==
  ASSUME down \in Seq(DownMsg), OneStart, NEW g, NEW m \in DownMsg, Write(g, m),
         m.type = "start" => ~StartSent(m.run)
  PROVE  /\ OneStart'
         /\ \A r : StartSent(r)' => StartSent(r) \/ m = Down("start", r)
<1>1. CASE down' = down
  BY <1>1 DEF OneStart, StartSent
<1>2. CASE down' = Append(down, m)
  <2>1. /\ Len(down) \in Nat /\ Len(down') = Len(down) + 1 /\ down'[Len(down) + 1] = m
        /\ \A i \in 1..Len(down) : down'[i] = down[i]
    BY <1>2
  <2>2. m.type = "start" => \A i \in 1..Len(down) : down[i] # m
    <3>1. m.type = "start" => m = Down("start", m.run)
      BY DEF DownMsg, Down
    <3> QED
      BY <3>1 DEF StartSent
  <2>3. OneStart'
    BY <2>1, <2>2 DEF OneStart
  <2>4. \A r : StartSent(r)' => StartSent(r) \/ m = Down("start", r)
    BY <2>1 DEF StartSent, Down
  <2> QED
    BY <2>3, <2>4
<1> QED
  BY <1>1, <1>2 DEF Write

VerdictTypes ==
  /\ down \in Seq(DownMsg) /\ task \in [Run -> {"none", "thinking", "calling"}]
  /\ verdict \in [Run -> Verdict \cup {"none"}] /\ retained \in Seq(Retained)
  /\ start \in [Run -> Start] /\ run \in [Run -> RunStatus]

LEMMA VerdictTyping ==
  ASSUME VerdictsInv
  PROVE  /\ RunsInv /\ VerdictTypes /\ OneStart /\ DistinctRuns(retained)
         /\ \A r \in Run : StartSent(r) \/ task[r] # "none" \/ Kept(r) => HasRow(r)
<1>1. RunsInv /\ VerdictTypes
  BY DEF VerdictsInv, RunsInv, TypeOK, DbTypes, StartTypes, StreamTypes, WorkerTypes,
     VerdictTypes
<1>2. OneStart /\ DistinctRuns(retained)
  BY DEF VerdictsInv, SentOnce, KeptOnce, OneStart, DistinctRuns
<1>3. \A r \in Run : StartSent(r) => HasRow(r)
  BY <1>1 DEF RunsInv, WireIsSound, SoundDown, StartSent, Down
<1>4. \A r \in Run : Kept(r) => HasRow(r)
  BY <1>1 DEF RunsInv, WireIsSound, SoundRetained, Kept
<1>5. \A r \in Run : task[r] # "none" => HasRow(r)
  BY <1>1 DEF RunsInv, StepsKnowRows
<1> QED
  BY <1>1, <1>2, <1>3, <1>4, <1>5

\* A start that is done stays done, and a row that has ended stays ended.
LEMMA DoneStays ==
  ASSUME VerdictsInv, [Next]_vars, NEW r \in Run
  PROVE  /\ start[r].phase = "done" /\ HasRow(r) => start'[r].phase = "done"
         /\ HasRow(r) => HasRow(r)'
         /\ HasRow(r) /\ Running(r)' => Running(r)
<1>a. RunsInv /\ VerdictTypes
  BY VerdictTyping
<1>1. ASSUME start[r].phase = "done", HasRow(r) PROVE start'[r].phase = "done"
  <2>1. CASE UNCHANGED start
    BY <1>1, <2>1
  <2>2. CASE GatewayRestart
    BY <1>1, <2>2 DEF GatewayRestart, HasRow, NoStart
  <2>3. ASSUME NEW q \in Run, StartStep(q) PROVE start'[r] = start[r]
    <3>1. start[q].phase # "done"
      BY <2>3 DEF StartStep, ReadTicket, CheckStart, CommitStart, SelectAgent, HoldRun,
         SendStart, UndoStart
    <3>2. \A p \in Run \ {q} : start'[p] = start[p]
      <4>1. \E s : start' = [start EXCEPT ![q] = s]
        <5>1. \A ph : [start EXCEPT ![q].phase = ph] = [start EXCEPT ![q] = [@ EXCEPT !.phase = ph]]
          OBVIOUS
        <5> QED
          BY <2>3, <5>1 DEF StartStep, ReadTicket, CheckStart, CommitStart, SelectAgent,
             HoldRun, SendStart, UndoStart
      <4> QED
        BY <4>1, <1>a DEF VerdictTypes
    <3> QED
      BY <1>1, <3>1, <3>2
  <2> QED
    BY <1>1, <2>1, <2>2, <2>3, StepsByGroup DEF StartCalls
<1>2. (HasRow(r) => HasRow(r)') /\ (HasRow(r) /\ Running(r)' => Running(r))
  <2>1. HasRow(r) /\ ~Running(r) => Ended(r)
    BY <1>a DEF VerdictTypes, HasRow, Running, Ended, RunStatus
  <2> QED
    BY <1>a, <2>1, RowsMove DEF Ended, Running, Verdict
<1> QED
  BY <1>1, <1>2

\* How a step may move runs between the three places.
LEMMA VerdictsNext ==
  ASSUME VerdictsInv, [Next]_vars, OneStart', DistinctRuns(retained'),
         \A r \in Run :
           /\ StartSent(r)' => /\ StartSent(r) \/ start'[r].phase = "done"
                               /\ task'[r] = "none" /\ ~Kept(r)'
           /\ task'[r] # "none" => (task[r] # "none" \/ StartSent(r)) /\ ~Kept(r)'
           /\ Kept(r)' => Kept(r) \/ StartSent(r) \/ task[r] # "none"
           /\ verdict'[r] # "none" => verdict[r] # "none" \/ HasRow(r)
           /\ verdict'[r] # "none" /\ Running(r)' /\ ~forgotten' => Kept(r)'
  PROVE  VerdictsInv'
<1>1. RunsInv'
  BY RunsInvStep, VerdictTyping
<1>2. \A r \in Run : StartSent(r) \/ task[r] # "none" \/ Kept(r) => start'[r].phase = "done"
  BY VerdictTyping, DoneStays DEF VerdictsInv, SentOnce
<1>3. SentOnce'
  <2>1. \A r \in Run : StartSent(r)' \/ task'[r] # "none" \/ Kept(r)' => start'[r].phase = "done"
    BY <1>2
  <2> QED
    BY <2>1 DEF SentOnce, OneStart
<1>4. KeptOnce'
  BY DEF KeptOnce, DistinctRuns
<1>5. VerdictIsKept'
  BY DEF VerdictIsKept, Kept
<1>6. \A r \in Run : verdict'[r] # "none" => HasRow(r)'
  BY DoneStays DEF VerdictsInv
<1> QED
  BY <1>1, <1>3, <1>4, <1>5, <1>6 DEF VerdictsInv

\* A step that leaves what the worker knows alone.
LEMMA VerdictsLeft ==
  ASSUME VerdictsInv, [Next]_vars, UNCHANGED <<task, verdict, forgotten>>,
         OneStart', \A r \in Run : StartSent(r)' => StartSent(r),
         UNCHANGED retained
  PROVE  VerdictsInv'
<1>1. \A r \in Run : Kept(r)' <=> Kept(r)
  BY DEF Kept
<1>2. \A r \in Run : verdict[r] # "none" /\ Running(r)' /\ ~forgotten => Kept(r)
  BY DoneStays DEF VerdictsInv, VerdictIsKept, Kept
<1>3. DistinctRuns(retained')
  BY VerdictTyping
<1> QED
  BY <1>1, <1>2, <1>3, VerdictsNext DEF VerdictsInv, SentOnce, KeptOnce

\* Gen and its writes: everything but starts goes to the worker at any time.
LEMMA VerdictsAtWrite ==
  ASSUME VerdictsInv, [Next]_vars, UNCHANGED <<task, verdict, retained, forgotten>>,
         NEW g, NEW r \in Run, NEW type \in {"result", "cancel", "ack"},
         Write(g, Down(type, r))
  PROVE  VerdictsInv'
<1>1. Down(type, r) \in DownMsg /\ Down(type, r).type # "start"
  BY DEF DownMsg, Down
<1>2. \A q : Down(type, r) # Down("start", q)
  BY DEF Down
<1>3. OneStart' /\ \A q : StartSent(q)' => StartSent(q)
  BY <1>1, <1>2, VerdictTyping, WriteToDown DEF VerdictTypes
<1> QED
  BY <1>3, VerdictsLeft

\* A run is sent once: its start was neither sent nor taken before.
LEMMA VerdictsAtSendStart ==
  ASSUME VerdictsInv, [Next]_vars, NEW r \in Run, SendStart(r)
  PROVE  VerdictsInv'
<1>a. VerdictTypes /\ OneStart /\ DistinctRuns(retained)
  BY VerdictTyping
<1>1. ~StartSent(r) /\ task[r] = "none" /\ ~Kept(r)
  BY DEF SendStart, VerdictsInv, SentOnce
<1>2. /\ Down("start", r) \in DownMsg /\ Down("start", r).run = r
      /\ \A q : Down("start", r) = Down("start", q) => q = r
  BY DEF DownMsg, Down
<1>3. OneStart' /\ \A q : StartSent(q)' => StartSent(q) \/ q = r
  <2>1. Write(start[r].gen, Down("start", r))
    BY DEF SendStart
  <2>2. OneStart' /\ \A q : StartSent(q)' => StartSent(q) \/ Down("start", r) = Down("start", q)
    BY <2>1, <1>a, <1>1, <1>2, WriteToDown DEF VerdictTypes
  <2> QED
    BY <2>2, <1>2
<1>4. UNCHANGED <<task, retained, verdict, forgotten>> /\ start'[r].phase = "done"
  BY <1>a DEF SendStart, workerVars, NoStart, VerdictTypes
<1>5. \A q : Kept(q)' <=> Kept(q)
  BY <1>4 DEF Kept
<1>6. \A q \in Run : verdict[q] # "none" /\ Running(q)' /\ ~forgotten => Kept(q)
  BY DoneStays DEF VerdictsInv, VerdictIsKept, Kept
<1>7. DistinctRuns(retained')
  BY <1>a, <1>4
<1> QED
  BY <1>1, <1>3, <1>4, <1>5, <1>6, <1>7, VerdictsNext DEF VerdictsInv, SentOnce, KeptOnce

\* The worker takes one message, and what it retains of the run stays distinct.
LEMMA VerdictsAtConclude ==
  ASSUME VerdictsInv, [Next]_vars, NEW r \in Run, NEW s \in Verdict,
         task[r] # "none" \/ StartSent(r), ~Kept(r), Retain(<<End(r, s)>>),
         task' = [task EXCEPT ![r] = "none"], verdict' = [verdict EXCEPT ![r] = s],
         OneStart', \A q \in Run : StartSent(q)' => StartSent(q), ~StartSent(r)'
  PROVE  VerdictsInv'
<1>a. VerdictTypes /\ DistinctRuns(retained) /\ HasRow(r)
  BY VerdictTyping
<1> DEFINE ends == <<End(r, s)>>
<1>1. /\ ends \in Seq(Retained) /\ Len(ends) = 1 /\ ends[1].run = r
      /\ DistinctRuns(ends)
  BY DEF End, Retained, DistinctRuns
<1> HIDE DEF ends
<1>2. Retain(ends)
  BY DEF ends
<1>3. /\ DistinctRuns(retained') /\ (~forgotten' => ~forgotten)
      /\ \A q : Kept(q)' => Kept(q) \/ q = r
      /\ ~forgotten' => \A q : Kept(q) \/ q = r => Kept(q)'
  <2>1. /\ \A i \in 1..Len(ends) : ends[i].run = r /\ ~Kept(ends[i].run)
        /\ \A q : (\E i \in 1..Len(ends) : ends[i].run = q) <=> q = r
    BY <1>1
  <2>2. retained \in Seq(Retained)
    BY <1>a DEF VerdictTypes
  <2> QED
    BY <1>a, <1>1, <1>2, <2>1, <2>2, RetainKeeps
<1>4. /\ \A q \in Run : q # r => task'[q] = task[q] /\ verdict'[q] = verdict[q]
      /\ task'[r] = "none"
  BY <1>a DEF VerdictTypes
<1>5. \A q \in Run : q # r /\ verdict[q] # "none" /\ Running(q)' /\ ~forgotten => Kept(q)
  BY DoneStays DEF VerdictsInv, VerdictIsKept, Kept
<1>6. \A q \in Run : q # r /\ StartSent(q) => task[q] = "none" /\ ~Kept(q)
  BY DEF VerdictsInv, SentOnce
<1>7. \A q \in Run : q # r /\ task[q] # "none" => ~Kept(q)
  BY DEF VerdictsInv, KeptOnce
<1> QED
  BY <1>a, <1>3, <1>4, <1>5, <1>6, <1>7, VerdictsNext

LEMMA VerdictsAtRead ==
  ASSUME VerdictsInv, [Next]_vars, WorkerRead
  PROVE  VerdictsInv'
<1>a. VerdictTypes /\ OneStart /\ DistinctRuns(retained)
  BY VerdictTyping
<1>b. down # <<>> /\ down' = Tail(down)
  BY DEF WorkerRead, TakeStart, TakeResult, TakeCancel, TakeAck, AtWorker
<1>c. PICK r \in Run : r = Head(down).run
  <2>1. Head(down) \in DownMsg
    BY <1>a, <1>b DEF VerdictTypes
  <2> QED
    BY <2>1 DEF DownMsg
<1>d. /\ OneStart' /\ \A q : StartSent(q)' => StartSent(q)
      /\ \A q : Head(down) = Down("start", q) => StartSent(q) /\ ~StartSent(q)'
  BY <1>a, <1>b, TailOfDown DEF VerdictTypes
<1>e. /\ \A q \in Run : verdict[q] # "none" /\ Running(q)' /\ ~forgotten => Kept(q)
      /\ \A q \in Run : StartSent(q) => task[q] = "none" /\ ~Kept(q)
      /\ \A q \in Run : task[q] # "none" => ~Kept(q)
  BY DoneStays DEF VerdictsInv, VerdictIsKept, SentOnce, KeptOnce, Kept
<1>1. CASE TakeStart
  <2>1. Head(down) = Down("start", r)
    <3>1. Head(down) \in DownMsg /\ Head(down).type = "start"
      BY <1>1, <1>a, <1>b DEF TakeStart, AtWorker, VerdictTypes
    <3> QED
      BY <3>1, <1>c DEF DownMsg, Down
  <2>2. StartSent(r) /\ ~StartSent(r)' /\ ~Kept(r) /\ task[r] = "none"
    BY <2>1, <1>c, <1>d, <1>e
  <2>3. CASE /\ Retain(<<End(r, "failed")>>)
             /\ verdict' = [verdict EXCEPT ![r] = "failed"] /\ UNCHANGED task
    <3>1. task' = [task EXCEPT ![r] = "none"] /\ "failed" \in Verdict
      BY <2>2, <2>3, <1>a DEF VerdictTypes, Verdict
    <3> QED
      BY <2>2, <2>3, <3>1, <1>c, <1>d, VerdictsAtConclude
  <2>4. CASE task' = [task EXCEPT ![r] = "thinking"]
             /\ UNCHANGED <<retained, verdict, forgotten>>
    <3>1. \A q \in Run : q # r => task'[q] = task[q]
      BY <2>4, <1>a DEF VerdictTypes
    <3>2. \A q : Kept(q)' <=> Kept(q)
      BY <2>4 DEF Kept
    <3>3. DistinctRuns(retained')
      BY <2>4, <1>a
    <3> QED
      BY <2>2, <2>4, <3>1, <3>2, <3>3, <1>d, <1>e, VerdictsNext DEF VerdictsInv
  <2> QED
    BY <1>1, <2>3, <2>4, <1>c DEF TakeStart
<1>2. CASE TakeResult
  <2>1. \/ UNCHANGED task
        \/ task[r] = "calling" /\ task' = [task EXCEPT ![r] = "thinking"]
    BY <1>2, <1>c DEF TakeResult
  <2>2. UNCHANGED <<retained, verdict, forgotten>>
    BY <1>2 DEF TakeResult
  <2>3. \A q \in Run : task'[q] # "none" <=> task[q] # "none"
    BY <2>1, <1>a, <1>c DEF VerdictTypes
  <2>4. \A q : Kept(q)' <=> Kept(q)
    BY <2>2 DEF Kept
  <2>5. DistinctRuns(retained')
    BY <2>2, <1>a
  <2> QED
    BY <2>2, <2>3, <2>4, <2>5, <1>d, <1>e, VerdictsNext DEF VerdictsInv
<1>3. CASE TakeCancel
  <2>1. CASE UNCHANGED <<task, verdict, retained, forgotten>>
    BY <2>1, <1>d, VerdictsLeft
  <2>2. CASE task[r] # "none" /\ Conclude(r, "failed", <<>>)
    <3>1. ~StartSent(r)' /\ ~Kept(r) /\ "failed" \in Verdict
      BY <2>2, <1>c, <1>d, <1>e DEF Verdict
    <3> QED
      BY <2>2, <3>1, <1>c, <1>d, VerdictsAtConclude DEF Conclude
  <2> QED
    BY <1>3, <2>1, <2>2, <1>c DEF TakeCancel
<1>4. CASE TakeAck
  <2>0. UNCHANGED <<task, verdict, forgotten>>
    BY <1>4 DEF TakeAck
  <2>1. CASE UNCHANGED retained
    BY <2>0, <2>1, <1>d, VerdictsLeft
  <2>2. ASSUME NEW i \in 1..Len(retained), retained[i].run = r,
               retained' = RemoveAt(retained, i)
        PROVE  VerdictsInv'
    <3>1. /\ Len(retained') = Len(retained) - 1 /\ Len(retained) \in Nat
          /\ \A j \in 1..Len(retained') :
               retained'[j] = IF j < i THEN retained[j] ELSE retained[j + 1]
      <4>1. retained' = SubSeq(retained, 1, i - 1) \o SubSeq(retained, i + 1, Len(retained))
        BY <2>2 DEF RemoveAt
      <4> DEFINE front == SubSeq(retained, 1, i - 1)
                 back == SubSeq(retained, i + 1, Len(retained))
      <4>2. /\ front \in Seq(Retained) /\ Len(front) = i - 1
            /\ \A j \in 1..(i - 1) : front[j] = retained[j]
        BY <1>a DEF VerdictTypes
      <4>3. /\ back \in Seq(Retained) /\ Len(back) = Len(retained) - i
            /\ \A j \in 1..(Len(retained) - i) : back[j] = retained[i + j]
        BY <1>a DEF VerdictTypes
      <4> HIDE DEF front, back
      <4>4. /\ Len(front \o back) = Len(front) + Len(back)
            /\ \A j \in 1..(Len(front) + Len(back)) :
                 (front \o back)[j] = IF j <= Len(front) THEN front[j] ELSE back[j - Len(front)]
        BY <4>2, <4>3, ConcatProperties
      <4>5. retained' = front \o back /\ Len(retained) \in Nat
        BY <4>1, <1>a DEF front, back, VerdictTypes
      <4>6. ASSUME NEW j \in 1..(Len(retained) - 1), ~(j < i)
            PROVE  back[j - (i - 1)] = retained[j + 1]
        <5>1. j - (i - 1) \in 1..(Len(retained) - i) /\ i + (j - (i - 1)) = j + 1
          BY <4>5, <4>6
        <5> QED
          BY <4>3, <5>1
      <4>7. Len(retained') = Len(retained) - 1
        <5>1. Len(retained') = Len(front) + Len(back)
          BY <4>4, <4>5
        <5>2. Len(front) + Len(back) = Len(retained) - 1
          BY <4>2, <4>3, <4>5
        <5> QED
          BY <5>1, <5>2
      <4>8. ASSUME NEW j \in 1..Len(retained')
            PROVE  retained'[j] = IF j < i THEN retained[j] ELSE retained[j + 1]
        <5>1. retained'[j] = IF j <= i - 1 THEN front[j] ELSE back[j - (i - 1)]
          <6>1. j \in 1..(Len(front) + Len(back)) /\ Len(front) = i - 1
            BY <4>2, <4>3, <4>5, <4>7
          <6> QED
            BY <4>4, <4>5, <6>1
        <5>2. j < i => j <= i - 1 /\ j \in 1..(i - 1)
          BY <4>5, <4>7
        <5>3. ~(j < i) => ~(j <= i - 1) /\ j \in 1..(Len(retained) - 1)
          BY <4>5, <4>7
        <5> QED
          BY <5>1, <5>2, <5>3, <4>2, <4>6
      <4> QED
        BY <4>5, <4>7, <4>8
    <3>2. DistinctRuns(retained')
      <4> SUFFICES ASSUME NEW j \in 1..Len(retained'), NEW k \in 1..Len(retained'),
                          retained'[j].run = retained'[k].run
                   PROVE  j = k
        BY DEF DistinctRuns
      <4> DEFINE at(n) == IF n < i THEN n ELSE n + 1
      <4>1. at(j) \in 1..Len(retained) /\ at(k) \in 1..Len(retained)
        BY <3>1
      <4>2. retained[at(j)].run = retained[at(k)].run
        BY <3>1
      <4>3. at(j) = at(k)
        BY <4>1, <4>2, <1>a DEF DistinctRuns
      <4> QED
        BY <4>3
    <3>3. \A q : Kept(q)' => Kept(q)
      BY <3>1 DEF Kept
    <3>4. \A q : q # r /\ Kept(q) => Kept(q)'
      <4> SUFFICES ASSUME NEW k \in 1..Len(retained), retained[k].run # r
                   PROVE  \E j \in 1..Len(retained') : retained'[j].run = retained[k].run
        BY DEF Kept
      <4>1. CASE k < i
        BY <4>1, <3>1
      <4>2. CASE k > i
        <5>1. k - 1 \in 1..Len(retained') /\ ~(k - 1 < i) /\ k - 1 + 1 = k
          BY <4>2, <3>1
        <5>2. retained'[k - 1] = retained[k]
          BY <5>1, <3>1
        <5> QED
          BY <5>1, <5>2
      <4> QED
        BY <4>1, <4>2, <2>2, <3>1
    <3>5. ~Running(r)'
      <4>1. down[1] = Head(down) /\ 1 \in 1..Len(down) /\ down[1].type = "ack"
        BY <1>4, <1>a, <1>b DEF TakeAck, AtWorker, VerdictTypes
      <4>2. Ended(r)
        <5>1. down[1] \in SoundDown
          BY <4>1, VerdictTyping DEF RunsInv, WireIsSound
        <5> QED
          BY <5>1, <4>1, <1>c DEF SoundDown
      <4> QED
        BY <4>2, <1>c, VerdictTyping, RowsMove DEF Ended, Running, Verdict
    <3> QED
      BY <2>0, <3>2, <3>3, <3>4, <3>5, <1>d, <1>e, VerdictsNext DEF VerdictsInv
  <2> QED
    BY <1>4, <2>1, <2>2, <1>c DEF TakeAck
<1> QED
  BY <1>1, <1>2, <1>3, <1>4 DEF WorkerRead

\* A task ends by itself.
LEMMA VerdictsAtEnd ==
  ASSUME VerdictsInv, [Next]_vars, NEW r \in Run, CallTimesOut(r) \/ FinishRun(r)
  PROVE  VerdictsInv'
<1>1. UNCHANGED down /\ task[r] # "none"
  BY DEF CallTimesOut, FinishRun
<1>2. PICK s \in Verdict : \E steps : Conclude(r, s, steps)
  BY DEF CallTimesOut, FinishRun, Verdict
<1>3. OneStart' /\ \A q : StartSent(q)' <=> StartSent(q)
  BY <1>1, VerdictTyping DEF OneStart, StartSent
<1>4. ~StartSent(r) /\ ~Kept(r)
  BY <1>1 DEF VerdictsInv, SentOnce, KeptOnce
<1> QED
  BY <1>1, <1>2, <1>3, <1>4, VerdictsAtConclude DEF Conclude

LEMMA VerdictsAtCallTool ==
  ASSUME VerdictsInv, [Next]_vars, NEW r \in Run, CallTool(r)
  PROVE  VerdictsInv'
<1>a. VerdictTypes /\ DistinctRuns(retained)
  BY VerdictTyping
<1>1. UNCHANGED <<down, retained, verdict, forgotten>> /\ task[r] = "thinking"
      /\ task' = [task EXCEPT ![r] = "calling"]
  BY DEF CallTool
<1>2. OneStart' /\ (\A q : StartSent(q)' <=> StartSent(q)) /\ \A q : Kept(q)' <=> Kept(q)
  BY <1>1, VerdictTyping DEF OneStart, StartSent, Kept
<1>3. \A q \in Run : task'[q] # "none" <=> task[q] # "none"
  BY <1>1, <1>a DEF VerdictTypes
<1>4. \A q \in Run : verdict[q] # "none" /\ Running(q)' /\ ~forgotten => Kept(q)
  BY DoneStays DEF VerdictsInv, VerdictIsKept, Kept
<1>5. DistinctRuns(retained')
  BY <1>1, <1>a
<1> QED
  BY <1>1, <1>2, <1>3, <1>4, <1>5, VerdictsNext DEF VerdictsInv, SentOnce, KeptOnce

\* The transport is lost: every task ends, and its terminal is retained.
LEMMA VerdictsAtLoseStream ==
  ASSUME VerdictsInv, [Next]_vars, LoseStream
  PROVE  VerdictsInv'
<1>a. VerdictTypes /\ DistinctRuns(retained)
      /\ \A q \in Run : task[q] # "none" => HasRow(q)
  BY VerdictTyping
<1>1. down' = <<>> /\ \A q \in Run : task'[q] = "none"
  BY DEF LoseStream, Cut
<1>2. PICK n \in 0..MaxConcurrent :
        \E ending \in [1..n -> Busy] :
          /\ IsInjective(ending) /\ {ending[i] : i \in 1..n} = Busy
          /\ Retain([i \in 1..n |-> End(ending[i], "failed")])
  BY DEF LoseStream
<1>3. PICK ending \in [1..n -> Busy] :
        /\ IsInjective(ending) /\ {ending[i] : i \in 1..n} = Busy
        /\ Retain([i \in 1..n |-> End(ending[i], "failed")])
  BY <1>2
<1> DEFINE ends == [i \in 1..n |-> End(ending[i], "failed")]
<1>4. n \in Nat /\ \A i \in 1..n : ending[i] \in Run /\ task[ending[i]] # "none"
  BY LimitAssumption DEF Busy
<1>5. /\ ends \in Seq(Retained) /\ Len(ends) = n
      /\ \A i \in 1..n : ends[i].run = ending[i]
  <2>1. \A i \in 1..n : End(ending[i], "failed") \in Retained
    BY <1>4 DEF End, Retained, Verdict
  <2>2. ends \in Seq(Retained)
    BY <1>4, <2>1, SeqDef
  <2>3. Len(ends) = n /\ \A i \in 1..n : ends[i] = End(ending[i], "failed")
    BY <1>4
  <2> HIDE DEF ends
  <2> QED
    BY <2>2, <2>3 DEF End
<1>6. Retain(ends)
  BY <1>3
<1> HIDE DEF ends
<1>7. DistinctRuns(ends)
  <2>1. DOMAIN ending = 1..n
    OBVIOUS
  <2> QED
    BY <1>3, <1>5, <2>1 DEF DistinctRuns, IsInjective
<1>8. \A i \in 1..Len(ends) : ~Kept(ends[i].run)
  BY <1>4, <1>5 DEF VerdictsInv, KeptOnce
<1>9. /\ DistinctRuns(retained') /\ (~forgotten' => ~forgotten)
      /\ \A q : Kept(q)' => Kept(q) \/ \E i \in 1..Len(ends) : ends[i].run = q
      /\ ~forgotten' =>
           \A q : Kept(q) \/ (\E i \in 1..Len(ends) : ends[i].run = q) => Kept(q)'
  BY <1>a, <1>5, <1>6, <1>7, <1>8, RetainKeeps DEF VerdictTypes
<1>10. /\ \A q : Kept(q)' => Kept(q) \/ q \in Busy
       /\ ~forgotten' => \A q : Kept(q) \/ q \in Busy => Kept(q)'
  BY <1>3, <1>5, <1>9
<1>11. /\ verdict' = [q \in Run |-> IF q \in Busy THEN "failed" ELSE verdict[q]]
       /\ \A q \in Run : q \in Busy <=> task[q] # "none"
  BY DEF LoseStream, Busy
<1>12. OneStart' /\ \A q : ~StartSent(q)'
  BY <1>1 DEF OneStart, StartSent
<1>13. \A q \in Run : verdict[q] # "none" /\ Running(q)' /\ ~forgotten => Kept(q)
  BY DoneStays DEF VerdictsInv, VerdictIsKept, Kept
<1> QED
  BY <1>a, <1>1, <1>9, <1>10, <1>11, <1>12, <1>13, VerdictsNext

LEMMA VerdictsAtCrash ==
  ASSUME VerdictsInv, [Next]_vars, WorkerCrash
  PROVE  VerdictsInv'
<1>1. /\ down' = <<>> /\ retained' = <<>>
      /\ \A q \in Run : task'[q] = "none" /\ verdict'[q] = "none"
  BY DEF WorkerCrash, Cut
<1>2. OneStart' /\ DistinctRuns(retained') /\ \A q : ~StartSent(q)' /\ ~Kept(q)'
  BY <1>1 DEF OneStart, DistinctRuns, StartSent, Kept
<1> QED
  BY <1>1, <1>2, VerdictsNext

LEMMA VerdictsAtAgeOut ==
  ASSUME VerdictsInv, [Next]_vars, AgeOut
  PROVE  VerdictsInv'
<1>a. VerdictTypes /\ DistinctRuns(retained)
  BY VerdictTyping
<1>1. UNCHANGED <<down, task, verdict>> /\ retained # <<>> /\ retained' = Tail(retained)
  BY DEF AgeOut
<1>2. OneStart' /\ \A q : StartSent(q)' <=> StartSent(q)
  BY <1>1, VerdictTyping DEF OneStart, StartSent
<1>3. /\ Len(retained') = Len(retained) - 1 /\ Len(retained) \in Nat
      /\ \A i \in 1..Len(retained') : i + 1 \in 1..Len(retained) /\ retained'[i] = retained[i + 1]
  BY <1>1, <1>a DEF VerdictTypes
<1>4. DistinctRuns(retained')
  <2> SUFFICES ASSUME NEW i \in 1..Len(retained'), NEW j \in 1..Len(retained'),
                      retained'[i].run = retained'[j].run
               PROVE  i = j
    BY DEF DistinctRuns
  <2>1. i + 1 = j + 1
    BY <1>3, <1>a DEF DistinctRuns
  <2> QED
    BY <2>1
<1>5. \A q : Kept(q)' => Kept(q)
  BY <1>3 DEF Kept
<1>6. forgotten'
  BY DEF AgeOut
<1> QED
  BY <1>1, <1>2, <1>4, <1>5, <1>6, VerdictsNext DEF VerdictsInv, SentOnce, KeptOnce

LEMMA VerdictsInvInit == Init => VerdictsInv
<1> SUFFICES ASSUME Init PROVE VerdictsInv
  OBVIOUS
<1>1. RunsInv
  BY InitSound
<1>2. SentOnce /\ KeptOnce /\ VerdictIsKept
  BY DEF Init, SentOnce, KeptOnce, VerdictIsKept, StartSent, Kept
<1>3. \A r \in Run : verdict[r] = "none"
  BY DEF Init
<1> QED
  BY <1>1, <1>2, <1>3 DEF VerdictsInv

LEMMA VerdictsInvStep == VerdictsInv /\ [Next]_vars => VerdictsInv'
<1> SUFFICES ASSUME VerdictsInv, [Next]_vars PROVE VerdictsInv'
  OBVIOUS
<1>a. VerdictTypes /\ OneStart
  BY VerdictTyping
<1>b. /\ handler \in [Gen -> Handler] /\ up \in [Gen -> Seq(UpMsg)]
  BY VerdictTyping DEF RunsInv, TypeOK, StreamTypes
<1>1. CASE UNCHANGED <<task, verdict, retained, forgotten, down>>
  <2>1. OneStart' /\ \A q : StartSent(q)' <=> StartSent(q)
    BY <1>1, <1>a DEF OneStart, StartSent
  <2> QED
    BY <1>1, <2>1, VerdictsLeft
<1>2. CASE WorkerStep
  <2>1. \A g \in Gen : OpenStream(g) => UNCHANGED <<task, verdict, retained, forgotten, down>>
    BY DEF OpenStream
  <2> QED
    BY <1>1, <1>2, <2>1, VerdictsAtEnd, VerdictsAtCallTool, VerdictsAtRead,
       VerdictsAtLoseStream, VerdictsAtCrash, VerdictsAtAgeOut DEF WorkerStep, TaskStep
<1>3. ASSUME UNCHANGED workerVars, NEW g, NEW r \in Run, NEW type \in {"result", "cancel", "ack"},
             Write(g, Down(type, r))
      PROVE  VerdictsInv'
  BY <1>3, VerdictsAtWrite DEF workerVars
<1>4. ASSUME UNCHANGED workerVars, DownStep PROVE VerdictsInv'
  <2>1. ASSUME NEW r \in Run, SendStart(r) PROVE VerdictsInv'
    BY <2>1, VerdictsAtSendStart
  <2>2. ASSUME NEW r \in Run, FinishCancel(r) PROVE VerdictsInv'
    BY <1>4, <2>2, <1>3 DEF FinishCancel
  <2>3. ASSUME NEW g \in Gen, FinishTool(g) \/ AckTerminal(g) PROVE VerdictsInv'
    <3>1. handler[g].run \in Run
      BY <2>3, <1>b DEF FinishTool, AckTerminal, Handler
    <3> QED
      BY <1>4, <2>3, <3>1, <1>3 DEF FinishTool, AckTerminal
  <2>4. ASSUME NEW g \in Gen, TakeTool(g) \/ TakeTerminal(g) PROVE VerdictsInv'
    <3>1. Head(up[g]).run \in Run
      BY <2>4, VerdictTyping, HeadIsSound DEF TakeTool, TakeTerminal, AtHead
    <3>2. \/ UNCHANGED down
          \/ \E type \in {"result", "ack"} : Write(g, Down(type, Head(up[g]).run))
      BY <2>4 DEF TakeTool, TakeTerminal
    <3> QED
      BY <1>4, <3>1, <3>2, <1>1, <1>3 DEF workerVars
  <2>5. CASE WorkerRead \/ LoseStream \/ WorkerCrash
    BY <2>5, <1>2 DEF WorkerStep
  <2> QED
    BY <1>4, <2>1, <2>2, <2>3, <2>4, <2>5 DEF DownStep
<1> QED
  BY StepsByGroup, <1>1, <1>2, <1>4 DEF workerVars

\* The inductive invariant of what the worker retains holds, whatever its limit.
THEOREM VerdictsInvariant == Spec => []VerdictsInv
BY VerdictsInvInit, VerdictsInvStep, PTL DEF Spec

\* As long as the worker process has let go of no terminal for its age or its
\* number, no verdict the gateway still waits for is lost.
THEOREM VerdictIsKeptHolds == Spec => []VerdictIsKept
<1>1. VerdictsInv => VerdictIsKept
  BY DEF VerdictsInv
<1> QED
  BY <1>1, VerdictsInvariant, PTL
============================================================================
