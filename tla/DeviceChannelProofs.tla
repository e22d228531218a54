------------------------ MODULE DeviceChannelProofs ------------------------
(***************************************************************************)
(* DeviceChannel for every set of commands and every bound: its type       *)
(* invariant; that no command runs twice, and commands run in the order of *)
(* their numbers; that success is only said of what ran; that what is      *)
(* waited for stays replayable and what was revoked is never sent; and     *)
(* that the channel implements CommandDelivery.                            *)
(***************************************************************************)
EXTENDS DeviceDelivery, SequenceTheorems, TLAPS

-----------------------------------------------------------------------------
(* Which actions touch which group of variables.                            *)

RowStep ==
  \/ InsertRow \/ RevokeCommits \/ GatewayRestart
  \/ \E c \in Cmd : MarkDispatched(c) \/ DispatchFails(c) \/ TimeoutCommits(c)
  \/ \E g \in Gen : Authenticate(g) \/ ReplayStep(g) \/ TakeResult(g)

MemoryStep ==
  \/ AllocateLoaded \/ InsertFails \/ Enqueue
  \/ SweepStale \/ RevokeCommits \/ RevokeFinishes \/ GatewayRestart
  \/ \E c \in Cmd : Allocate(c) \/ DispatchFails(c) \/ TimerFires(c)
  \/ \E g \in Gen : SetSequence(g) \/ Settle(g) \/ StreamClosed(g)

DispatchStep ==
  \/ AllocateLoaded \/ InsertRow \/ InsertFails \/ Enqueue \/ GatewayRestart
  \/ \E c \in Cmd : \/ Allocate(c) \/ MarkDispatched(c) \/ DispatchFails(c)
                    \/ TimerFires(c) \/ TimeoutCommits(c)
  \/ \E g \in Gen : Settle(g)

StreamStep ==
  \/ StreamNext \/ Receive \/ SweepStale \/ RevokeFinishes \/ GatewayRestart
  \/ \E token \in BOOLEAN : Connect(token)
  \/ \E s \in {"succeeded", "failed"} : Finish(s)

DaemonStep ==
  \/ DaemonNext \/ Enqueue
  \/ \E g \in Gen : Activate(g) \/ ReplayStep(g)

LEMMA StepsByGroup ==
  ASSUME [Next]_vars
  PROVE /\ RowStep \/ UNCHANGED rowVars
        /\ MemoryStep \/ UNCHANGED <<memoVars, discardVars>>
        /\ DispatchStep \/ UNCHANGED dispatchVars
        /\ StreamStep \/ UNCHANGED streamVars
        /\ DaemonStep \/ UNCHANGED <<down, daemonVars>>
<1> USE DEF vars, rowVars, memoVars, discardVars, dispatchVars, streamVars,
            daemonVars, gatewayVars
<1>1. CASE UNCHANGED vars
  BY <1>1
<1>2. CASE DispatchNext
  BY <1>2 DEF DispatchNext, RowStep, MemoryStep, DispatchStep, StreamStep, DaemonStep,
     AllocateLoaded, InsertRow, InsertFails, Enqueue, Allocate, MarkDispatched,
     DispatchFails, TimerFires, TimeoutCommits
<1>3. CASE StreamNext
  <2>1. PICK g \in Gen : \/ Authenticate(g) \/ ReadSequence(g) \/ SetSequence(g)
                         \/ CheckRevoked(g) \/ Activate(g) \/ ReplayStep(g)
                         \/ TakeResult(g) \/ Settle(g) \/ HandlerFails(g)
                         \/ StreamClosed(g)
    BY <1>3 DEF StreamNext
  <2>2. StreamStep
    BY <1>3 DEF StreamStep
  <2>3. CASE ReadSequence(g) \/ CheckRevoked(g) \/ HandlerFails(g)
    BY <2>2, <2>3 DEF ReadSequence, CheckRevoked, HandlerFails
  <2>4. CASE SetSequence(g) \/ StreamClosed(g)
    BY <2>2, <2>4 DEF MemoryStep, SetSequence, StreamClosed
  <2>5. CASE Activate(g) \/ ReplayStep(g)
    BY <2>2, <2>5 DEF RowStep, DaemonStep, Activate, ReplayStep
  <2>6. CASE Authenticate(g) \/ TakeResult(g)
    BY <2>2, <2>6 DEF RowStep, Authenticate, TakeResult
  <2>7. CASE Settle(g)
    BY <2>2, <2>7 DEF MemoryStep, DispatchStep, Settle
  <2> QED
    BY <2>1, <2>3, <2>4, <2>5, <2>6, <2>7
<1>4. CASE DaemonNext
  BY <1>4 DEF DaemonNext, RowStep, MemoryStep, DispatchStep, StreamStep, DaemonStep,
     Connect, Receive, PersistHead, HandOff, DaemonDrops, Finish
<1>5. CASE SweepStale \/ RevokeCommits \/ RevokeFinishes \/ GatewayRestart
  BY <1>5 DEF RowStep, MemoryStep, DispatchStep, StreamStep, DaemonStep,
     SweepStale, RevokeCommits, RevokeFinishes, GatewayRestart
<1> QED
  BY <1>1, <1>2, <1>3, <1>4, <1>5 DEF Next

-----------------------------------------------------------------------------
LEMMA WriteTyped ==
  ASSUME NEW g, NEW c \in Cmd, down \in Seq(Cmd), Write(g, c)
  PROVE  down' \in Seq(Cmd)
BY DEF Write

LEMMA ReplayTyped ==
  ASSUME NEW g, NEW S \in SUBSET Cmd, down \in Seq(Cmd), ReplayNext(g, S)
  PROVE  down' \in Seq(Cmd)
BY WriteTyped DEF ReplayNext

LEMMA DaemonTypesStep ==
  ASSUME TypeOK, [Next]_vars PROVE DaemonTypes'
<1> USE DEF TypeOK, DaemonTypes
<1>1. CASE UNCHANGED <<down, daemonVars>>
  BY <1>1 DEF daemonVars
<1>2. CASE Enqueue
  <2>1. alloc.cmd \in Cmd
    BY <1>2 DEF Enqueue, DispatchTypes
  <2>2. down' \in Seq(Cmd)
    BY <1>2, <2>1, WriteTyped DEF Enqueue
  <2> QED
    BY <1>2, <2>2 DEF Enqueue, daemonVars
<1>3. ASSUME NEW g \in Gen, Activate(g) PROVE DaemonTypes'
  <2>1. {c \in outbox : seqOf[c] > handler[g].lastSeen} \in SUBSET Cmd
    BY DEF MemoryTypes
  <2>2. down' \in Seq(Cmd)
    BY <1>3, <2>1, ReplayTyped DEF Activate
  <2> QED
    BY <1>3, <2>2 DEF Activate, daemonVars
<1>4. ASSUME NEW g \in Gen, ReplayStep(g) PROVE DaemonTypes'
  <2>1. handler[g].replay \ {handler[g].cmd} \in SUBSET Cmd
    BY DEF StreamTypes, Handler
  <2>2. down' \in Seq(Cmd)
    BY <1>4, <2>1, ReplayTyped DEF ReplayStep
  <2> QED
    BY <1>4, <2>2 DEF ReplayStep, daemonVars
<1>5. ASSUME NEW token \in BOOLEAN, Connect(token) PROVE DaemonTypes'
  BY <1>5, BoundAssumption DEF Connect, CountTypes, Gen
<1>6. CASE Receive
  <2>1. Head(down) \in Cmd /\ down' \in Seq(Cmd)
    BY <1>6 DEF Receive
  <2>2. seqOf[Head(down)] \in Nat
    BY <2>1 DEF RowTypes
  <2>3. \/ UNCHANGED <<accepted, queue, taken>>
        \/ /\ accepted' = seqOf[Head(down)] /\ queue' = Append(queue, Head(down))
           /\ taken' = taken \cup {Head(down)}
    BY <1>6 DEF Receive
  <2>4. accepted' \in Nat /\ queue' \in Seq(Cmd) /\ taken' \in SUBSET Cmd
    <3>1. CASE UNCHANGED <<accepted, queue, taken>>
      BY <3>1
    <3>2. CASE /\ accepted' = seqOf[Head(down)] /\ queue' = Append(queue, Head(down))
               /\ taken' = taken \cup {Head(down)}
      BY <2>1, <2>2, <3>2
    <3> QED
      BY <2>3, <3>1, <3>2
  <2> QED
    BY <1>6, <2>1, <2>4 DEF Receive
<1>7. CASE PersistHead
  <2>1. queue # <<>>
    BY <1>7 DEF PersistHead, HeadPersisted
  <2>2. seqOf[Head(queue)] \in Nat
    BY <2>1 DEF RowTypes
  <2> QED
    BY <1>7, <2>2 DEF PersistHead
<1>8. CASE HandOff
  BY <1>8 DEF HandOff
<1>9. ASSUME NEW s \in {"succeeded", "failed"}, Finish(s) PROVE DaemonTypes'
  BY <1>9 DEF Finish
<1>10. CASE DaemonDrops
  BY <1>10 DEF DaemonDrops, NoGen
<1> QED
  BY StepsByGroup, <1>1, <1>2, <1>3, <1>4, <1>5, <1>6, <1>7, <1>8, <1>9, <1>10
     DEF DaemonStep, DaemonNext

LEMMA RowTypesStep ==
  ASSUME TypeOK, [Next]_vars PROVE RowTypes'
<1> USE DEF TypeOK, RowTypes
<1>a. InFlight \cup Terminal \subseteq Status
  BY DEF Status
<1>b. {"pending", "dispatched"} \subseteq Status /\ {"failed", "timed_out"} \subseteq Status
  BY DEF Status, InFlight, Terminal
<1>1. CASE UNCHANGED rowVars
  BY <1>1 DEF rowVars
<1>2. CASE InsertRow
  BY <1>2, <1>b DEF InsertRow, DispatchTypes, Allocation
<1>3. CASE RevokeCommits
  BY <1>3 DEF RevokeCommits
<1>4. CASE GatewayRestart
  BY <1>4, <1>b DEF GatewayRestart
<1>5. ASSUME NEW c \in Cmd, MarkDispatched(c) PROVE RowTypes'
  BY <1>5, <1>b DEF MarkDispatched, MarkedDispatched
<1>6. ASSUME NEW c \in Cmd, DispatchFails(c) PROVE RowTypes'
  BY <1>6, <1>b DEF DispatchFails
<1>7. ASSUME NEW c \in Cmd, TimeoutCommits(c) PROVE RowTypes'
  BY <1>7, <1>b DEF TimeoutCommits, Conclude
<1>8. ASSUME NEW g \in Gen, Authenticate(g) PROVE RowTypes'
  BY <1>8 DEF Authenticate
<1>9. ASSUME NEW g \in Gen, ReplayStep(g) PROVE RowTypes'
  BY <1>9, <1>b DEF ReplayStep, MarkedDispatched
<1>10. ASSUME NEW g \in Gen, TakeResult(g) PROVE RowTypes'
  <2>1. Head(up[g]) \in Result
    BY <1>10 DEF TakeResult, StreamTypes
  <2>2. Head(up[g]).cmd \in Cmd /\ Head(up[g]).status \in Status
    BY <2>1, <1>a DEF Result, Terminal
  <2> QED
    BY <1>10, <2>2 DEF TakeResult, Conclude
<1> QED
  BY StepsByGroup, <1>1, <1>2, <1>3, <1>4, <1>5, <1>6, <1>7, <1>8, <1>9, <1>10
     DEF RowStep

LEMMA MemoryTypesStep ==
  ASSUME TypeOK, [Next]_vars PROVE MemoryTypes'
<1> USE DEF TypeOK, MemoryTypes
<1>1. CASE UNCHANGED <<memoVars, discardVars>>
  BY <1>1 DEF memoVars, discardVars
<1>2. CASE AllocateLoaded
  BY <1>2 DEF AllocateLoaded, RowTypes, discardVars
<1>3. CASE InsertFails
  BY <1>3 DEF InsertFails, discardVars
<1>4. CASE Enqueue
  BY <1>4 DEF Enqueue, Pushed, DispatchTypes, discardVars
<1>5. CASE SweepStale
  BY <1>5 DEF SweepStale, OutboxAfterDisconnect, discardVars
<1>6. CASE RevokeCommits
  BY <1>6 DEF RevokeCommits, memoVars
<1>7. CASE RevokeFinishes
  BY <1>7 DEF RevokeFinishes, OutboxAfterRevoke
<1>8. CASE GatewayRestart
  BY <1>8 DEF GatewayRestart
<1>9. ASSUME NEW c \in Cmd, Allocate(c) PROVE MemoryTypes'
  BY <1>9 DEF Allocate, discardVars, NoSeq
<1>10. ASSUME NEW c \in Cmd, DispatchFails(c) \/ TimerFires(c) PROVE MemoryTypes'
  BY <1>10 DEF DispatchFails, TimerFires, Unqueued, discardVars
<1>11. ASSUME NEW g \in Gen, SetSequence(g) PROVE MemoryTypes'
  BY <1>11 DEF SetSequence, StreamTypes, Handler, discardVars
<1>12. ASSUME NEW g \in Gen, Settle(g) PROVE MemoryTypes'
  BY <1>12 DEF Settle, Unqueued, discardVars
<1>13. ASSUME NEW g \in Gen, StreamClosed(g) PROVE MemoryTypes'
  BY <1>13 DEF StreamClosed, OutboxAfterDisconnect, discardVars
<1> QED
  BY StepsByGroup, <1>1, <1>2, <1>3, <1>4, <1>5, <1>6, <1>7, <1>8, <1>9, <1>10,
     <1>11, <1>12, <1>13 DEF MemoryStep

LEMMA DispatchTypesStep ==
  ASSUME TypeOK, [Next]_vars PROVE DispatchTypes'
<1> USE DEF TypeOK, DispatchTypes, Told
<1>a. Idle \in Allocation /\ Idle.phase = "idle"
  BY DEF Idle, Allocation, AllocPhase
<1>1. CASE UNCHANGED dispatchVars
  BY <1>1 DEF dispatchVars
<1>2. CASE AllocateLoaded
  <2>1. PICK n \in {0} \cup {seqOf[c] : c \in Cmd} :
          alloc' = [alloc EXCEPT !.phase = "inserting", !.seq = n + 1]
    BY <1>2 DEF AllocateLoaded
  <2>2. n + 1 \in Nat
    BY DEF RowTypes
  <2>3. alloc' \in Allocation /\ alloc'.cmd = alloc.cmd
    BY <2>1, <2>2 DEF Allocation, AllocPhase
  <2> QED
    BY <1>2, <2>3 DEF AllocateLoaded
<1>3. CASE InsertRow
  BY <1>3 DEF InsertRow, Allocation, AllocPhase
<1>4. CASE InsertFails
  BY <1>4, <1>a DEF InsertFails
<1>5. CASE Enqueue
  BY <1>5, <1>a DEF Enqueue
<1>6. CASE GatewayRestart
  BY <1>6, <1>a DEF GatewayRestart
<1>7. ASSUME NEW c \in Cmd, Allocate(c) PROVE DispatchTypes'
  BY <1>7 DEF Allocate, Allocation, AllocPhase, MemoryTypes, NoSeq
<1>8. ASSUME NEW c \in Cmd, MarkDispatched(c) \/ TimeoutCommits(c) PROVE DispatchTypes'
  BY <1>8 DEF MarkDispatched, TimeoutCommits
<1>9. ASSUME NEW c \in Cmd, DispatchFails(c) PROVE DispatchTypes'
  BY <1>9 DEF DispatchFails
<1>10. ASSUME NEW c \in Cmd, TimerFires(c) PROVE DispatchTypes'
  BY <1>10 DEF TimerFires
<1>11. ASSUME NEW g \in Gen, Settle(g) PROVE DispatchTypes'
  BY <1>11 DEF Settle, StreamTypes
<1> QED
  BY StepsByGroup, <1>1, <1>2, <1>3, <1>4, <1>5, <1>6, <1>7, <1>8, <1>9, <1>10,
     <1>11 DEF DispatchStep

LEMMA HandlerValues ==
  /\ Unused \in Handler /\ Unused.phase = "unused"
  /\ Serving \in Handler /\ Serving.phase = "serving"
  /\ Stopped \in Handler /\ Stopped.phase = "stopped"
  /\ \A h \in Handler, p \in Phase : [h EXCEPT !.phase = p] \in Handler
BY DEF Unused, Serving, Stopped, Handler, Phase

\* One entry of `handler` changes, to a value that keeps the type.
LEMMA HandlerEntry ==
  ASSUME StreamTypes, NEW g \in Gen, NEW h \in Handler,
         h.phase \in {"replaying", "settling"} => h.cmd \in Cmd,
         handler' = [handler EXCEPT ![g] = h]
  PROVE  /\ handler' \in [Gen -> Handler]
         /\ \A k \in Gen : At(k, "replaying")' \/ At(k, "settling")' => handler'[k].cmd \in Cmd
BY DEF StreamTypes, At

LEMMA ReplayHandler ==
  ASSUME StreamTypes, NEW g \in Gen, NEW S \in SUBSET Cmd, ReplayNext(g, S)
  PROVE  /\ handler' \in [Gen -> Handler]
         /\ \A k \in Gen : At(k, "replaying")' \/ At(k, "settling")' => handler'[k].cmd \in Cmd
<1>1. CASE handler' = [handler EXCEPT ![g] = Serving]
  BY <1>1, HandlerValues, HandlerEntry
<1>2. ASSUME NEW c \in S,
             handler' = [handler EXCEPT ![g].phase = "replaying", ![g].replay = S,
                                        ![g].cmd = c]
      PROVE  /\ handler' \in [Gen -> Handler]
             /\ \A k \in Gen : At(k, "replaying")' \/ At(k, "settling")'
                                 => handler'[k].cmd \in Cmd
  <2> DEFINE h == [handler[g] EXCEPT !.phase = "replaying", !.replay = S, !.cmd = c]
  <2>1. h \in Handler /\ h.cmd \in Cmd
    BY DEF StreamTypes, Handler, Phase
  <2>2. handler' = [handler EXCEPT ![g] = h]
    BY <1>2
  <2> QED
    BY <2>1, <2>2, HandlerEntry
<1> QED
  BY <1>1, <1>2 DEF ReplayNext

LEMMA SendTyped ==
  ASSUME StreamTypes, NEW c \in Cmd,
         NEW s \in {"succeeded", "failed", "indeterminate"}, Send(c, s)
  PROVE  up' \in [Gen -> Seq(Result)]
<1>1. [cmd |-> c, status |-> s] \in Result
  BY DEF Result
<1>2. \A g \in Gen : Append(up[g], [cmd |-> c, status |-> s]) \in Seq(Result)
  BY <1>1 DEF StreamTypes
<1> QED
  BY <1>2 DEF Send, StreamTypes

LEMMA StreamTypesStep ==
  ASSUME TypeOK, [Next]_vars PROVE StreamTypes'
<1> USE DEF TypeOK
<1> DEFINE Handlers ==
      /\ handler \in [Gen -> Handler]
      /\ \A g \in Gen : At(g, "replaying") \/ At(g, "settling") => handler[g].cmd \in Cmd
<1>a. Handlers
  BY DEF StreamTypes
<1>b. UNCHANGED handler => Handlers'
  BY DEF StreamTypes, At
<1>c. ASSUME NEW g \in Gen, NEW p \in Phase \ {"replaying", "settling"},
             handler' = [handler EXCEPT ![g].phase = p]
      PROVE  Handlers'
  <2>1. [handler[g] EXCEPT !.phase = p] \in Handler
    BY HandlerValues DEF StreamTypes
  <2>2. [handler[g] EXCEPT !.phase = p].phase = p
    BY DEF StreamTypes, Handler
  <2> QED
    BY <1>c, <2>1, <2>2, HandlerEntry
<1>d. ASSUME NEW g \in Gen, Refuse(g)
      PROVE  Handlers' /\ ended' \in SUBSET Gen
  BY <1>d, HandlerValues, HandlerEntry DEF Refuse, StreamTypes
<1>e. {"unused", "hello", "authed", "loading", "check", "admitted", "serving", "stopped"}
        \subseteq Phase \ {"replaying", "settling"}
  BY DEF Phase
<1>f. conn \in Gen \cup {NoGen} /\ ended \in SUBSET Gen /\ closed \in SUBSET Gen
      /\ up \in [Gen -> Seq(Result)]
  BY DEF StreamTypes
<1>g. ASSUME Handlers', conn' \in Gen \cup {NoGen}, ended' \in SUBSET Gen,
             closed' \in SUBSET Gen, up' \in [Gen -> Seq(Result)]
      PROVE  StreamTypes'
  BY <1>g DEF StreamTypes
<1>1. CASE UNCHANGED streamVars
  BY <1>1 DEF streamVars, StreamTypes, At
<1> HIDE DEF Handlers, TypeOK
<1>2. ASSUME NEW g \in Gen, Authenticate(g) PROVE StreamTypes'
  BY <1>2, <1>c, <1>d, <1>e, <1>f, <1>g DEF Authenticate
<1>3. ASSUME NEW g \in Gen, ReadSequence(g) PROVE StreamTypes'
  <2>1. Handlers'
    <3>1. CASE handler' = [handler EXCEPT ![g].phase = "check"]
      BY <3>1, <1>c, <1>e
    <3>2. CASE \E n \in {0} \cup {seqOf[c] : c \in Cmd} :
                 handler' = [handler EXCEPT ![g].phase = "loading", ![g].loaded = n]
      <4>1. PICK n \in Nat :
              handler' = [handler EXCEPT ![g].phase = "loading", ![g].loaded = n]
        BY <3>2 DEF TypeOK, RowTypes
      <4> DEFINE h == [handler[g] EXCEPT !.phase = "loading", !.loaded = n]
      <4>2. h \in Handler /\ h.phase = "loading"
        BY <1>a DEF Handlers, Handler, Phase
      <4>3. handler' = [handler EXCEPT ![g] = h]
        BY <4>1
      <4> QED
        BY <4>2, <4>3, HandlerEntry DEF TypeOK, Handlers
    <3> QED
      BY <1>3, <3>1, <3>2 DEF ReadSequence
  <2> QED
    BY <1>3, <2>1, <1>f, <1>g DEF ReadSequence
<1>4. ASSUME NEW g \in Gen, SetSequence(g) PROVE StreamTypes'
  BY <1>4, <1>c, <1>e, <1>f, <1>g DEF SetSequence
<1>5. ASSUME NEW g \in Gen, CheckRevoked(g) PROVE StreamTypes'
  BY <1>5, <1>c, <1>d, <1>e, <1>f, <1>g DEF CheckRevoked
<1>6. ASSUME NEW g \in Gen, Activate(g) PROVE StreamTypes'
  <2>1. {c \in outbox : seqOf[c] > handler[g].lastSeen} \in SUBSET Cmd
    BY DEF TypeOK, MemoryTypes
  <2>2. Handlers'
    BY <1>6, <2>1, ReplayHandler DEF Activate, Handlers, TypeOK
  <2> QED
    BY <1>6, <2>2, <1>f, <1>g DEF Activate, NoGen
<1>7. ASSUME NEW g \in Gen, ReplayStep(g) PROVE StreamTypes'
  <2>1. handler[g].replay \ {handler[g].cmd} \in SUBSET Cmd
    BY <1>a DEF Handlers, Handler
  <2>2. Handlers'
    BY <1>7, <2>1, ReplayHandler DEF ReplayStep, Handlers, TypeOK
  <2> QED
    BY <1>7, <2>2, <1>f, <1>g DEF ReplayStep
<1>8. ASSUME NEW g \in Gen, TakeResult(g) PROVE StreamTypes'
  <2>1. Head(up[g]) \in Result /\ up' \in [Gen -> Seq(Result)]
    BY <1>8, <1>f DEF TakeResult
  <2>2. Head(up[g]).cmd \in Cmd
    BY <2>1 DEF Result
  <2>3. Handlers'
    <3>1. CASE UNCHANGED handler
      BY <3>1, <1>b
    <3>2. CASE handler' = [handler EXCEPT ![g].phase = "settling",
                             ![g].cmd = Head(up[g]).cmd,
                             ![g].ok = (Head(up[g]).status = "succeeded")]
      <4> DEFINE h == [handler[g] EXCEPT !.phase = "settling",
                             !.cmd = Head(up[g]).cmd,
                             !.ok = (Head(up[g]).status = "succeeded")]
      <4>1. h \in Handler /\ h.cmd \in Cmd
        <5>1. handler[g] \in Handler /\ "settling" \in Phase
          BY <1>a DEF Handlers, Phase
        <5>2. (Head(up[g]).status = "succeeded") \in BOOLEAN
          OBVIOUS
        <5> QED
          BY <5>1, <5>2, <2>2 DEF Handler
      <4>2. handler' = [handler EXCEPT ![g] = h]
        BY <3>2
      <4> QED
        BY <4>1, <4>2, HandlerEntry DEF TypeOK, Handlers
    <3> QED
      BY <1>8, <3>1, <3>2 DEF TakeResult
  <2> QED
    BY <1>8, <2>1, <2>3, <1>f, <1>g DEF TakeResult
<1>9. ASSUME NEW g \in Gen, Settle(g) PROVE StreamTypes'
  <2>1. Handlers'
    BY <1>9, HandlerValues, HandlerEntry DEF Settle, Handlers, TypeOK
  <2> QED
    BY <1>9, <2>1, <1>f, <1>g DEF Settle
<1>10. ASSUME NEW g \in Gen, HandlerFails(g) PROVE StreamTypes'
  BY <1>10, <1>d, <1>f, <1>g DEF HandlerFails
<1>11. ASSUME NEW g \in Gen, StreamClosed(g) PROVE StreamTypes'
  <2>1. up' \in [Gen -> Seq(Result)]
    BY <1>11, <1>f DEF StreamClosed
  <2> QED
    BY <1>11, <2>1, <1>b, <1>f, <1>g DEF StreamClosed
<1>12. CASE SweepStale
  BY <1>12, <1>b, <1>f, <1>g DEF SweepStale
<1>13. CASE RevokeFinishes
  BY <1>13, <1>b, <1>f, <1>g DEF RevokeFinishes
<1>14. CASE GatewayRestart
  <2>1. handler' \in [Gen -> Handler] /\ \A k \in Gen : handler'[k].phase \in {"unused", "stopped"}
    BY <1>14, HandlerValues DEF GatewayRestart
  <2>2. Handlers'
    BY <2>1 DEF Handlers, At
  <2>3. up' \in [Gen -> Seq(Result)]
    BY <1>14 DEF GatewayRestart
  <2> QED
    BY <1>14, <2>2, <2>3, <1>g DEF GatewayRestart
<1>15. ASSUME NEW token \in BOOLEAN, Connect(token) PROVE StreamTypes'
  <2>1. gens + 1 \in Gen /\ dSeq \in Nat
    BY <1>15, BoundAssumption DEF Connect, TypeOK, CountTypes, DaemonTypes, Gen
  <2> DEFINE h == [Unused EXCEPT !.phase = "hello", !.lastSeen = dSeq, !.token = token]
  <2>2. h \in Handler /\ h.phase = "hello"
    BY <2>1 DEF Unused, Handler, Phase
  <2>3. Handlers'
    BY <1>15, <2>1, <2>2, HandlerEntry DEF Connect, TypeOK, Handlers
  <2> QED
    BY <1>15, <2>3, <1>f, <1>g DEF Connect
<1>16. CASE Receive
  <2>1. Head(down) \in Cmd
    BY <1>16 DEF Receive, TypeOK, DaemonTypes
  <2>2. up' \in [Gen -> Seq(Result)]
    BY <1>16, <2>1, <1>f, SendTyped DEF Receive, DuplicateStatus, TypeOK
  <2> QED
    BY <1>16, <2>2, <1>b, <1>f, <1>g DEF Receive
<1>17. ASSUME NEW s \in {"succeeded", "failed"}, Finish(s) PROVE StreamTypes'
  <2>1. running \in Cmd
    BY <1>17 DEF Finish, TypeOK, DaemonTypes
  <2>2. up' \in [Gen -> Seq(Result)]
    BY <1>17, <2>1, SendTyped DEF Finish, TypeOK
  <2> QED
    BY <1>17, <2>2, <1>b, <1>f, <1>g DEF Finish
<1> QED
  BY StepsByGroup, <1>1, <1>2, <1>3, <1>4, <1>5, <1>6, <1>7, <1>8, <1>9, <1>10,
     <1>11, <1>12, <1>13, <1>14, <1>15, <1>16, <1>17 DEF StreamStep, StreamNext

LEMMA CountTypesStep ==
  ASSUME TypeOK, [Next]_vars PROVE CountTypes'
<1> USE BoundAssumption DEF TypeOK, CountTypes
<1>1. CASE UNCHANGED countVars
  BY <1>1 DEF countVars
<1>2. CASE InsertFails
  BY <1>2 DEF InsertFails
<1>3. ASSUME NEW c \in Cmd, DispatchFails(c) PROVE CountTypes'
  BY <1>3 DEF DispatchFails
<1>4. ASSUME NEW g \in Gen, HandlerFails(g) PROVE CountTypes'
  BY <1>4 DEF HandlerFails
<1>5. ASSUME NEW token \in BOOLEAN, Connect(token) PROVE CountTypes'
  BY <1>5 DEF Connect
<1>6. CASE RevokeCommits \/ GatewayRestart
  BY <1>6 DEF RevokeCommits, GatewayRestart
<1>7. UNCHANGED vars \/ DispatchNext =>
        UNCHANGED countVars \/ InsertFails \/ \E c \in Cmd : DispatchFails(c)
  BY DEF DispatchNext, AllocateLoaded, InsertRow, Enqueue, Allocate,
     MarkDispatched, TimerFires, TimeoutCommits, vars
<1>8. StreamNext => UNCHANGED countVars \/ \E g \in Gen : HandlerFails(g)
  BY DEF StreamNext, Authenticate, ReadSequence, SetSequence, CheckRevoked,
     Activate, ReplayStep, TakeResult, Settle, StreamClosed
<1>9. DaemonNext => UNCHANGED countVars \/ \E token \in BOOLEAN : Connect(token)
  BY DEF DaemonNext, Receive, PersistHead, HandOff, DaemonDrops, Finish
<1>10. SweepStale \/ RevokeFinishes => UNCHANGED countVars
  BY DEF SweepStale, RevokeFinishes
<1> QED
  BY <1>1, <1>2, <1>3, <1>4, <1>5, <1>6, <1>7, <1>8, <1>9, <1>10 DEF Next

LEMMA TypeInit == Init => TypeOK
<1> SUFFICES ASSUME Init PROVE TypeOK
  OBVIOUS
<1>1. RowTypes /\ MemoryTypes
  BY DEF Init, RowTypes, MemoryTypes, Status, NoSeq
<1>2. DispatchTypes
  BY DEF Init, DispatchTypes, Idle, Allocation, AllocPhase, Told
<1>3. StreamTypes
  BY HandlerValues DEF Init, StreamTypes, At, NoGen
<1>4. DaemonTypes /\ CountTypes
  BY BoundAssumption DEF Init, DaemonTypes, CountTypes, NoGen
<1> QED
  BY <1>1, <1>2, <1>3, <1>4 DEF TypeOK

LEMMA TypeStep == TypeOK /\ [Next]_vars => TypeOK'
BY RowTypesStep, MemoryTypesStep, DispatchTypesStep, StreamTypesStep,
   DaemonTypesStep, CountTypesStep DEF TypeOK

\* Every variable keeps its type: a stream carries only commands, a result names
\* a command and a status of the shared vocabulary (TERMINAL_COMMAND_STATUSES).
THEOREM TypeCorrect == Spec => []TypeOK
BY TypeInit, TypeStep, PTL DEF Spec

-----------------------------------------------------------------------------
(* At most once, and in order.                                              *)

\* A number that is set stays: seqOf only changes where it is 0.
LEMMA NumbersStep ==
  ASSUME ChannelInv, [Next]_vars
  PROVE  /\ NumbersAreStored'
         /\ \A c \in Cmd : seqOf[c] # 0 => seqOf'[c] = seqOf[c]
<1> USE DEF ChannelInv, TypeOK, NumbersAreStored
<1>1. CASE InsertRow
  <2>1. alloc.cmd \in Cmd /\ seqOf[alloc.cmd] = 0 /\ alloc'.phase = "inserted"
    BY <1>1 DEF InsertRow, DispatchTypes, Allocation
  <2>2. \A c \in Cmd : c # alloc.cmd => row'[c] = row[c] /\ seqOf'[c] = seqOf[c]
    BY <1>1 DEF InsertRow, RowTypes
  <2>3. row'[alloc.cmd] # "absent"
    BY <1>1, <2>1 DEF InsertRow, RowTypes
  <2> QED
    BY <2>1, <2>2, <2>3
<1>2. CASE GatewayRestart
  <2>1. alloc'.phase = "idle" /\ seqOf' = seqOf
    BY <1>2 DEF GatewayRestart, Idle
  <2>2. \A c \in Cmd : row'[c] = "absent" => row[c] = "absent"
    BY <1>2 DEF GatewayRestart, InFlight
  <2> QED
    BY <2>1, <2>2
<1>3. ASSUME NEW c \in Cmd, MarkDispatched(c) \/ DispatchFails(c) \/ TimeoutCommits(c)
      PROVE  /\ NumbersAreStored'
             /\ \A d \in Cmd : seqOf[d] # 0 => seqOf'[d] = seqOf[d]
  <2>1. UNCHANGED <<seqOf, alloc>>
    BY <1>3 DEF MarkDispatched, DispatchFails, TimeoutCommits
  <2>2. \A d \in Cmd : row'[d] = "absent" => row[d] = "absent"
    BY <1>3 DEF MarkDispatched, MarkedDispatched, DispatchFails, TimeoutCommits,
       Conclude, RowTypes
  <2> QED
    BY <2>1, <2>2
<1>4. ASSUME NEW g \in Gen, Authenticate(g) \/ ReplayStep(g) \/ TakeResult(g)
      PROVE  /\ NumbersAreStored'
             /\ \A d \in Cmd : seqOf[d] # 0 => seqOf'[d] = seqOf[d]
  <2>1. UNCHANGED <<seqOf, alloc>>
    BY <1>4 DEF Authenticate, ReplayStep, TakeResult, dispatchVars
  <2>2. CASE Authenticate(g)
    BY <2>1, <2>2 DEF Authenticate
  <2>3. CASE ReplayStep(g)
    BY <2>1, <2>3 DEF ReplayStep, MarkedDispatched, RowTypes
  <2>4. CASE TakeResult(g)
    <3>1. Head(up[g]).status # "absent"
      <4>1. Head(up[g]) \in Result
        BY <2>4 DEF TakeResult, StreamTypes
      <4> QED
        BY <4>1 DEF Result
    <3> QED
      BY <2>1, <2>4, <3>1 DEF TakeResult, Conclude, RowTypes
  <2> QED
    BY <1>4, <2>2, <2>3, <2>4
<1>5. CASE RevokeCommits
  BY <1>5 DEF RevokeCommits, dispatchVars
<1>6. CASE UNCHANGED rowVars /\ DispatchStep
  <2>1. row' = row /\ seqOf' = seqOf
    BY <1>6 DEF rowVars
  <2>2. alloc'.phase \in {"loading", "inserting"} => seqOf[alloc'.cmd] = 0
    <3>1. CASE AllocateLoaded
      BY <3>1 DEF AllocateLoaded, DispatchTypes, Allocation
    <3>2. CASE InsertFails \/ Enqueue
      BY <3>2 DEF InsertFails, Enqueue, Idle
    <3>3. ASSUME NEW c \in Cmd, Allocate(c)
          PROVE  alloc'.phase \in {"loading", "inserting"} => seqOf[alloc'.cmd] = 0
      BY <3>3 DEF Allocate
    <3>4. CASE alloc' = alloc
      BY <3>4
    <3>5. (\E c \in Cmd : MarkDispatched(c) \/ DispatchFails(c) \/ TimerFires(c)
                          \/ TimeoutCommits(c))
          \/ (\E g \in Gen : Settle(g)) => alloc' = alloc
      BY DEF MarkDispatched, DispatchFails, TimerFires, TimeoutCommits, Settle
    <3> QED
      BY <1>1, <1>2, <1>6, <3>1, <3>2, <3>3, <3>4, <3>5, <2>1 DEF DispatchStep
  <2> QED
    BY <2>1, <2>2
<1>7. CASE UNCHANGED rowVars /\ UNCHANGED dispatchVars
  BY <1>7 DEF rowVars, dispatchVars
<1> QED
  BY StepsByGroup, <1>1, <1>2, <1>3, <1>4, <1>5, <1>6, <1>7 DEF RowStep

\* The daemon's variables change only in the daemon's own actions.
DaemonActs == UNCHANGED daemonVars \/ DaemonNext

LEMMA DaemonActsOnly == [Next]_vars => DaemonActs
<1>1. UNCHANGED vars \/ DispatchNext => UNCHANGED daemonVars
  BY DEF DispatchNext, AllocateLoaded, InsertRow, InsertFails, Enqueue, Allocate,
     MarkDispatched, DispatchFails, TimerFires, TimeoutCommits, vars
<1>2. StreamNext => UNCHANGED daemonVars
  BY DEF StreamNext, Authenticate, ReadSequence, SetSequence, CheckRevoked,
     Activate, ReplayStep, TakeResult, Settle, HandlerFails, StreamClosed
<1>3. SweepStale \/ RevokeCommits \/ RevokeFinishes \/ GatewayRestart
        => UNCHANGED daemonVars
  BY DEF SweepStale, RevokeCommits, RevokeFinishes, GatewayRestart
<1> QED
  BY <1>1, <1>2, <1>3 DEF Next, DaemonActs

\* The daemon's part of the invariant, action by action.
DaemonInv == QueueAscends /\ RanIsPersisted /\ AtMostOnce

LEMMA DaemonInvStep ==
  ASSUME ChannelInv, [Next]_vars PROVE DaemonInv'
<1> DEFINE OldOrder == \A c \in Cmd : seqOf[c] # 0 => seqOf'[c] = seqOf[c]
<1>a. OldOrder /\ seqOf \in [Cmd -> Nat] /\ seqOf' \in [Cmd -> Nat]
  BY NumbersStep, RowTypesStep DEF ChannelInv, TypeOK, RowTypes
<1>b. DaemonTypes /\ DaemonTypes'
  BY DaemonTypesStep DEF ChannelInv, TypeOK
<1>c. /\ Len(queue) \in Nat /\ \A i \in 1..Len(queue) : queue[i] \in Cmd
      /\ ran \in [Cmd -> Nat] /\ dSeq \in Nat /\ accepted \in Nat
  BY <1>b DEF DaemonTypes
<1>d. \A i \in 1..Len(queue) : seqOf[queue[i]] \in Nat
  BY <1>a, <1>c
<1> HIDE DEF OldOrder
<1> USE DEF ChannelInv, DaemonInv, QueueAscends, RanIsPersisted, AtMostOnce
<1>1. CASE UNCHANGED daemonVars
  <2>1. \A i \in 1..Len(queue) : queue[i] \in Cmd /\ seqOf'[queue[i]] = seqOf[queue[i]]
    <3>1. ASSUME NEW i \in 1..Len(queue) PROVE seqOf'[queue[i]] = seqOf[queue[i]]
      <4>1. queue[i] \in Cmd /\ seqOf[queue[i]] # 0
        BY <1>c, <1>d
      <4> QED
        BY <4>1, <1>a DEF OldOrder
    <3> QED
      BY <3>1, <1>c
  <2>2. \A c \in Cmd : ran[c] > 0 => seqOf'[c] = seqOf[c]
    BY <1>a DEF OldOrder
  <2>3. UNCHANGED <<dGen, dSeq, accepted, queue, ran>>
    BY <1>1 DEF daemonVars
  <2> QED
    BY <2>1, <2>2, <2>3
<1>2. CASE DaemonNext
  <2>a. UNCHANGED seqOf
    BY <1>2 DEF DaemonNext, Connect, Receive, PersistHead, HandOff, DaemonDrops,
       Finish, rowVars
  <2>1. ASSUME NEW token \in BOOLEAN, Connect(token) PROVE DaemonInv'
    <3>1. queue = <<>> /\ queue' = <<>> /\ accepted' = dSeq /\ dSeq' = dSeq /\ ran' = ran
      BY <2>1 DEF Connect
    <3> QED
      BY <3>1, <2>a, <1>b DEF DaemonTypes
  <2>2. CASE Receive
    <3>1. CASE UNCHANGED <<accepted, queue>>
      BY <2>2, <3>1, <2>a DEF Receive
    <3>2. CASE /\ ~Duplicate(Head(down)) /\ accepted' = seqOf[Head(down)]
               /\ queue' = Append(queue, Head(down))
      <4> DEFINE c == Head(down)
      <4>1. c \in Cmd /\ seqOf[c] \in Nat /\ seqOf[c] > accepted
        <5>1. c \in Cmd
          BY <2>2, <1>b DEF Receive, DaemonTypes
        <5>2. seqOf[c] \in Nat /\ accepted \in Nat
          BY <5>1, <1>a, <1>b DEF DaemonTypes
        <5>3. ~(seqOf[c] <= accepted)
          BY <3>2 DEF Duplicate
        <5> HIDE DEF c
        <5> QED
          BY <5>1, <5>2, <5>3
      <4>2. /\ Len(queue') = Len(queue) + 1
            /\ \A i \in 1..Len(queue) : queue'[i] = queue[i] /\ queue[i] \in Cmd
            /\ queue'[Len(queue) + 1] = c
        <5>1. queue' = Append(queue, c) /\ queue \in Seq(Cmd)
          BY <3>2, <1>b DEF DaemonTypes
        <5> HIDE DEF c
        <5>2. Len(queue) \in Nat /\ \A i \in 1..Len(queue) : queue[i] \in Cmd
          BY <5>1
        <5> QED
          BY <4>1, <5>1, <5>2
      <4>3. dSeq' = dSeq /\ dGen' = dGen /\ ran' = ran /\ dGen # NoGen
        BY <2>2 DEF Receive
      <4>4. accepted' = seqOf[c]
        BY <3>2
      <4> HIDE DEF c
      <4>5. ASSUME NEW i \in 1..Len(queue')
            PROVE  \/ /\ i \in 1..Len(queue) /\ queue'[i] = queue[i]
                      /\ seqOf[queue[i]] <= accepted
                   \/ i = Len(queue) + 1 /\ queue'[i] = c
        BY <4>2, <1>c
      <4>6. \A i \in 1..Len(queue') : 0 < seqOf[queue'[i]] /\ seqOf[queue'[i]] <= seqOf[c]
        BY <4>1, <4>5, <1>c, <1>d
      <4>7. \A i, j \in 1..Len(queue') : i < j => seqOf[queue'[i]] < seqOf[queue'[j]]
        <5> SUFFICES ASSUME NEW i \in 1..Len(queue'), NEW j \in 1..Len(queue'), i < j
                     PROVE  seqOf[queue'[i]] < seqOf[queue'[j]]
          OBVIOUS
        <5>1. i \in 1..Len(queue)
          BY <4>2, <1>c
        <5>2. CASE j \in 1..Len(queue)
          BY <5>1, <5>2, <4>2
        <5>3. CASE j = Len(queue) + 1
          BY <5>1, <5>3, <4>1, <4>2, <1>c, <1>d
        <5> QED
          BY <5>2, <5>3, <4>5
      <4>8. \A i \in 2..Len(queue') : dSeq < seqOf[queue'[i]]
        <5> SUFFICES ASSUME NEW i \in 2..Len(queue') PROVE dSeq < seqOf[queue'[i]]
          OBVIOUS
        <5>1. i \in 1..Len(queue')
          BY <4>2, <1>c
        <5>2. CASE i \in 1..Len(queue)
          BY <5>2, <4>2, <1>c
        <5>3. CASE i = Len(queue) + 1
          BY <5>3, <4>1, <4>2, <1>c
        <5> QED
          BY <5>1, <5>2, <5>3, <4>5
      <4>9. QueueAscends'
        BY <4>1, <4>3, <4>4, <4>6, <4>7, <4>8, <2>a, <1>c
      <4>10. \A d \in Cmd : ran[d] > 0 => \A i \in 1..Len(queue') : seqOf[d] < seqOf[queue'[i]]
        <5> SUFFICES ASSUME NEW d \in Cmd, ran[d] > 0, NEW i \in 1..Len(queue')
                     PROVE  seqOf[d] < seqOf[queue'[i]]
          OBVIOUS
        <5>1. seqOf[d] \in Nat /\ seqOf[d] <= dSeq
          BY <1>a
        <5>2. CASE i \in 1..Len(queue)
          BY <5>2, <4>2
        <5>3. CASE i = Len(queue) + 1
          BY <5>1, <5>3, <4>1, <4>2, <1>c
        <5> QED
          BY <5>2, <5>3, <4>5
      <4>11. RanIsPersisted' /\ AtMostOnce'
        BY <4>3, <4>10, <2>a
      <4> QED
        BY <4>9, <4>11
    <3> QED
      BY <2>2, <3>1, <3>2 DEF Receive
  <2>3. CASE PersistHead
    <3>1. queue # <<>> /\ dSeq < seqOf[queue[1]] /\ dSeq' = seqOf[queue[1]]
      BY <2>3, <1>a, <1>b DEF PersistHead, HeadPersisted, DaemonTypes
    <3>2. UNCHANGED <<queue, accepted, dGen, ran>>
      BY <2>3 DEF PersistHead
    <3>3. Len(queue) \in Nat /\ Len(queue) >= 1
          /\ \A i \in 1..Len(queue) : queue[i] \in Cmd /\ seqOf[queue[i]] \in Nat
      <4>1. queue \in Seq(Cmd) /\ queue # <<>>
        BY <3>1, <1>b DEF DaemonTypes
      <4>2. Len(queue) \in Nat /\ Len(queue) # 0
        BY <4>1, EmptySeq
      <4>3. \A i \in 1..Len(queue) : queue[i] \in Cmd
        BY <4>1
      <4> QED
        BY <4>2, <4>3, <1>d
    <3>4. \A i \in 2..Len(queue) : i \in 1..Len(queue) /\ seqOf[queue[1]] < seqOf[queue[i]]
      <4> SUFFICES ASSUME NEW i \in 2..Len(queue)
                   PROVE  i \in 1..Len(queue) /\ seqOf[queue[1]] < seqOf[queue[i]]
        OBVIOUS
      <4>1. 1 \in 1..Len(queue) /\ i \in 1..Len(queue) /\ 1 < i
        BY <3>3
      <4>2. QueueAscends
        OBVIOUS
      <4>3. seqOf[queue[1]] < seqOf[queue[i]]
        BY <4>1, <4>2
      <4> QED
        BY <4>1, <4>3
    <3>5. seqOf[queue[1]] <= accepted
      BY <3>3
    <3>6. QueueAscends'
      BY <3>1, <3>2, <3>4, <3>5, <2>a
    <3>7. RanIsPersisted' /\ AtMostOnce'
      <4>1. \A c \in Cmd : ran[c] > 0 => seqOf[c] <= dSeq'
        BY <3>1, <3>3, <1>a, <1>c
      <4> QED
        BY <3>2, <4>1, <2>a
    <3> QED
      BY <3>6, <3>7
  <2>4. CASE HandOff
    <3> DEFINE c == queue[1]
    <3>1. queue # <<>> /\ c \in Cmd /\ seqOf[c] \in Nat /\ seqOf[c] <= dSeq
      BY <2>4, <1>a, <1>b DEF HandOff, HeadPersisted, DaemonTypes
    <3>2. queue' = Tail(queue) /\ ran' = [ran EXCEPT ![c] = @ + 1]
          /\ UNCHANGED <<dSeq, accepted, dGen>> /\ dGen # NoGen
      BY <2>4, <3>1 DEF HandOff
    <3>3. Len(queue) \in Nat /\ Len(queue) >= 1 /\ Len(queue') = Len(queue) - 1
          /\ \A i \in 1..Len(queue') : i + 1 \in 2..Len(queue) /\ queue'[i] = queue[i + 1]
      BY <3>1, <3>2, <1>b DEF DaemonTypes
    <3>4. \A i \in 1..Len(queue) : queue[i] \in Cmd /\ seqOf[queue[i]] \in Nat
      BY <1>c, <1>d
    <3>5. ran[c] = 0
      <4>1. ran[c] > 0 => seqOf[c] < seqOf[c]
        BY <3>1, <3>3
      <4> QED
        BY <4>1, <3>1, <1>c
    <3>6. \A d \in Cmd : ran'[d] > 0 => d = c \/ ran[d] > 0
      BY <3>2, <1>b DEF DaemonTypes
    <3> HIDE DEF c
    <3>7. QueueAscends'
      <4>1. 1..Len(queue') \subseteq 1..Len(queue) /\ \A i \in 1..Len(queue') : i + 1 \in 1..Len(queue)
        BY <3>3
      <4>2. \A i \in 1..Len(queue') : dSeq < seqOf[queue'[i]]
                                      /\ 0 < seqOf[queue'[i]] /\ seqOf[queue'[i]] <= accepted
        BY <3>3, <4>1
      <4>3. \A i, j \in 1..Len(queue') : i < j => seqOf[queue'[i]] < seqOf[queue'[j]]
        BY <3>3, <4>1
      <4>4. 2..Len(queue') \subseteq 1..Len(queue')
        BY <3>3
      <4> QED
        BY <3>2, <4>2, <4>3, <4>4, <2>a
    <3>8. RanIsPersisted'
      <4>1. \A i \in 1..Len(queue') : seqOf[c] < seqOf[queue'[i]]
        BY <3>3 DEF c
      <4>2. 0 < seqOf[c]
        BY <3>3 DEF c
      <4>3. \A d \in Cmd : ran[d] > 0 => \A i \in 1..Len(queue') : seqOf[d] < seqOf[queue'[i]]
        BY <3>3
      <4> QED
        BY <3>1, <3>2, <3>6, <4>1, <4>2, <4>3, <2>a
    <3>9. AtMostOnce'
      BY <3>1, <3>2, <3>5, <1>b DEF DaemonTypes
    <3> QED
      BY <3>7, <3>8, <3>9
  <2>5. ASSUME NEW s \in {"succeeded", "failed"}, Finish(s) PROVE DaemonInv'
    BY <2>5, <2>a DEF Finish
  <2>6. CASE DaemonDrops
    <3>1. queue' = <<>> /\ accepted' = dSeq /\ dSeq' = dSeq /\ ran' = ran
      BY <2>6 DEF DaemonDrops
    <3> QED
      BY <3>1, <2>a, <1>b DEF DaemonTypes
  <2> QED
    BY <1>2, <2>1, <2>2, <2>3, <2>4, <2>5, <2>6 DEF DaemonNext
<1> QED
  BY DaemonActsOnly, <1>1, <1>2 DEF DaemonActs

\* The inductive invariant holds: numbers are stored before they are sent, the
\* daemon's queue ascends past what is persisted, and what ran is persisted.
THEOREM ChannelInvariant == Spec => []ChannelInv
<1>1. Init => ChannelInv
  <2> SUFFICES ASSUME Init PROVE ChannelInv
    OBVIOUS
  <2>1. TypeOK
    BY TypeInit
  <2>2. NumbersAreStored
    BY DEF Init, NumbersAreStored, Idle
  <2>3. QueueAscends /\ RanIsPersisted /\ AtMostOnce
    <3>1. Len(queue) = 0 /\ queue = <<>> /\ dSeq = 0 /\ accepted = 0
      BY DEF Init
    <3>2. \A c \in Cmd : ran[c] = 0
      BY DEF Init
    <3> QED
      BY <3>1, <3>2 DEF QueueAscends, RanIsPersisted, AtMostOnce
  <2> QED
    BY <2>1, <2>2, <2>3 DEF ChannelInv
<1>2. ChannelInv /\ [Next]_vars => ChannelInv'
  <2> SUFFICES ASSUME ChannelInv, [Next]_vars PROVE ChannelInv'
    OBVIOUS
  <2>1. TypeOK'
    BY TypeStep DEF ChannelInv
  <2> QED
    BY <2>1, NumbersStep, DaemonInvStep DEF ChannelInv, DaemonInv
<1> QED
  BY <1>1, <1>2, PTL DEF Spec

\* No command reaches the daemon's worker twice, whatever connections drop,
\* gateways restart, outboxes replay or revocations discard.
THEOREM AtMostOnceHolds == Spec => []AtMostOnce
<1>1. ChannelInv => AtMostOnce
  BY DEF ChannelInv
<1> QED
  BY <1>1, ChannelInvariant, PTL

\* Commands run in the order the gateway numbered them, across connections.
THEOREM RunsInOrderHolds == Spec => RunsInOrder
<1> DEFINE Ordered == \A c \in Cmd : ran'[c] > ran[c] =>
                        \A d \in Cmd : ran[d] > 0 => seqOf[d] < seqOf[c]
<1>1. ASSUME ChannelInv, [Next]_vars PROVE Ordered
  <2>a. ran \in [Cmd -> Nat] /\ queue \in Seq(Cmd)
    BY <1>1 DEF ChannelInv, TypeOK, DaemonTypes
  <2>1. CASE ran' = ran
    BY <2>1, <2>a
  <2>2. CASE HandOff
    <3>1. queue # <<>> /\ 1 \in 1..Len(queue) /\ Head(queue) = queue[1]
      BY <2>2, <2>a, EmptySeq DEF HandOff
    <3>2. \A d \in Cmd : ran[d] > 0 => seqOf[d] < seqOf[Head(queue)]
      BY <1>1, <3>1 DEF ChannelInv, RanIsPersisted
    <3>3. \A c \in Cmd : ran'[c] > ran[c] => c = Head(queue)
      BY <2>2, <2>a DEF HandOff
    <3> QED
      BY <3>2, <3>3
  <2>3. DaemonNext => ran' = ran \/ HandOff
    BY DEF DaemonNext, Connect, Receive, PersistHead, DaemonDrops, Finish
  <2> QED
    BY <1>1, <2>1, <2>2, <2>3, DaemonActsOnly DEF DaemonActs, daemonVars
<1>2. ChannelInv /\ [Next]_vars => [Ordered]_vars
  BY <1>1
<1> QED
  BY <1>2, ChannelInvariant, PTL DEF Spec, RunsInOrder

-----------------------------------------------------------------------------
(* Success is only said of what ran.                                        *)

LEMMA RanGrows ==
  ASSUME TypeOK, [Next]_vars
  PROVE  \A c \in Cmd : ran[c] > 0 => ran'[c] > 0
<1>a. ran \in [Cmd -> Nat] /\ queue \in Seq(Cmd)
  BY DEF TypeOK, DaemonTypes
<1>1. CASE ran' = ran
  BY <1>1
<1>2. CASE HandOff
  BY <1>2, <1>a DEF HandOff
<1>3. DaemonNext => ran' = ran \/ HandOff
  BY DEF DaemonNext, Connect, Receive, PersistHead, DaemonDrops, Finish
<1> QED
  BY <1>1, <1>2, <1>3, DaemonActsOnly DEF DaemonActs, daemonVars

LEMMA RunningRan ==
  ASSUME TypeOK, SuccessInv, [Next]_vars
  PROVE  running' # NoCmd => ran'[running'] > 0
<1>a. ran \in [Cmd -> Nat] /\ queue \in Seq(Cmd) /\ running \in Cmd \cup {NoCmd}
  BY DEF TypeOK, DaemonTypes
<1>1. CASE running' = running
  BY <1>1, <1>a, RanGrows DEF SuccessInv
<1>2. CASE HandOff
  <2>1. Head(queue) \in Cmd
    BY <1>2, <1>a DEF HandOff
  <2>2. running' = Head(queue) /\ ran'[Head(queue)] = ran[Head(queue)] + 1
    BY <1>2, <1>a, <2>1 DEF HandOff
  <2> QED
    BY <2>1, <2>2, <1>a
<1>3. CASE running' = NoCmd
  BY <1>3
<1>4. DaemonNext => running' = running \/ HandOff \/ running' = NoCmd
  BY DEF DaemonNext, Connect, Receive, PersistHead, DaemonDrops, Finish
<1> QED
  BY <1>1, <1>2, <1>3, <1>4, DaemonActsOnly DEF DaemonActs, daemonVars

LEMMA TailElements ==
  ASSUME NEW S, NEW s \in Seq(S), s # <<>>, NEW i \in 1..Len(Tail(s))
  PROVE  i + 1 \in 1..Len(s) /\ Tail(s)[i] = s[i + 1]
BY EmptySeq

\* A result on its way to the gateway that says "succeeded" is of a command that ran.
HonestUp ==
  \A g \in Gen : \A i \in 1..Len(up[g]) :
    up[g][i].status = "succeeded" => ran[up[g][i].cmd] > 0

LEMMA SendHonest ==
  ASSUME TypeOK, SuccessInv, UNCHANGED ran, NEW c \in Cmd,
         NEW s \in {"succeeded", "failed", "indeterminate"},
         Send(c, s), s = "succeeded" => ran[c] > 0
  PROVE  HonestUp'
<1>a. up \in [Gen -> Seq(Result)]
  BY DEF TypeOK, StreamTypes
<1>1. CASE up' = up
  BY <1>1 DEF HonestUp, SuccessInv
<1>2. CASE up' = [up EXCEPT ![dGen] = Append(@, [cmd |-> c, status |-> s])]
  <2> SUFFICES ASSUME NEW g \in Gen, NEW i \in 1..Len(up'[g]), up'[g][i].status = "succeeded"
               PROVE  ran[up'[g][i].cmd] > 0
    BY DEF HonestUp
  <2> DEFINE r == [cmd |-> c, status |-> s]
  <2>1. r \in Result /\ r.cmd = c /\ r.status = s
    BY DEF Result
  <2> HIDE DEF r
  <2>2. CASE g # dGen
    <3>1. up'[g] = up[g]
      BY <1>2, <1>a, <2>2
    <3> QED
      BY <3>1 DEF SuccessInv
  <2>3. CASE g = dGen
    <3>1. up'[g] = Append(up[g], r) /\ up[g] \in Seq(Result)
      BY <1>2, <1>a, <2>3 DEF r
    <3>2. CASE i \in 1..Len(up[g])
      <4>1. up'[g][i] = up[g][i]
        BY <3>1, <3>2, <2>1
      <4> QED
        BY <3>2, <4>1 DEF SuccessInv
    <3>3. CASE i \notin 1..Len(up[g])
      <4>1. up'[g][i] = r
        BY <3>1, <3>3, <2>1
      <4> QED
        BY <4>1, <2>1
    <3> QED
      BY <3>2, <3>3
  <2> QED
    BY <2>2, <2>3
<1> QED
  BY <1>1, <1>2 DEF Send

LEMMA UpHonest ==
  ASSUME TypeOK, SuccessInv, [Next]_vars
  PROVE  HonestUp'
<1>a. up \in [Gen -> Seq(Result)] /\ down \in Seq(Cmd) /\ running \in Cmd \cup {NoCmd}
  BY DEF TypeOK, StreamTypes, DaemonTypes
<1>1. CASE up' = up
  <2> SUFFICES ASSUME NEW g \in Gen, NEW i \in 1..Len(up[g]), up[g][i].status = "succeeded"
               PROVE  ran'[up[g][i].cmd] > 0
    BY <1>1 DEF HonestUp
  <2>1. up[g][i] \in Result
    BY <1>a
  <2>2. up[g][i].cmd \in Cmd
    BY <2>1 DEF Result
  <2> QED
    BY <2>2, RanGrows DEF SuccessInv
<1>2. ASSUME NEW g \in Gen, TakeResult(g) PROVE HonestUp'
  <2>1. up[g] # <<>> /\ up' = [up EXCEPT ![g] = Tail(up[g])] /\ ran' = ran
    BY <1>2 DEF TakeResult, daemonVars
  <2> SUFFICES ASSUME NEW k \in Gen, NEW i \in 1..Len(up'[k]), up'[k][i].status = "succeeded"
               PROVE  ran[up'[k][i].cmd] > 0
    BY <2>1 DEF HonestUp
  <2>2. CASE k # g
    BY <2>1, <2>2, <1>a DEF SuccessInv
  <2>3. CASE k = g
    <3>1. up'[k] = Tail(up[g]) /\ up[g] \in Seq(Result)
      BY <2>1, <2>3, <1>a
    <3>2. i + 1 \in 1..Len(up[g]) /\ up'[k][i] = up[g][i + 1]
      BY <2>1, <3>1, TailElements
    <3> QED
      BY <3>2 DEF SuccessInv
  <2> QED
    BY <2>2, <2>3
<1>3. ASSUME NEW g \in Gen, StreamClosed(g) PROVE HonestUp'
  <2>1. up' = [up EXCEPT ![g] = <<>>] /\ ran' = ran
    BY <1>3 DEF StreamClosed, daemonVars
  <2>2. \A k \in Gen : up'[k] = up[k] \/ up'[k] = <<>>
    BY <2>1, <1>a
  <2>3. Len(<<>>) = 0
    OBVIOUS
  <2> QED
    BY <2>1, <2>2, <2>3 DEF HonestUp, SuccessInv
<1>4. CASE GatewayRestart
  <2>1. \A k \in Gen : up'[k] = <<>>
    BY <1>4 DEF GatewayRestart
  <2> QED
    BY <2>1 DEF HonestUp
<1>5. CASE Receive
  <2>1. Head(down) \in Cmd
    BY <1>5, <1>a DEF Receive
  <2>2. ran' = ran
    BY <1>5 DEF Receive
  <2>3. up' = up \/ Send(Head(down), "indeterminate") \/ Send(Head(down), "failed")
    BY <1>5 DEF Receive, DuplicateStatus
  <2> QED
    BY <2>1, <2>2, <2>3, <1>1, SendHonest
<1>6. ASSUME NEW s \in {"succeeded", "failed"}, Finish(s) PROVE HonestUp'
  <2>1. running \in Cmd /\ ran' = ran /\ Send(running, s) /\ running # NoCmd
    BY <1>6, <1>a DEF Finish
  <2> QED
    BY <2>1, SendHonest DEF SuccessInv
<1>7. StreamStep => \/ up' = up
                    \/ \E g \in Gen : TakeResult(g) \/ StreamClosed(g)
                    \/ Receive \/ GatewayRestart
                    \/ \E s \in {"succeeded", "failed"} : Finish(s)
  BY DEF StreamStep, StreamNext, Authenticate, ReadSequence, SetSequence, CheckRevoked,
     Activate, ReplayStep, Settle, HandlerFails, SweepStale, RevokeFinishes, Connect
<1> QED
  BY <1>1, <1>2, <1>3, <1>4, <1>5, <1>6, <1>7, StepsByGroup DEF streamVars

\* A handler that settles a success settles a command that ran.
HonestSettling ==
  \A g \in Gen : At(g, "settling") /\ handler[g].ok => ran[handler[g].cmd] > 0

\* One entry of `handler` changes, to one that settles only what ran.
LEMMA SettlingEntry ==
  ASSUME TypeOK, TypeOK', SuccessInv, [Next]_vars, NEW g \in Gen, NEW h,
         handler' = [handler EXCEPT ![g] = h],
         h.phase # "settling" \/ (h.cmd \in Cmd /\ (h.ok => ran[h.cmd] > 0))
  PROVE  HonestSettling'
<1>a. handler \in [Gen -> Handler]
  BY DEF TypeOK, StreamTypes
<1> SUFFICES ASSUME NEW k \in Gen, handler'[k].phase = "settling", handler'[k].ok
             PROVE  ran'[handler'[k].cmd] > 0
  BY DEF HonestSettling, At
<1>1. CASE k = g
  <2>1. handler'[k] = h
    BY <1>a, <1>1
  <2> QED
    BY <2>1, RanGrows
<1>2. CASE k # g
  <2>1. handler'[k] = handler[k]
    BY <1>a, <1>2
  <2>2. handler[k].cmd \in Cmd /\ ran[handler[k].cmd] > 0
    BY <2>1 DEF TypeOK, StreamTypes, SuccessInv, At
  <2> QED
    BY <2>1, <2>2, RanGrows
<1> QED
  BY <1>1, <1>2

\* Only TakeResult makes a handler settle.
LEMMA HandlerStep ==
  ASSUME TypeOK, [Next]_vars
  PROVE  \/ handler' = handler
         \/ \E g \in Gen, h \in Handler : handler' = [handler EXCEPT ![g] = h] /\ h.phase # "settling"
         \/ GatewayRestart
         \/ \E g \in Gen : TakeResult(g)
<1> DEFINE Elsewhere(g) == \E h \in Handler : /\ handler' = [handler EXCEPT ![g] = h]
                                              /\ h.phase # "settling"
<1>a. handler \in [Gen -> Handler]
  BY DEF TypeOK, StreamTypes
<1>b. ASSUME NEW g \in Gen, NEW p \in Phase \ {"settling"},
             handler' = [handler EXCEPT ![g].phase = p]
      PROVE  Elsewhere(g)
  <2>1. [handler[g] EXCEPT !.phase = p] \in Handler
    BY <1>a, HandlerValues
  <2>2. [handler[g] EXCEPT !.phase = p].phase = p
    BY <1>a DEF Handler
  <2> QED
    BY <1>b, <2>1, <2>2
<1>c. ASSUME NEW g \in Gen, Refuse(g) PROVE Elsewhere(g)
  BY <1>c, HandlerValues DEF Refuse
<1>d. {"authed", "loading", "check", "admitted"} \subseteq Phase \ {"settling"}
  BY DEF Phase
<1>e. ASSUME NEW g \in Gen, NEW S \in SUBSET Cmd, ReplayNext(g, S) PROVE Elsewhere(g)
  <2>1. CASE handler' = [handler EXCEPT ![g] = Serving]
    BY <2>1, HandlerValues
  <2>2. ASSUME NEW c \in S,
               handler' = [handler EXCEPT ![g].phase = "replaying", ![g].replay = S,
                                          ![g].cmd = c]
        PROVE  Elsewhere(g)
    <3> DEFINE h == [handler[g] EXCEPT !.phase = "replaying", !.replay = S, !.cmd = c]
    <3>1. h \in Handler /\ h.phase = "replaying"
      BY <1>a DEF Handler, Phase
    <3>2. handler' = [handler EXCEPT ![g] = h]
      BY <2>2
    <3> QED
      BY <3>1, <3>2
  <2> QED
    BY <1>e, <2>1, <2>2 DEF ReplayNext
<1> HIDE DEF Elsewhere
<1>1. ASSUME NEW g \in Gen, Authenticate(g) \/ CheckRevoked(g) \/ HandlerFails(g)
      PROVE  Elsewhere(g)
  BY <1>1, <1>b, <1>c, <1>d DEF Authenticate, CheckRevoked, HandlerFails
<1>2. ASSUME NEW g \in Gen, ReadSequence(g) PROVE Elsewhere(g)
  <2>1. CASE handler' = [handler EXCEPT ![g].phase = "check"]
    BY <2>1, <1>b, <1>d
  <2>2. ASSUME NEW n \in {0} \cup {seqOf[c] : c \in Cmd},
               handler' = [handler EXCEPT ![g].phase = "loading", ![g].loaded = n]
        PROVE  Elsewhere(g)
    <3> DEFINE h == [handler[g] EXCEPT !.phase = "loading", !.loaded = n]
    <3>1. n \in Nat
      BY DEF TypeOK, RowTypes
    <3>2. h \in Handler /\ h.phase = "loading"
      BY <3>1, <1>a DEF Handler, Phase
    <3>3. handler' = [handler EXCEPT ![g] = h]
      BY <2>2
    <3> QED
      BY <3>2, <3>3 DEF Elsewhere
  <2> QED
    BY <1>2, <2>1, <2>2 DEF ReadSequence
<1>3. ASSUME NEW g \in Gen, SetSequence(g) PROVE Elsewhere(g)
  BY <1>3, <1>b, <1>d DEF SetSequence
<1>4. ASSUME NEW g \in Gen, Activate(g) PROVE Elsewhere(g)
  <2>1. {c \in outbox : seqOf[c] > handler[g].lastSeen} \in SUBSET Cmd
    BY DEF TypeOK, MemoryTypes
  <2> QED
    BY <1>4, <2>1, <1>e DEF Activate
<1>5. ASSUME NEW g \in Gen, ReplayStep(g) PROVE Elsewhere(g)
  <2>1. handler[g].replay \ {handler[g].cmd} \in SUBSET Cmd
    BY <1>a DEF Handler
  <2> QED
    BY <1>5, <2>1, <1>e DEF ReplayStep
<1>6. ASSUME NEW g \in Gen, Settle(g) PROVE Elsewhere(g)
  BY <1>6, HandlerValues DEF Settle, Elsewhere
<1>7. ASSUME NEW token \in BOOLEAN, Connect(token) PROVE Elsewhere(gens + 1) /\ gens + 1 \in Gen
  <2>1. gens + 1 \in Gen /\ dSeq \in Nat
    BY <1>7, BoundAssumption DEF Connect, TypeOK, CountTypes, DaemonTypes, Gen
  <2> DEFINE h == [Unused EXCEPT !.phase = "hello", !.lastSeen = dSeq, !.token = token]
  <2>2. h \in Handler /\ h.phase = "hello"
    BY <2>1 DEF Unused, Handler, Phase
  <2>3. handler' = [handler EXCEPT ![gens + 1] = h]
    BY <1>7 DEF Connect
  <2> QED
    BY <2>1, <2>2, <2>3 DEF Elsewhere
<1>8. StreamStep => \/ handler' = handler
                    \/ \E g \in Gen : \/ Authenticate(g) \/ CheckRevoked(g) \/ HandlerFails(g)
                                      \/ ReadSequence(g) \/ SetSequence(g) \/ Activate(g)
                                      \/ ReplayStep(g) \/ Settle(g) \/ TakeResult(g)
                    \/ GatewayRestart
                    \/ \E token \in BOOLEAN : Connect(token)
  BY DEF StreamStep, StreamNext, StreamClosed, SweepStale, RevokeFinishes, Receive, Finish
<1>9. ASSUME NEW g \in Gen, Elsewhere(g)
      PROVE  \E k \in Gen, h \in Handler : handler' = [handler EXCEPT ![k] = h] /\ h.phase # "settling"
  BY <1>9 DEF Elsewhere
<1> QED
  BY <1>1, <1>2, <1>3, <1>4, <1>5, <1>6, <1>7, <1>8, <1>9, StepsByGroup DEF streamVars

LEMMA SettlingHonest ==
  ASSUME TypeOK, TypeOK', SuccessInv, [Next]_vars
  PROVE  HonestSettling'
<1>a. handler \in [Gen -> Handler] /\ up \in [Gen -> Seq(Result)]
  BY DEF TypeOK, StreamTypes
<1>1. CASE handler' = handler
  <2>1. ASSUME NEW g \in Gen, handler[g].phase = "settling", handler[g].ok
        PROVE  ran'[handler[g].cmd] > 0
    <3>1. handler[g].cmd \in Cmd /\ ran[handler[g].cmd] > 0
      BY <2>1 DEF TypeOK, StreamTypes, SuccessInv, At
    <3> QED
      BY <3>1, RanGrows
  <2> QED
    BY <1>1, <2>1 DEF HonestSettling, At
<1>2. ASSUME NEW g \in Gen, NEW h \in Handler,
             handler' = [handler EXCEPT ![g] = h], h.phase # "settling"
      PROVE  HonestSettling'
  BY <1>2, SettlingEntry
<1>3. CASE GatewayRestart
  BY <1>3, HandlerValues DEF GatewayRestart, HonestSettling, At
<1>4. ASSUME NEW g \in Gen, TakeResult(g) PROVE HonestSettling'
  <2> DEFINE r == Head(up[g])
             h == [handler[g] EXCEPT !.phase = "settling", !.cmd = r.cmd,
                                     !.ok = (r.status = "succeeded")]
  <2>1. r = up[g][1] /\ 1 \in 1..Len(up[g]) /\ r \in Result
    BY <1>4, <1>a, EmptySeq DEF TakeResult
  <2>2. r.cmd \in Cmd /\ (r.status = "succeeded" => ran[r.cmd] > 0)
    BY <2>1 DEF Result, SuccessInv
  <2>3. h.cmd = r.cmd /\ h.ok = (r.status = "succeeded")
    BY <1>a DEF Handler
  <2>4. CASE handler' = [handler EXCEPT ![g] = h]
    <3> HIDE DEF h
    <3> QED
      BY <2>2, <2>3, <2>4, SettlingEntry
  <2>5. handler' = handler \/ handler' = [handler EXCEPT ![g] = h]
    BY <1>4 DEF TakeResult
  <2> QED
    BY <1>1, <2>4, <2>5
<1> QED
  BY <1>1, <1>2, <1>3, <1>4, HandlerStep

LEMMA RowSucceeds ==
  ASSUME TypeOK, SuccessInv, [Next]_vars, NEW c \in Cmd, row'[c] = "succeeded"
  PROVE  ran'[c] > 0
<1>a. row \in [Cmd -> Status] /\ up \in [Gen -> Seq(Result)]
  BY DEF TypeOK, RowTypes, StreamTypes
<1>1. CASE row[c] = "succeeded"
  BY <1>1, RanGrows DEF SuccessInv, SuccessMeansRan
<1>2. ASSUME row[c] # "succeeded", NEW g \in Gen, TakeResult(g) PROVE ran'[c] > 0
  <2> DEFINE r == Head(up[g])
  <2>1. r = up[g][1] /\ 1 \in 1..Len(up[g]) /\ r \in Result
    BY <1>2, <1>a, EmptySeq DEF TakeResult
  <2>2. r.status = "succeeded" => ran[r.cmd] > 0
    BY <2>1 DEF SuccessInv
  <2>3. row' = row \/ row' = [row EXCEPT ![r.cmd] = r.status]
    BY <1>2 DEF TakeResult, Conclude
  <2>4. r.cmd = c /\ r.status = "succeeded"
    BY <1>2, <2>1, <2>3, <1>a DEF Result
  <2> QED
    BY <2>2, <2>4, RanGrows
<1>3. row' = row \/ (\E g \in Gen : TakeResult(g)) \/ row'[c] # "succeeded" \/ row[c] = "succeeded"
  <2>1. CASE InsertRow
    <3>1. row' = [row EXCEPT ![alloc.cmd] = "pending"]
      BY <2>1 DEF InsertRow
    <3> QED
      BY <3>1, <1>a
  <2>2. CASE RevokeCommits
    BY <2>2 DEF RevokeCommits
  <2>3. CASE GatewayRestart
    BY <2>3, <1>a DEF GatewayRestart
  <2>4. ASSUME NEW d \in Cmd, MarkDispatched(d) \/ DispatchFails(d) \/ TimeoutCommits(d)
        PROVE  row'[c] # "succeeded" \/ row[c] = "succeeded"
    BY <2>4, <1>a DEF MarkDispatched, MarkedDispatched, DispatchFails, TimeoutCommits, Conclude
  <2>5. ASSUME NEW g \in Gen, Authenticate(g) \/ ReplayStep(g)
        PROVE  row'[c] # "succeeded" \/ row[c] = "succeeded"
    <3>1. row' = row \/ row' = MarkedDispatched(handler[g].cmd)
      BY <2>5 DEF Authenticate, ReplayStep
    <3> QED
      BY <3>1, <1>a DEF MarkedDispatched
  <2> QED
    BY <2>1, <2>2, <2>3, <2>4, <2>5, StepsByGroup DEF RowStep, rowVars
<1> QED
  BY <1>1, <1>2, <1>3

LEMMA CallerSucceeds ==
  ASSUME TypeOK, SuccessInv, [Next]_vars, NEW c \in Cmd, told'[c] = "ok"
  PROVE  ran'[c] > 0
<1>a. told \in [Cmd -> Told]
  BY DEF TypeOK, DispatchTypes
<1>1. CASE told[c] = "ok"
  BY <1>1, RanGrows DEF SuccessInv, SuccessMeansRan
<1>2. ASSUME told[c] # "ok", NEW g \in Gen, Settle(g) PROVE ran'[c] > 0
  <2> DEFINE d == handler[g].cmd
  <2>1. told' = told
        \/ told' = [told EXCEPT ![d] = IF handler[g].ok THEN "ok" ELSE "error"]
    BY <1>2 DEF Settle
  <2>2. d = c /\ handler[g].ok
    BY <1>2, <2>1, <1>a
  <2> QED
    BY <1>2, <2>2, RanGrows DEF SuccessInv, Settle
<1>3. told' = told \/ (\E g \in Gen : Settle(g)) \/ told'[c] # "ok" \/ told[c] = "ok"
  <2>1. CASE AllocateLoaded \/ InsertRow
    BY <2>1 DEF AllocateLoaded, InsertRow
  <2>2. CASE InsertFails \/ Enqueue
    <3>1. told' = [told EXCEPT ![alloc.cmd] = "error"]
          \/ told' = [told EXCEPT ![alloc.cmd] = "waiting"]
      BY <2>2 DEF InsertFails, Enqueue
    <3> QED
      BY <3>1, <1>a
  <2>3. CASE GatewayRestart
    BY <2>3, <1>a DEF GatewayRestart
  <2>4. ASSUME NEW d \in Cmd, \/ Allocate(d) \/ MarkDispatched(d) \/ DispatchFails(d)
                              \/ TimerFires(d) \/ TimeoutCommits(d)
        PROVE  told'[c] # "ok" \/ told[c] = "ok"
    BY <2>4, <1>a DEF Allocate, MarkDispatched, DispatchFails, TimerFires, TimeoutCommits
  <2> QED
    BY <2>1, <2>2, <2>3, <2>4, StepsByGroup DEF DispatchStep, dispatchVars
<1> QED
  BY <1>1, <1>2, <1>3

\* A result, a handler and a caller pass "succeeded" on only from the worker.
THEOREM SuccessInvariant == Spec => [](TypeOK /\ SuccessInv)
<1>1. Init => TypeOK /\ SuccessInv
  <2> SUFFICES ASSUME Init PROVE SuccessInv
    BY TypeInit
  <2>1. SuccessMeansRan
    BY DEF Init, SuccessMeansRan
  <2>2. \A g \in Gen : up[g] = <<>> /\ handler[g].phase = "unused"
    BY HandlerValues DEF Init
  <2> QED
    BY <2>1, <2>2 DEF Init, SuccessInv, At
<1>2. (TypeOK /\ SuccessInv) /\ [Next]_vars => (TypeOK /\ SuccessInv)'
  <2> SUFFICES ASSUME TypeOK, SuccessInv, [Next]_vars PROVE TypeOK' /\ SuccessInv'
    OBVIOUS
  <2>1. TypeOK'
    BY TypeStep
  <2>2. SuccessMeansRan'
    BY RowSucceeds, CallerSucceeds DEF SuccessMeansRan
  <2> QED
    BY <2>1, <2>2, RunningRan, UpHonest, SettlingHonest
       DEF SuccessInv, HonestUp, HonestSettling
<1> QED
  BY <1>1, <1>2, PTL DEF Spec

\* The row of a command, or its caller, says "succeeded" only after the daemon's
\* worker was given it: no duplicate, replay or refused command is a success.
THEOREM SuccessMeansRanHolds == Spec => []SuccessMeansRan
<1>1. TypeOK /\ SuccessInv => SuccessMeansRan
  BY DEF SuccessInv
<1> QED
  BY <1>1, SuccessInvariant, PTL

-----------------------------------------------------------------------------
(* What a caller waits for is held, what a revocation discarded is gone.    *)

Held == WaitingIsHeld /\ AllocatedIsNew

LEMMA AllocStep ==
  ASSUME TypeOK, Held, AllocateLoaded \/ InsertRow \/ InsertFails \/ Enqueue
  PROVE  Held'
<1>a. /\ told \in [Cmd -> Told] /\ alloc \in Allocation /\ marking \in SUBSET Cmd
      /\ outbox \in SUBSET Cmd /\ dropped \in SUBSET Cmd /\ crowded \in BOOLEAN
  BY DEF TypeOK, DispatchTypes, MemoryTypes
<1>b. alloc.phase # "idle"
  BY DEF AllocateLoaded, InsertRow, InsertFails, Enqueue
<1>c. /\ alloc.cmd \in Cmd /\ told[alloc.cmd] = "none"
      /\ alloc.cmd \notin outbox \cup dropped \cup marking
  BY <1>b DEF TypeOK, DispatchTypes, Held, AllocatedIsNew
<1>d. Idle.phase = "idle"
  BY DEF Idle
<1> USE DEF Held, WaitingIsHeld, AllocatedIsNew
<1>1. CASE AllocateLoaded
  <2>1. PICK n : alloc' = [alloc EXCEPT !.phase = "inserting", !.seq = n + 1]
    BY <1>1 DEF AllocateLoaded
  <2>2. alloc'.phase = "inserting" /\ alloc'.cmd = alloc.cmd
    BY <2>1, <1>a DEF Allocation
  <2> QED
    BY <1>1, <1>c, <2>2 DEF AllocateLoaded, discardVars
<1>2. CASE InsertRow
  <2>1. alloc'.phase = "inserted" /\ alloc'.cmd = alloc.cmd
    BY <1>2, <1>a DEF InsertRow, Allocation
  <2> QED
    BY <1>2, <1>c, <2>1 DEF InsertRow, memoVars, discardVars
<1>3. CASE InsertFails
  <2>1. /\ told' = [told EXCEPT ![alloc.cmd] = "error"] /\ alloc' = Idle
        /\ UNCHANGED <<outbox, dropped, marking, crowded>>
    BY <1>3 DEF InsertFails, discardVars
  <2> QED
    BY <2>1, <1>a, <1>c, <1>d
<1>4. CASE Enqueue
  <2> DEFINE c == alloc.cmd
  <2>1. /\ told' = [told EXCEPT ![c] = "waiting"] /\ alloc' = Idle
        /\ UNCHANGED dropped /\ crowded' = (crowded \/ Full(c)) /\ outbox' = Pushed(c)
        /\ marking' \subseteq marking \cup {c}
    BY <1>4 DEF Enqueue
  <2>2. c \in Cmd /\ told[c] = "none" /\ c \notin outbox \cup dropped \cup marking
    BY <1>c
  <2> HIDE DEF c
  <2>3. outbox' \subseteq outbox \cup {c} /\ (~Full(c) => outbox' = outbox \cup {c})
    BY <2>1 DEF Pushed
  <2>4. \A d \in Cmd : told'[d] = IF d = c THEN "waiting" ELSE told[d]
    BY <2>1, <1>a
  <2>5. WaitingIsHeld'
    <3>1. \A d \in outbox' : told'[d] = "waiting"
      BY <2>2, <2>3, <2>4, <1>a
    <3>2. ASSUME ~crowded', NEW d \in Cmd, told'[d] = "waiting"
          PROVE  d \in outbox' \cup dropped'
      <4>1. ~crowded /\ ~Full(c)
        BY <3>2, <2>1
      <4> QED
        BY <3>2, <4>1, <2>1, <2>3, <2>4
    <3> QED
      BY <3>1, <3>2
  <2>6. \A d \in outbox' \cup dropped' \cup marking' : told'[d] # "none"
    BY <2>1, <2>2, <2>3, <2>4, <1>a
  <2>7. outbox' \cap dropped' = {}
    BY <2>1, <2>2, <2>3
  <2> QED
    BY <2>1, <2>5, <2>6, <2>7, <1>d
<1> QED
  BY <1>1, <1>2, <1>3, <1>4

LEMMA CommandStep ==
  ASSUME TypeOK, Held, NEW c \in Cmd,
         \/ Allocate(c) \/ MarkDispatched(c) \/ DispatchFails(c)
         \/ TimerFires(c) \/ TimeoutCommits(c)
  PROVE  Held'
<1>a. /\ told \in [Cmd -> Told] /\ alloc \in Allocation /\ marking \in SUBSET Cmd
      /\ outbox \in SUBSET Cmd /\ dropped \in SUBSET Cmd /\ crowded \in BOOLEAN
  BY DEF TypeOK, DispatchTypes, MemoryTypes
<1>b. alloc.phase # "idle" => alloc.cmd \in Cmd /\ told[alloc.cmd] = "none"
  BY DEF TypeOK, DispatchTypes, Held, AllocatedIsNew
<1> USE DEF Held, WaitingIsHeld, AllocatedIsNew
<1>1. CASE Allocate(c)
  <2>1. alloc'.phase # "idle" /\ alloc'.cmd = c /\ told[c] = "none"
    BY <1>1 DEF Allocate
  <2> QED
    BY <1>1, <2>1 DEF Allocate, discardVars
<1>2. CASE MarkDispatched(c)
  BY <1>2 DEF MarkDispatched, memoVars, discardVars
<1>3. CASE TimeoutCommits(c)
  BY <1>3 DEF TimeoutCommits, memoVars, discardVars
<1>4. CASE DispatchFails(c) \/ TimerFires(c)
  <2>1. PICK t \in {"error", "timed_out"} :
          /\ told' = [told EXCEPT ![c] = t] /\ outbox' = outbox \ {c}
          /\ marking' \subseteq marking /\ UNCHANGED <<alloc, dropped, crowded>>
    BY <1>4 DEF DispatchFails, TimerFires, Unqueued, discardVars
  <2>2. told[c] # "none"
    BY <1>4 DEF DispatchFails, TimerFires
  <2>3. \A d \in Cmd : told'[d] = IF d = c THEN t ELSE told[d]
    BY <2>1, <1>a
  <2>4. WaitingIsHeld'
    BY <2>1, <2>3, <1>a
  <2>5. \A d \in outbox' \cup dropped' \cup marking' : told'[d] # "none"
    BY <2>1, <2>2, <2>3, <1>a
  <2>6. alloc.phase # "idle" => told'[alloc.cmd] = "none"
    BY <1>b, <2>2, <2>3
  <2> QED
    BY <2>1, <2>4, <2>5, <2>6
<1> QED
  BY <1>1, <1>2, <1>3, <1>4

LEMMA SettleStep ==
  ASSUME TypeOK, Held, NEW g \in Gen, Settle(g)
  PROVE  Held'
<1> DEFINE c == handler[g].cmd
<1>a. /\ told \in [Cmd -> Told] /\ outbox \in SUBSET Cmd /\ dropped \in SUBSET Cmd
      /\ marking \in SUBSET Cmd
  BY DEF TypeOK, DispatchTypes, MemoryTypes
<1>b. c \in Cmd
  BY DEF Settle, TypeOK, StreamTypes
<1>c. alloc.phase # "idle" => alloc.cmd \in Cmd /\ told[alloc.cmd] = "none"
  BY DEF TypeOK, DispatchTypes, Held, AllocatedIsNew
<1>1. /\ outbox' = outbox \ {c} /\ UNCHANGED <<alloc, marking, dropped, crowded>>
      /\ \/ told[c] # "waiting" /\ told' = told
         \/ \E t \in {"ok", "error"} : told[c] = "waiting" /\ told' = [told EXCEPT ![c] = t]
  BY DEF Settle, Unqueued, discardVars
<1> HIDE DEF c
<1> USE DEF Held, WaitingIsHeld, AllocatedIsNew
<1>2. CASE told[c] # "waiting" /\ told' = told
  BY <1>1, <1>2
<1>3. ASSUME NEW t \in {"ok", "error"}, told[c] = "waiting", told' = [told EXCEPT ![c] = t]
      PROVE  Held'
  <2>1. \A d \in Cmd : told'[d] = IF d = c THEN t ELSE told[d]
    BY <1>3, <1>a
  <2>2. WaitingIsHeld'
    BY <1>1, <2>1, <1>a
  <2>3. \A d \in outbox' \cup dropped' \cup marking' : told'[d] # "none"
    BY <1>1, <2>1, <1>a
  <2>4. alloc.phase # "idle" => told'[alloc.cmd] = "none"
    BY <1>3, <1>c, <2>1
  <2> QED
    BY <1>1, <2>2, <2>3, <2>4
<1> QED
  BY <1>1, <1>2, <1>3

LEMMA ProcessStep ==
  ASSUME TypeOK, Held, RevokeFinishes \/ GatewayRestart
  PROVE  Held'
<1>a. /\ told \in [Cmd -> Told] /\ outbox \in SUBSET Cmd /\ dropped \in SUBSET Cmd
      /\ marking \in SUBSET Cmd
  BY DEF TypeOK, DispatchTypes, MemoryTypes
<1> USE DEF Held, WaitingIsHeld, AllocatedIsNew
<1>1. CASE RevokeFinishes
  BY <1>1, <1>a DEF RevokeFinishes, OutboxAfterRevoke, dispatchVars
<1>2. CASE GatewayRestart
  <2>1. outbox' = {} /\ marking' = {} /\ alloc' = Idle /\ UNCHANGED <<dropped, crowded>>
    BY <1>2 DEF GatewayRestart
  <2>2. \A d \in Cmd : told'[d] = "lost"
                       \/ (told'[d] = told[d] /\ told[d] # "waiting")
    BY <1>2 DEF GatewayRestart
  <2>3. Idle.phase = "idle"
    BY DEF Idle
  <2> QED
    BY <2>1, <2>2, <2>3, <1>a
<1> QED
  BY <1>1, <1>2

LEMMA HeldStep ==
  ASSUME TypeOK, Held, [Next]_vars
  PROVE  Held'
<1>1. CASE UNCHANGED <<outbox, discardVars, dispatchVars>>
  BY <1>1 DEF Held, WaitingIsHeld, AllocatedIsNew, discardVars, dispatchVars
<1>2. CASE RevokeCommits
  BY <1>2 DEF RevokeCommits, memoVars, dispatchVars, Held, WaitingIsHeld, AllocatedIsNew
<1>3. StreamNext => UNCHANGED <<outbox, discardVars, dispatchVars>>
                    \/ \E g \in Gen : Settle(g)
  BY DEF StreamNext, Authenticate, ReadSequence, SetSequence, CheckRevoked,
     Activate, ReplayStep, TakeResult, HandlerFails, StreamClosed,
     OutboxAfterDisconnect, memoVars, discardVars
<1>4. DaemonNext => UNCHANGED <<outbox, discardVars, dispatchVars>>
  BY DEF DaemonNext, Connect, Receive, PersistHead, HandOff, DaemonDrops, Finish,
     gatewayVars, memoVars
<1>5. SweepStale \/ UNCHANGED vars => UNCHANGED <<outbox, discardVars, dispatchVars>>
  BY DEF SweepStale, OutboxAfterDisconnect, vars, gatewayVars, memoVars
<1> QED
  BY <1>1, <1>2, <1>3, <1>4, <1>5, AllocStep, CommandStep, SettleStep, ProcessStep
     DEF Next, DispatchNext

\* A stream comes into use only when the device opens it.
LEMMA UsedStreams ==
  ASSUME TypeOK, [Next]_vars, NEW k \in Gen, ~At(k, "unused")'
  PROVE  ~At(k, "unused") \/ (k = gens + 1 /\ k = gens')
<1>a. handler \in [Gen -> Handler]
  BY DEF TypeOK, StreamTypes
<1>1. CASE handler' = handler
  BY <1>1 DEF At
<1>2. ASSUME NEW g \in Gen, ~At(g, "unused"), \A j \in Gen \ {g} : handler'[j] = handler[j]
      PROVE  ~At(k, "unused")
  BY <1>2 DEF At
<1>3. CASE StreamNext
  <2>1. PICK g \in Gen :
          \/ Authenticate(g) \/ ReadSequence(g) \/ SetSequence(g)
          \/ CheckRevoked(g) \/ Activate(g) \/ ReplayStep(g)
          \/ TakeResult(g) \/ Settle(g) \/ HandlerFails(g) \/ StreamClosed(g)
    BY <1>3 DEF StreamNext
  <2>2. CASE Authenticate(g) \/ ReadSequence(g) \/ SetSequence(g) \/ CheckRevoked(g)
    <3>1. ~At(g, "unused")
      BY <2>2 DEF Authenticate, ReadSequence, SetSequence, CheckRevoked, At
    <3>2. \A j \in Gen \ {g} : handler'[j] = handler[j]
      BY <2>2, <1>a DEF Authenticate, ReadSequence, SetSequence, CheckRevoked, Refuse
    <3> QED
      BY <3>1, <3>2, <1>2
  <2>3. CASE Activate(g) \/ ReplayStep(g)
    <3>1. ~At(g, "unused")
      BY <2>3 DEF Activate, ReplayStep, At
    <3>2. \A j \in Gen \ {g} : handler'[j] = handler[j]
      BY <2>3, <1>a DEF Activate, ReplayStep, ReplayNext
    <3> QED
      BY <3>1, <3>2, <1>2
  <2>4. CASE TakeResult(g) \/ Settle(g) \/ HandlerFails(g)
    <3>1. ~At(g, "unused")
      BY <2>4 DEF TakeResult, Settle, HandlerFails, At
    <3>2. \A j \in Gen \ {g} : handler'[j] = handler[j]
      BY <2>4, <1>a DEF TakeResult, Settle, HandlerFails, Refuse
    <3> QED
      BY <3>1, <3>2, <1>2
  <2>5. CASE StreamClosed(g)
    BY <2>5, <1>1 DEF StreamClosed
  <2> QED
    BY <2>1, <2>2, <2>3, <2>4, <2>5
<1>4. CASE GatewayRestart
  BY <1>4, HandlerValues DEF GatewayRestart, At
<1>5. ASSUME NEW token \in BOOLEAN, Connect(token)
      PROVE  ~At(k, "unused") \/ (k = gens + 1 /\ k = gens')
  BY <1>5, <1>a DEF Connect, At
<1>6. StreamStep => \/ StreamNext \/ GatewayRestart \/ handler' = handler
                    \/ \E token \in BOOLEAN : Connect(token)
  BY DEF StreamStep, SweepStale, RevokeFinishes, Receive, Finish
<1> QED
  BY <1>1, <1>3, <1>4, <1>5, <1>6, StepsByGroup DEF streamVars

LEMMA StreamsStep ==
  ASSUME TypeOK, TypeOK', StreamsInTurn, [Next]_vars
  PROVE  StreamsInTurn'
<1>a. /\ gens \in Nat /\ gens' \in Nat /\ dGen \in Gen \cup {NoGen}
      /\ Gen \subseteq Nat /\ NoGen \in Nat
  BY BoundAssumption DEF TypeOK, CountTypes, DaemonTypes, Gen, NoGen
<1>1. \/ gens' = gens /\ (dGen' = dGen \/ dGen' = NoGen)
      \/ gens' = gens + 1 /\ dGen' = gens + 1
  <2>1. DaemonNext => \/ gens' = gens /\ (dGen' = dGen \/ dGen' = NoGen)
                      \/ gens' = gens + 1 /\ dGen' = gens + 1
    BY DEF DaemonNext, Connect, Receive, PersistHead, HandOff, DaemonDrops, Finish,
       countVars
  <2>2. UNCHANGED daemonVars => dGen' = dGen
    BY DEF daemonVars
  <2>3. DispatchNext \/ UNCHANGED vars => gens' = gens
    BY DEF DispatchNext, AllocateLoaded, InsertRow, InsertFails, Enqueue, Allocate,
       MarkDispatched, DispatchFails, TimerFires, TimeoutCommits, countVars, vars
  <2>4. StreamNext => gens' = gens
    BY DEF StreamNext, Authenticate, ReadSequence, SetSequence, CheckRevoked,
       Activate, ReplayStep, TakeResult, Settle, HandlerFails, StreamClosed, countVars
  <2>5. SweepStale \/ RevokeCommits \/ RevokeFinishes \/ GatewayRestart => gens' = gens
    BY DEF SweepStale, RevokeCommits, RevokeFinishes, GatewayRestart, countVars
  <2> QED
    BY <2>1, <2>2, <2>3, <2>4, <2>5, DaemonActsOnly DEF DaemonActs, Next
<1>2. dGen' <= gens' /\ gens <= gens'
  BY <1>1, <1>a DEF StreamsInTurn, NoGen
<1>3. ASSUME NEW k \in Gen, ~At(k, "unused")' PROVE k <= gens'
  BY <1>3, <1>2, <1>a, UsedStreams DEF StreamsInTurn
<1> QED
  BY <1>2, <1>3 DEF StreamsInTurn

\* Streams that are not replaying more than before, seen by nobody new.
LEMMA CutKept ==
  ASSUME TypeOK, ReplayIsCut, UNCHANGED <<dGen, conn, dropped>>, ended \subseteq ended',
         \A k \in Gen : handler'[k].phase = "replaying" =>
           handler[k].phase = "replaying" /\ handler'[k].replay \subseteq handler[k].replay
  PROVE  ReplayIsCut'
BY DEF ReplayIsCut, At

LEMMA CutEntry ==
  ASSUME TypeOK, ReplayIsCut, UNCHANGED <<dGen, conn, dropped>>, ended \subseteq ended',
         NEW g \in Gen, NEW h, handler' = [handler EXCEPT ![g] = h], h.phase # "replaying"
  PROVE  ReplayIsCut'
<1>a. handler \in [Gen -> Handler]
  BY DEF TypeOK, StreamTypes
<1>1. ASSUME NEW k \in Gen, handler'[k].phase = "replaying"
      PROVE  handler[k].phase = "replaying" /\ handler'[k].replay \subseteq handler[k].replay
  <2>1. k # g
    BY <1>1, <1>a
  <2>2. handler'[k] = handler[k]
    BY <2>1, <1>a
  <2> QED
    BY <1>1, <2>2
<1> QED
  BY <1>1, CutKept

LEMMA ReplayEntry ==
  ASSUME TypeOK, NEW g \in Gen, NEW S, ReplayNext(g, S)
  PROVE  /\ \A k \in Gen \ {g} : handler'[k] = handler[k]
         /\ handler'[g].phase = "replaying" => handler'[g].replay = S
<1>a. handler \in [Gen -> Handler]
  BY DEF TypeOK, StreamTypes
<1>1. CASE handler' = [handler EXCEPT ![g] = Serving]
  BY <1>1, <1>a, HandlerValues
<1>2. ASSUME NEW c \in S,
             handler' = [handler EXCEPT ![g].phase = "replaying", ![g].replay = S, ![g].cmd = c]
      PROVE  /\ \A k \in Gen \ {g} : handler'[k] = handler[k]
             /\ handler'[g].replay = S
  <2>1. handler[g] \in Handler
    BY <1>a
  <2>2. [handler[g] EXCEPT !.phase = "replaying", !.replay = S, !.cmd = c].replay = S
    BY <2>1 DEF Handler
  <2> QED
    BY <1>2, <1>a, <2>2
<1> QED
  BY <1>1, <1>2 DEF ReplayNext

\* The steps of a handler that do not write to its stream.
LEMMA QuietCut ==
  ASSUME TypeOK, ReplayIsCut, NEW g \in Gen,
         \/ Authenticate(g) \/ ReadSequence(g) \/ SetSequence(g) \/ CheckRevoked(g)
         \/ TakeResult(g) \/ Settle(g) \/ HandlerFails(g)
  PROVE  ReplayIsCut'
<1>a. handler \in [Gen -> Handler]
  BY DEF TypeOK, StreamTypes
<1>1. UNCHANGED <<dGen, conn, dropped>> /\ ended \subseteq ended'
  BY DEF Authenticate, ReadSequence, SetSequence, CheckRevoked, TakeResult, Settle,
     HandlerFails, Refuse, daemonVars, discardVars
<1>2. CASE handler' = handler
  BY <1>1, <1>2, CutKept
<1>3. ASSUME NEW h, handler' = [handler EXCEPT ![g] = h], h.phase # "replaying"
      PROVE  ReplayIsCut'
  BY <1>1, <1>3, CutEntry
<1>4. ASSUME NEW p, p # "replaying", handler' = [handler EXCEPT ![g].phase = p]
      PROVE  ReplayIsCut'
  <2> DEFINE h == [handler[g] EXCEPT !.phase = p]
  <2>1. h.phase = p
    BY <1>a DEF Handler
  <2>2. handler' = [handler EXCEPT ![g] = h]
    BY <1>4
  <2> HIDE DEF h
  <2> QED
    BY <1>4, <2>1, <2>2, <1>3
<1>5. CASE Refuse(g)
  BY <1>5, <1>3, HandlerValues DEF Refuse
<1>6. CASE Authenticate(g) \/ CheckRevoked(g) \/ HandlerFails(g)
  BY <1>4, <1>5, <1>6 DEF Authenticate, CheckRevoked, HandlerFails
<1>7. CASE ReadSequence(g)
  <2>1. ASSUME NEW n, handler' = [handler EXCEPT ![g].phase = "loading", ![g].loaded = n]
        PROVE  ReplayIsCut'
    <3> DEFINE h == [handler[g] EXCEPT !.phase = "loading", !.loaded = n]
    <3>1. h.phase = "loading"
      BY <1>a DEF Handler
    <3>2. handler' = [handler EXCEPT ![g] = h]
      BY <2>1
    <3> HIDE DEF h
    <3> QED
      BY <3>1, <3>2, <1>3
  <2> QED
    BY <1>4, <1>7, <2>1 DEF ReadSequence
<1>8. CASE SetSequence(g)
  BY <1>4, <1>8 DEF SetSequence
<1>9. CASE TakeResult(g)
  <2> DEFINE r == Head(up[g])
             h == [handler[g] EXCEPT !.phase = "settling", !.cmd = r.cmd,
                                     !.ok = (r.status = "succeeded")]
  <2>1. h.phase = "settling"
    BY <1>a DEF Handler
  <2>2. handler' = handler \/ handler' = [handler EXCEPT ![g] = h]
    BY <1>9 DEF TakeResult
  <2> HIDE DEF h
  <2> QED
    BY <2>1, <2>2, <1>2, <1>3
<1>10. CASE Settle(g)
  BY <1>3, <1>10, HandlerValues DEF Settle
<1> QED
  BY <1>6, <1>7, <1>8, <1>9, <1>10

LEMMA CutStep ==
  ASSUME TypeOK, TypeOK', Held, StreamsInTurn, ReplayIsCut, [Next]_vars
  PROVE  ReplayIsCut'
<1>a. /\ handler \in [Gen -> Handler] /\ conn \in Gen \cup {NoGen} /\ NoGen \notin Gen
      /\ dGen \in Gen \cup {NoGen} /\ gens \in Nat /\ Gen \subseteq Nat
  BY BoundAssumption DEF TypeOK, StreamTypes, DaemonTypes, CountTypes, Gen, NoGen
<1>1. CASE UNCHANGED <<dGen, conn, dropped, ended, handler>>
  BY <1>1, CutKept
<1>2. ASSUME NEW g \in Gen, Activate(g) PROVE ReplayIsCut'
  <2> DEFINE S == {c \in outbox : seqOf[c] > handler[g].lastSeen}
  <2>1. /\ S \cap dropped = {} /\ ReplayNext(g, S) /\ conn' = g
        /\ UNCHANGED <<dropped, dGen>>
        /\ ended' = IF conn = NoGen THEN ended ELSE ended \cup {conn}
    BY <1>2 DEF Activate, Held, AllocatedIsNew, daemonVars, discardVars
  <2> HIDE DEF S
  <2>2. \A k \in Gen \ {g} : handler'[k] = handler[k]
    BY <2>1, ReplayEntry
  <2>3. handler'[g].phase = "replaying" => handler'[g].replay = S
    BY <2>1, ReplayEntry
  <2>4. ASSUME NEW k \in Gen \ {g}, handler'[k].phase = "replaying"
        PROVE  k # dGen \/ k \in ended'
    BY <2>1, <2>2, <2>4, <1>a DEF ReplayIsCut, At
  <2> QED
    BY <2>1, <2>3, <2>4 DEF ReplayIsCut, At
<1>3. ASSUME NEW g \in Gen, ReplayStep(g) PROVE ReplayIsCut'
  <2> DEFINE S == handler[g].replay \ {handler[g].cmd}
  <2>1. /\ S \subseteq handler[g].replay /\ ReplayNext(g, S) /\ At(g, "replaying")
        /\ UNCHANGED <<conn, dropped, dGen, ended>>
    BY <1>3 DEF ReplayStep, daemonVars, discardVars
  <2> HIDE DEF S
  <2>2. \A k \in Gen \ {g} : handler'[k] = handler[k]
    BY <2>1, ReplayEntry
  <2>3. handler'[g].phase = "replaying" => handler'[g].replay = S
    BY <2>1, ReplayEntry
  <2> QED
    BY <2>1, <2>2, <2>3, CutKept DEF At
<1>4. ASSUME NEW g \in Gen, StreamClosed(g) PROVE ReplayIsCut'
  <2>1. /\ UNCHANGED <<handler, dropped, dGen, ended>>
        /\ conn' = IF conn = g THEN NoGen ELSE conn
        /\ g # dGen \/ g \in ended
    BY <1>4 DEF StreamClosed, daemonVars, discardVars
  <2> QED
    BY <2>1, <1>a DEF ReplayIsCut, At
<1>5. CASE SweepStale
  BY <1>5, <1>a DEF SweepStale, ReplayIsCut, At, daemonVars, discardVars
<1>6. CASE RevokeFinishes
  BY <1>6, <1>a DEF RevokeFinishes, ReplayIsCut, At, daemonVars
<1>7. CASE GatewayRestart
  BY <1>7, HandlerValues DEF GatewayRestart, ReplayIsCut, At
<1>8. ASSUME NEW token \in BOOLEAN, Connect(token) PROVE ReplayIsCut'
  <2> DEFINE h == [Unused EXCEPT !.phase = "hello", !.lastSeen = dSeq, !.token = token]
  <2>1. /\ handler' = [handler EXCEPT ![gens + 1] = h] /\ dGen' = gens + 1
        /\ gens + 1 \in Gen /\ h.phase = "hello"
    BY <1>8, <1>a, BoundAssumption DEF Connect, Gen, Unused
  <2> HIDE DEF h
  <2>2. ASSUME NEW k \in Gen, handler'[k].phase = "replaying" PROVE k # dGen'
    <3>1. k # gens + 1
      BY <2>1, <2>2, <1>a
    <3> QED
      BY <2>1, <3>1
  <2> QED
    BY <2>2 DEF ReplayIsCut, At
<1>9. CASE DaemonDrops
  BY <1>9, <1>a DEF DaemonDrops, ReplayIsCut, At, gatewayVars, streamVars
<1>10. UNCHANGED vars \/ DispatchNext \/ RevokeCommits
         => UNCHANGED <<dGen, conn, dropped, ended, handler>>
  BY DEF DispatchNext, AllocateLoaded, InsertRow, InsertFails, Enqueue, Allocate,
     MarkDispatched, DispatchFails, TimerFires, TimeoutCommits, RevokeCommits, vars,
     gatewayVars, streamVars, discardVars, daemonVars
<1>11. DaemonNext => \/ UNCHANGED <<dGen, conn, dropped, ended, handler>>
                     \/ DaemonDrops \/ \E token \in BOOLEAN : Connect(token)
  BY DEF DaemonNext, Receive, PersistHead, HandOff, Finish, gatewayVars, streamVars,
     discardVars
<1> QED
  BY <1>1, <1>2, <1>3, <1>4, <1>5, <1>6, <1>7, <1>8, <1>9, <1>10, <1>11, QuietCut
     DEF Next, StreamNext

\* The outbox holds exactly what is waited for, less what a revocation or the
\* limit took; a handler still replaying discarded work writes to a dead stream.
THEOREM OutboxInvariant == Spec => [](TypeOK /\ OutboxInv)
<1>1. Init => TypeOK /\ OutboxInv
  <2> SUFFICES ASSUME Init PROVE OutboxInv
    BY TypeInit
  <2>1. WaitingIsHeld /\ AllocatedIsNew
    BY DEF Init, WaitingIsHeld, AllocatedIsNew, Idle
  <2>2. \A g \in Gen : handler[g].phase = "unused"
    BY HandlerValues DEF Init
  <2> QED
    BY <2>1, <2>2 DEF Init, OutboxInv, StreamsInTurn, ReplayIsCut, At, NoGen
<1>2. (TypeOK /\ OutboxInv) /\ [Next]_vars => (TypeOK /\ OutboxInv)'
  <2> SUFFICES ASSUME TypeOK, OutboxInv, [Next]_vars PROVE TypeOK' /\ OutboxInv'
    OBVIOUS
  <2>1. TypeOK'
    BY TypeStep
  <2>2. Held /\ Held'
    BY HeldStep DEF OutboxInv, Held
  <2>3. StreamsInTurn' /\ ReplayIsCut'
    BY <2>1, <2>2, StreamsStep, CutStep DEF OutboxInv
  <2> QED
    BY <2>1, <2>2, <2>3 DEF OutboxInv, Held
<1> QED
  BY <1>1, <1>2, PTL DEF Spec

\* A command somebody waits for stays in the outbox through disconnects, sweeps,
\* replays and late updates: only a revocation or a full outbox takes it out.
THEOREM WaitingIsHeldHolds == Spec => []WaitingIsHeld
<1>1. TypeOK /\ OutboxInv => WaitingIsHeld
  BY DEF OutboxInv
<1> QED
  BY <1>1, OutboxInvariant, PTL

\* `down` grows by the command that is written, and only on the device's stream.
LEMMA Written ==
  ASSUME down \in Seq(Cmd), NEW g, NEW c \in Cmd, Write(g, c), Len(down') > Len(down)
  PROVE  g = dGen /\ g \notin ended /\ down'[Len(down')] = c
<1>1. CASE down' = down
  BY <1>1
<1>2. CASE g = dGen /\ g \notin ended /\ down' = Append(down, c)
  <2>1. Len(down') = Len(down) + 1 /\ down'[Len(down) + 1] = c
    BY <1>2
  <2> QED
    BY <1>2, <2>1
<1> QED
  BY <1>1, <1>2 DEF Write

\* No step writes a command the revocation of its device discarded: not the
\* dispatch it interrupted, not a replay that read the outbox before it.
THEOREM RevokedWorkStaysDiscardedHolds == Spec => RevokedWorkStaysDiscarded
<1> DEFINE Kept == \A c \in dropped : Len(down') > Len(down) => down'[Len(down')] # c
<1>1. ASSUME TypeOK, OutboxInv, [Next]_vars PROVE Kept
  <2>a. /\ down \in Seq(Cmd) /\ outbox \in SUBSET Cmd /\ dropped \in SUBSET Cmd
        /\ handler \in [Gen -> Handler]
    BY <1>1 DEF TypeOK, MemoryTypes, DaemonTypes, StreamTypes
  <2> SUFFICES ASSUME Len(down') > Len(down) PROVE down'[Len(down')] \notin dropped
    OBVIOUS
  <2>1. Len(down) \in Nat
    BY <2>a
  <2>2. CASE Enqueue
    <3>1. alloc.cmd \in Cmd \ dropped
      BY <1>1, <2>2 DEF Enqueue, TypeOK, DispatchTypes, OutboxInv, AllocatedIsNew
    <3>2. Write(conn, alloc.cmd) \/ down' = down
      BY <2>2 DEF Enqueue
    <3> QED
      BY <3>1, <3>2, <2>a, <2>1, Written
  <2>3. ASSUME NEW g \in Gen, Activate(g) PROVE down'[Len(down')] \notin dropped
    <3> DEFINE S == {c \in outbox : seqOf[c] > handler[g].lastSeen}
    <3>1. S \subseteq Cmd \ dropped /\ ReplayNext(g, S)
      BY <1>1, <2>3, <2>a DEF Activate, OutboxInv, AllocatedIsNew
    <3> HIDE DEF S
    <3>2. (\E c \in S : Write(g, c)) \/ down' = down
      BY <3>1 DEF ReplayNext
    <3> QED
      BY <3>1, <3>2, <2>a, <2>1, Written
  <2>4. ASSUME NEW g \in Gen, ReplayStep(g) PROVE down'[Len(down')] \notin dropped
    <3> DEFINE S == handler[g].replay \ {handler[g].cmd}
    <3>1. S \subseteq Cmd /\ ReplayNext(g, S) /\ At(g, "replaying")
      BY <2>4, <2>a DEF ReplayStep, Handler
    <3>2. g # dGen \/ g \in ended \/ S \cap dropped = {}
      BY <1>1, <3>1 DEF OutboxInv, ReplayIsCut
    <3> HIDE DEF S
    <3>3. (\E c \in S : Write(g, c)) \/ down' = down
      BY <3>1 DEF ReplayNext
    <3> QED
      BY <3>1, <3>2, <3>3, <2>a, <2>1, Written
  <2>5. CASE Receive
    <3>1. down # <<>> /\ down' = Tail(down)
      BY <2>5 DEF Receive
    <3>2. Len(down') = Len(down) - 1
      BY <3>1, <2>a
    <3> QED
      BY <3>2, <2>1
  <2>6. CASE down' = <<>>
    <3>1. Len(down') = 0
      BY <2>6
    <3> QED
      BY <3>1, <2>1
  <2>7. CASE down' = down
    BY <2>7, <2>1
  <2>8. DaemonNext => Receive \/ down' = <<>> \/ down' = down
    BY DEF DaemonNext, Connect, PersistHead, HandOff, DaemonDrops, Finish
  <2> QED
    BY <1>1, <2>2, <2>3, <2>4, <2>5, <2>6, <2>7, <2>8, StepsByGroup DEF DaemonStep
<1>2. (TypeOK /\ OutboxInv) /\ [Next]_vars => [Kept]_vars
  BY <1>1
<1> QED
  BY <1>2, OutboxInvariant, PTL DEF Spec, RevokedWorkStaysDiscarded

-----------------------------------------------------------------------------
(* The promise of CommandDelivery is kept.                                  *)

\* A handler that reads the stored sequence just began to, or stands where it stood.
LEMMA LoadingFrom ==
  ASSUME TypeOK, [Next]_vars, NEW k \in Gen, handler'[k].phase = "loading"
  PROVE  handler'[k] = handler[k] \/ ReadSequence(k)
<1>a. handler \in [Gen -> Handler]
  BY DEF TypeOK, StreamTypes
<1>1. CASE handler' = handler
  BY <1>1
<1>2. ASSUME NEW g \in Gen, NEW h, handler' = [handler EXCEPT ![g] = h], h.phase # "loading"
      PROVE  handler'[k] = handler[k]
  BY <1>2, <1>a
<1>3. ASSUME NEW g \in Gen, NEW p, p # "loading", handler' = [handler EXCEPT ![g].phase = p]
      PROVE  handler'[k] = handler[k]
  <2> DEFINE h == [handler[g] EXCEPT !.phase = p]
  <2>1. h.phase = p
    BY <1>a DEF Handler
  <2>2. handler' = [handler EXCEPT ![g] = h]
    BY <1>3
  <2> HIDE DEF h
  <2> QED
    BY <1>3, <2>1, <2>2, <1>2
<1>4. ASSUME NEW g \in Gen, Refuse(g) PROVE handler'[k] = handler[k]
  BY <1>4, <1>2, HandlerValues DEF Refuse
<1>5. ASSUME NEW g \in Gen, Authenticate(g) \/ SetSequence(g) \/ CheckRevoked(g) \/ HandlerFails(g)
      PROVE  handler'[k] = handler[k]
  BY <1>3, <1>4, <1>5 DEF Authenticate, SetSequence, CheckRevoked, HandlerFails
<1>6. ASSUME NEW g \in Gen, ReadSequence(g)
      PROVE  handler'[k] = handler[k] \/ ReadSequence(k)
  BY <1>6, <1>a DEF ReadSequence
<1>7. ASSUME NEW g \in Gen, NEW S, ReplayNext(g, S) PROVE handler'[k] = handler[k]
  <2>1. CASE handler' = [handler EXCEPT ![g] = Serving]
    BY <2>1, <1>2, HandlerValues
  <2>2. ASSUME NEW c \in S,
               handler' = [handler EXCEPT ![g].phase = "replaying", ![g].replay = S,
                                          ![g].cmd = c]
        PROVE  handler'[k] = handler[k]
    <3> DEFINE h == [handler[g] EXCEPT !.phase = "replaying", !.replay = S, !.cmd = c]
    <3>1. h.phase = "replaying"
      BY <1>a DEF Handler
    <3>2. handler' = [handler EXCEPT ![g] = h]
      BY <2>2
    <3> HIDE DEF h
    <3> QED
      BY <3>1, <3>2, <1>2
  <2> QED
    BY <1>7, <2>1, <2>2 DEF ReplayNext
<1>8. ASSUME NEW g \in Gen, Activate(g) \/ ReplayStep(g) PROVE handler'[k] = handler[k]
  BY <1>7, <1>8 DEF Activate, ReplayStep
<1>9. ASSUME NEW g \in Gen, TakeResult(g) PROVE handler'[k] = handler[k]
  <2> DEFINE r == Head(up[g])
             h == [handler[g] EXCEPT !.phase = "settling", !.cmd = r.cmd,
                                     !.ok = (r.status = "succeeded")]
  <2>1. h.phase = "settling"
    BY <1>a DEF Handler
  <2>2. handler' = handler \/ handler' = [handler EXCEPT ![g] = h]
    BY <1>9 DEF TakeResult
  <2> HIDE DEF h
  <2> QED
    BY <2>1, <2>2, <1>2
<1>10. ASSUME NEW g \in Gen, Settle(g) PROVE handler'[k] = handler[k]
  BY <1>2, <1>10, HandlerValues DEF Settle
<1>11. CASE GatewayRestart
  BY <1>11, HandlerValues DEF GatewayRestart
<1>12. ASSUME NEW token \in BOOLEAN, Connect(token) PROVE handler'[k] = handler[k]
  <2> DEFINE h == [Unused EXCEPT !.phase = "hello", !.lastSeen = dSeq, !.token = token]
  <2>1. handler' = [handler EXCEPT ![gens + 1] = h] /\ h.phase = "hello"
    BY <1>12 DEF Connect, Unused
  <2>2. gens + 1 \in Gen
    BY <1>12, BoundAssumption DEF Connect, TypeOK, CountTypes, Gen
  <2> HIDE DEF h
  <2> QED
    BY <2>1, <2>2, <1>2
<1>13. StreamStep => \/ handler' = handler
                     \/ \E g \in Gen : \/ Authenticate(g) \/ CheckRevoked(g) \/ HandlerFails(g)
                                       \/ ReadSequence(g) \/ SetSequence(g) \/ Activate(g)
                                       \/ ReplayStep(g) \/ Settle(g) \/ TakeResult(g)
                     \/ GatewayRestart
                     \/ \E token \in BOOLEAN : Connect(token)
  BY DEF StreamStep, StreamNext, StreamClosed, SweepStale, RevokeFinishes, Receive, Finish
<1> QED
  BY <1>1, <1>5, <1>6, <1>8, <1>9, <1>10, <1>11, <1>12, <1>13, StepsByGroup
     DEF streamVars

LEMMA StoredIsIssued ==
  ASSUME NEW n \in {0} \cup {seqOf[c] : c \in Cmd}
  PROVE  Issued(n)
BY DEF Issued

\* The insert of a number that follows an issued one leaves no gap, and its number
\* is above every other: a free number below the largest does not exist.
LEMMA InsertInTurn ==
  ASSUME TypeOK, NumbersAreStored, NumbersInTurn, InsertRow
  PROVE  /\ alloc.cmd \in Cmd /\ seqOf[alloc.cmd] = 0 /\ alloc.seq \in Nat \ {0}
         /\ seqOf' = [seqOf EXCEPT ![alloc.cmd] = alloc.seq]
         /\ \A d \in Cmd : seqOf[d] < alloc.seq
<1>1. /\ alloc.cmd \in Cmd /\ seqOf[alloc.cmd] = 0 /\ alloc.seq \in Nat \ {0}
      /\ seqOf' = [seqOf EXCEPT ![alloc.cmd] = alloc.seq]
  BY DEF InsertRow, TypeOK, DispatchTypes, Allocation, NumbersAreStored, NumbersInTurn
<1>2. ASSUME NEW d \in Cmd, alloc.seq <= seqOf[d] PROVE FALSE
  <2>1. alloc.seq \in 0..seqOf[d]
    BY <1>1, <1>2 DEF TypeOK, RowTypes
  <2>2. Issued(alloc.seq)
    BY <2>1 DEF NumbersInTurn
  <2> QED
    BY <1>1, <2>2 DEF Issued, InsertRow, SequenceFree
<1>3. seqOf \in [Cmd -> Nat]
  BY DEF TypeOK, RowTypes
<1> QED
  BY <1>1, <1>2, <1>3

LEMMA InTurnStep ==
  ASSUME TypeOK, TypeOK', NumbersAreStored, NumbersInTurn, [Next]_vars
  PROVE  NumbersInTurn'
<1>a. /\ seqOf \in [Cmd -> Nat] /\ alloc \in Allocation /\ handler \in [Gen -> Handler]
      /\ seqCache \in Nat \cup {NoSeq} /\ NoSeq \notin Nat
  BY DEF TypeOK, RowTypes, DispatchTypes, StreamTypes, MemoryTypes, NoSeq
<1> DEFINE Counter == seqCache # NoSeq =>
             Issued(seqCache) \/ (alloc.phase = "inserting" /\ seqCache = alloc.seq)
           Section == alloc.phase = "inserting" => alloc.seq > 0 /\ Issued(alloc.seq - 1)
           Readers == \A g \in Gen : At(g, "loading") => Issued(handler[g].loaded)
           Gapless == \A c \in Cmd : \A n \in 0..seqOf[c] : Issued(n)
<1>b. Counter /\ Section /\ Readers /\ Gapless
  BY DEF NumbersInTurn
<1>1. CASE InsertRow
  <2>a. PICK c, s : c = alloc.cmd /\ s = alloc.seq
    OBVIOUS
  <2>1. /\ c \in Cmd /\ seqOf[c] = 0 /\ s \in Nat \ {0} /\ alloc.phase = "inserting"
        /\ seqOf' = [seqOf EXCEPT ![c] = s]
    BY <1>1, <2>a, InsertInTurn DEF InsertRow
  <2>2. Issued(s - 1)
    BY <2>a, <2>1 DEF NumbersInTurn
  <2>3. alloc'.phase = "inserted" /\ UNCHANGED <<seqCache, handler>>
    BY <1>1, <1>a DEF InsertRow, Allocation, memoVars, streamVars
  <2>4. seqCache # NoSeq => Issued(seqCache) \/ seqCache = s
    BY <2>a DEF NumbersInTurn
  <2>5. \A d \in Cmd : seqOf'[d] = IF d = c THEN s ELSE seqOf[d]
    BY <2>1, <1>a
  <2>6. ASSUME NEW n, Issued(n) PROVE Issued(n)'
    <3>1. CASE n = 0
      BY <3>1 DEF Issued
    <3>2. ASSUME NEW d \in Cmd, seqOf[d] = n, n # 0 PROVE \E e \in Cmd : seqOf'[e] = n
      BY <3>2, <2>1, <2>5
    <3> QED
      BY <2>6, <3>1, <3>2 DEF Issued
  <2>7. Issued(s)'
    BY <2>1, <2>5 DEF Issued
  <2>8. ASSUME NEW n \in 0..s PROVE Issued(n)'
    <3>1. CASE n = s
      BY <3>1, <2>7
    <3>2. CASE n = 0
      BY <3>2 DEF Issued
    <3>3. CASE n # s /\ n # 0
      <4>1. s - 1 # 0 /\ n <= s - 1
        BY <2>1, <3>3
      <4>2. PICK d \in Cmd : seqOf[d] = s - 1
        BY <4>1, <2>2 DEF Issued
      <4>3. n \in 0..seqOf[d]
        BY <4>1, <4>2, <2>1
      <4> QED
        BY <4>3, <1>b, <2>6
    <3> QED
      BY <3>1, <3>2, <3>3
  <2>9. Gapless'
    <3>1. ASSUME NEW d \in Cmd, NEW n \in 0..seqOf'[d] PROVE Issued(n)'
      BY <2>5, <2>6, <2>8, <1>b, <3>1
    <3> QED
      BY <3>1
  <2>10. ASSUME seqCache # NoSeq PROVE Issued(seqCache)'
    <3>1. PICK n : n = seqCache
      OBVIOUS
    <3>2. Issued(n) \/ n = s
      BY <2>4, <2>10, <3>1
    <3>3. Issued(n)'
      BY <3>2, <2>6, <2>7
    <3> QED
      BY <2>3, <3>1, <3>3 DEF Issued
  <2>11. ASSUME NEW g \in Gen, At(g, "loading")' PROVE Issued(handler[g].loaded)'
    <3>1. PICK n : n = handler[g].loaded
      OBVIOUS
    <3>2. Issued(n)
      BY <1>b, <2>3, <2>11, <3>1 DEF At
    <3>3. Issued(n)'
      BY <3>2, <2>6
    <3> QED
      BY <2>3, <3>1, <3>3 DEF Issued
  <2> QED
    BY <2>3, <2>9, <2>10, <2>11 DEF NumbersInTurn, Issued
<1>2. CASE UNCHANGED seqOf
  <2>1. ASSUME NEW n PROVE Issued(n)' <=> Issued(n)
    BY <1>2 DEF Issued
  <2>2. Gapless'
    BY <1>2, <1>b DEF Issued
  <2>3. Readers'
    <3> SUFFICES ASSUME NEW g \in Gen, handler'[g].phase = "loading"
                 PROVE  Issued(handler[g].loaded)'
      BY DEF At
    <3>1. CASE handler'[g] = handler[g]
      BY <1>2, <1>b, <3>1 DEF At, Issued
    <3>2. CASE ReadSequence(g)
      <4>a. handler' # [handler EXCEPT ![g].phase = "check"]
        BY <1>a DEF Handler
      <4>1. PICK n \in {0} \cup {seqOf[c] : c \in Cmd} :
              handler' = [handler EXCEPT ![g].phase = "loading", ![g].loaded = n]
        BY <3>2, <4>a DEF ReadSequence
      <4>2. handler'[g].loaded = n
        BY <4>1, <1>a DEF Handler
      <4>3. Issued(n)
        BY StoredIsIssued
      <4> QED
        BY <1>2, <4>2, <4>3 DEF Issued
    <3> QED
      BY <3>1, <3>2, LoadingFrom
  <2>4. (Counter /\ Section)'
    <3>1. CASE UNCHANGED <<seqCache, alloc>>
      BY <1>2, <1>b, <3>1 DEF Issued
    <3>2. ASSUME NEW c \in Cmd, Allocate(c) PROVE (Counter /\ Section)'
      <4>1. CASE seqCache = NoSeq
        <5>1. alloc'.phase = "loading" /\ seqCache' = seqCache
          BY <3>2, <4>1 DEF Allocate
        <5> QED
          BY <4>1, <5>1
      <4>2. CASE seqCache # NoSeq
        <5>1. /\ alloc'.phase = "inserting" /\ alloc'.seq = seqCache + 1
              /\ seqCache' = seqCache + 1 /\ alloc.phase = "idle"
          BY <3>2, <4>2 DEF Allocate
        <5>2. Issued(seqCache) /\ seqCache \in Nat
          BY <1>a, <1>b, <4>2, <5>1
        <5>3. alloc'.seq > 0 /\ alloc'.seq - 1 = seqCache
          BY <5>1, <5>2
        <5> QED
          BY <1>2, <5>1, <5>2, <5>3 DEF Issued
      <4> QED
        BY <4>1, <4>2
    <3>3. CASE AllocateLoaded
      <4>1. PICK n \in {0} \cup {seqOf[c] : c \in Cmd} :
              /\ alloc' = [alloc EXCEPT !.phase = "inserting", !.seq = n + 1]
              /\ seqCache' = n + 1
        BY <3>3 DEF AllocateLoaded
      <4>2. n \in Nat /\ Issued(n)
        BY <1>a, StoredIsIssued
      <4>3. alloc'.phase = "inserting" /\ alloc'.seq = n + 1
        BY <4>1, <1>a DEF Allocation
      <4>4. alloc'.seq > 0 /\ alloc'.seq - 1 = n
        BY <4>2, <4>3
      <4> QED
        BY <1>2, <4>1, <4>2, <4>3, <4>4 DEF Issued
    <3>4. CASE InsertFails \/ GatewayRestart
      <4>1. alloc'.phase = "idle" /\ seqCache' = NoSeq
        BY <3>4 DEF InsertFails, GatewayRestart, Idle
      <4> QED
        BY <4>1
    <3>5. CASE Enqueue
      <4>1. alloc'.phase = "idle" /\ seqCache' = seqCache /\ alloc.phase = "inserted"
        BY <3>5 DEF Enqueue, Idle
      <4> QED
        BY <1>2, <1>b, <4>1 DEF Issued
    <3>6. CASE RevokeFinishes
      <4>1. alloc' = alloc /\ seqCache' = NoSeq
        BY <3>6 DEF RevokeFinishes, dispatchVars
      <4> QED
        BY <1>2, <1>b, <4>1 DEF Issued
    <3>7. ASSUME NEW g \in Gen, SetSequence(g) PROVE (Counter /\ Section)'
      <4>1. alloc' = alloc /\ seqCache' = handler[g].loaded /\ Issued(handler[g].loaded)
        BY <1>b, <3>7 DEF SetSequence, dispatchVars
      <4> QED
        BY <1>2, <1>b, <4>1 DEF Issued
    <3>8. MemoryStep => \/ UNCHANGED seqCache
                        \/ AllocateLoaded \/ InsertFails \/ GatewayRestart \/ RevokeFinishes
                        \/ (\E c \in Cmd : Allocate(c)) \/ (\E g \in Gen : SetSequence(g))
      BY DEF MemoryStep, Enqueue, SweepStale, RevokeCommits, DispatchFails, TimerFires,
         Settle, StreamClosed, memoVars
    <3>9. DispatchStep => \/ UNCHANGED alloc \/ InsertRow \/ Enqueue
                          \/ AllocateLoaded \/ InsertFails \/ GatewayRestart
                          \/ (\E c \in Cmd : Allocate(c))
      BY DEF DispatchStep, MarkDispatched, DispatchFails, TimerFires, TimeoutCommits, Settle
    <3>10. CASE InsertRow
      BY <3>10, <1>1, <1>b DEF NumbersInTurn
    <3> QED
      BY <3>1, <3>2, <3>3, <3>4, <3>5, <3>6, <3>7, <3>8, <3>9, <3>10, StepsByGroup
         DEF memoVars, dispatchVars
  <2> QED
    BY <2>2, <2>3, <2>4 DEF NumbersInTurn
<1>3. InsertRow \/ UNCHANGED seqOf
  <2>1. RowStep => InsertRow \/ UNCHANGED seqOf
    BY DEF RowStep, RevokeCommits, GatewayRestart, MarkDispatched, DispatchFails,
       TimeoutCommits, Authenticate, ReplayStep, TakeResult
  <2> QED
    BY <2>1, StepsByGroup DEF rowVars
<1> QED
  BY <1>1, <1>2, <1>3

\* An answer, once the caller has it, is never taken back or changed.
LEMMA AnswerIsFinal ==
  ASSUME TypeOK, AllocatedIsNew, [Next]_vars, NEW c \in Cmd,
         c \notin marking, told[c] \notin {"none", "waiting"}
  PROVE  c \notin marking' /\ told'[c] = told[c]
<1>a. told \in [Cmd -> Told] /\ marking \in SUBSET Cmd
  BY DEF TypeOK, DispatchTypes
<1>b. alloc.cmd # c
  BY NoCmdAssumption DEF AllocatedIsNew, Idle
<1>1. CASE InsertFails \/ Enqueue
  <2>1. \/ told' = [told EXCEPT ![alloc.cmd] = "error"]
        \/ told' = [told EXCEPT ![alloc.cmd] = "waiting"]
    BY <1>1 DEF InsertFails, Enqueue
  <2>2. marking' \subseteq marking \cup {alloc.cmd}
    BY <1>1 DEF InsertFails, Enqueue
  <2> QED
    BY <2>1, <2>2, <1>a, <1>b
<1>2. CASE AllocateLoaded \/ InsertRow
  BY <1>2 DEF AllocateLoaded, InsertRow
<1>3. CASE GatewayRestart
  BY <1>3, <1>b DEF GatewayRestart
<1>4. ASSUME NEW d \in Cmd, \/ Allocate(d) \/ MarkDispatched(d) \/ DispatchFails(d)
                            \/ TimerFires(d) \/ TimeoutCommits(d)
      PROVE  c \notin marking' /\ told'[c] = told[c]
  BY <1>4, <1>a DEF Allocate, MarkDispatched, DispatchFails, TimerFires, TimeoutCommits
<1>5. ASSUME NEW g \in Gen, Settle(g) PROVE c \notin marking' /\ told'[c] = told[c]
  BY <1>5, <1>a DEF Settle
<1> QED
  BY <1>1, <1>2, <1>3, <1>4, <1>5, StepsByGroup DEF DispatchStep, dispatchVars

\* Which commands ran changes only when the worker takes one.
LEMMA RanChanges ==
  ASSUME [Next]_vars PROVE ran' = ran \/ HandOff
BY DaemonActsOnly DEF DaemonActs, daemonVars, DaemonNext, Connect, Receive,
   PersistHead, DaemonDrops, Finish

LEMMA NumbersChange ==
  ASSUME [Next]_vars PROVE seqOf' = seqOf \/ InsertRow
<1>1. RowStep => InsertRow \/ seqOf' = seqOf
  BY DEF RowStep, RevokeCommits, GatewayRestart, MarkDispatched, DispatchFails,
     TimeoutCommits, Authenticate, ReplayStep, TakeResult
<1> QED
  BY <1>1, StepsByGroup DEF rowVars

\* Every step is an issue, a run, an answer, or no step of the promise.
LEMMA PromiseStep ==
  ASSUME DeliveryInv, DeliveryInv', [Next]_vars
  PROVE  [Promise!Next]_(Promise!promise)
<1>a. /\ seqOf \in [Cmd -> Nat] /\ ran \in [Cmd -> Nat] /\ queue \in Seq(Cmd)
      /\ ran' \in [Cmd -> Nat] /\ told' \in [Cmd -> Told]
  BY DEF DeliveryInv, ChannelInv, TypeOK, RowTypes, DaemonTypes, DispatchTypes
<1> USE DEF DeliveryInv
<1>1. CASE InsertRow
  <2>1. /\ alloc.cmd \in Cmd /\ seqOf[alloc.cmd] = 0 /\ alloc.seq \in Nat \ {0}
        /\ seqOf' = [seqOf EXCEPT ![alloc.cmd] = alloc.seq]
        /\ \A d \in Cmd : seqOf[d] < alloc.seq
    BY <1>1, InsertInTurn DEF ChannelInv
  <2>2. UNCHANGED <<ran, told, marking>>
    BY <1>1 DEF InsertRow, daemonVars
  <2>3. [c \in Cmd |-> AnswerOf(c)]' = [c \in Cmd |-> AnswerOf(c)]
    BY <2>2 DEF AnswerOf
  <2>4. Promise!Issue(alloc.cmd)
    BY <2>1, <2>2, <2>3, <1>a DEF Promise!Issue
  <2> QED
    BY <2>1, <2>4 DEF Promise!Next
<1>2. CASE HandOff
  <2> DEFINE c == Head(queue)
  <2>1. queue # <<>> /\ c = queue[1] /\ 1 \in 1..Len(queue) /\ c \in Cmd
    BY <1>2, <1>a, EmptySeq DEF HandOff
  <2>2. seqOf[c] > 0 /\ \A d \in Cmd : ran[d] > 0 => seqOf[d] < seqOf[c]
    BY <2>1, <1>a DEF ChannelInv, QueueAscends, RanIsPersisted
  <2>3. ran' = [ran EXCEPT ![c] = ran[c] + 1] /\ UNCHANGED <<seqOf, told, marking>>
    BY <1>2 DEF HandOff, gatewayVars, rowVars, dispatchVars
  <2> HIDE DEF c
  <2>4. ran[c] = 0 /\ ran' = [ran EXCEPT ![c] = 1]
    <3>1. ran[c] \in Nat /\ seqOf[c] \in Nat /\ c \in Cmd
      BY <2>1, <1>a
    <3>2. ran[c] > 0 => seqOf[c] < seqOf[c]
      BY <2>2, <3>1
    <3>3. ran[c] = 0
      BY <3>1, <3>2
    <3>4. ran[c] + 1 = 1
      BY <3>3
    <3> QED
      BY <3>3, <3>4, <2>3
  <2>5. [d \in Cmd |-> AnswerOf(d)]' = [d \in Cmd |-> AnswerOf(d)]
    BY <2>3 DEF AnswerOf
  <2>6. Promise!Run(c)
    BY <2>1, <2>2, <2>3, <2>4, <2>5 DEF Promise!Run
  <2> QED
    BY <2>1, <2>6 DEF Promise!Next
<1>3. CASE seqOf' = seqOf /\ ran' = ran
  <2> DEFINE answer == [c \in Cmd |-> AnswerOf(c)]
  <2>1. ASSUME NEW c \in Cmd, AnswerOf(c)' # AnswerOf(c)
        PROVE  /\ AnswerOf(c) = "none" /\ AnswerOf(c)' \in Promise!Answers
               /\ AnswerOf(c)' = "ok" => ran[c] = 1
    <3>1. AnswerOf(c) = "none"
      <4>1. CASE c \notin marking /\ told[c] \notin {"none", "waiting"}
        BY <2>1, <4>1, AnswerIsFinal DEF ChannelInv, OutboxInv, AnswerOf
      <4>2. CASE ~(c \notin marking /\ told[c] \notin {"none", "waiting"})
        BY <4>2 DEF AnswerOf
      <4> QED
        BY <4>1, <4>2
    <3>2. AnswerOf(c)' = told'[c] /\ told'[c] \in Promise!Answers
      BY <2>1, <3>1, <1>a DEF AnswerOf, Told, Promise!Answers
    <3>3. told'[c] = "ok" => ran[c] = 1
      <4>1. told'[c] = "ok" => ran[c] > 0
        BY <1>3 DEF SuccessInv, SuccessMeansRan
      <4>2. ran[c] <= 1
        BY DEF ChannelInv, AtMostOnce
      <4> QED
        BY <4>1, <4>2, <1>a
    <3> QED
      BY <3>1, <3>2, <3>3
  <2>2. \A c \in Cmd : answer[c] = AnswerOf(c) /\ answer'[c] = AnswerOf(c)'
    OBVIOUS
  <2>3. CASE \A c \in Cmd : AnswerOf(c)' = AnswerOf(c)
    <3>1. answer' = answer
      BY <2>3
    <3> QED
      BY <1>3, <3>1 DEF Promise!promise
  <2>4. CASE \E c \in Cmd : AnswerOf(c)' # AnswerOf(c)
    <3>1. DOMAIN answer' = Cmd
      OBVIOUS
    <3> HIDE DEF answer
    <3>2. {c \in Cmd : answer'[c] # answer[c]} # {}
      BY <2>2, <2>4
    <3>3. \A c \in {d \in Cmd : answer'[d] # answer[d]} :
            /\ answer[c] = "none" /\ answer'[c] \in Promise!Answers
            /\ answer'[c] = "ok" => ran[c] = 1
      BY <2>1, <2>2
    <3>4. Promise!Answer
      BY <1>3, <3>1, <3>2, <3>3 DEF Promise!Answer, answer
    <3> QED
      BY <3>4 DEF Promise!Next
  <2> QED
    BY <2>3, <2>4
<1> QED
  BY <1>1, <1>2, <1>3, RanChanges, NumbersChange

\* Everything the delivery of a command rests on, together.
THEOREM DeliveryInvariant == Spec => []DeliveryInv
<1>1. Init => NumbersInTurn
  <2> SUFFICES ASSUME Init PROVE NumbersInTurn
    OBVIOUS
  <2>1. alloc.phase = "idle" /\ seqCache = NoSeq
    BY DEF Init, Idle
  <2>2. \A g \in Gen : handler[g].phase = "unused"
    BY HandlerValues DEF Init
  <2>3. \A c \in Cmd : \A n \in 0..seqOf[c] : n = 0
    BY DEF Init
  <2> QED
    BY <2>1, <2>2, <2>3 DEF NumbersInTurn, Issued, At
<1>2. (ChannelInv /\ NumbersInTurn) /\ [Next]_vars /\ ChannelInv' => NumbersInTurn'
  BY InTurnStep DEF ChannelInv
<1>3. ChannelInv /\ (TypeOK /\ SuccessInv) /\ (TypeOK /\ OutboxInv) /\ NumbersInTurn
        => DeliveryInv
  BY DEF DeliveryInv
<1> QED
  BY <1>1, <1>2, <1>3, ChannelInvariant, SuccessInvariant, OutboxInvariant, PTL DEF Spec

\* The gateway, the stream and the daemon keep the promise of CommandDelivery:
\* numbers ascend and are never reissued, a command runs at most once and in that
\* order, and a caller gets one answer, which is "ok" only for a command that ran.
THEOREM DeliversOnceHolds == Spec => DeliversOnce
<1>1. Init => Promise!Init
  <2> SUFFICES ASSUME Init PROVE Promise!Init
    OBVIOUS
  <2>1. \A c \in Cmd : AnswerOf(c) = "none"
    BY DEF Init, AnswerOf
  <2> QED
    BY <2>1 DEF Init, Promise!Init
<1>2. DeliveryInv /\ DeliveryInv' /\ [Next]_vars => [Promise!Next]_(Promise!promise)
  BY PromiseStep
<1> QED
  BY <1>1, <1>2, DeliveryInvariant, PTL DEF Spec, DeliversOnce, Promise!Spec
============================================================================
