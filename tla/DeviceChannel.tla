--------------------------- MODULE DeviceChannel ---------------------------
(***************************************************************************)
(* One device, the gateway that commands it and the stream between them.   *)
(*                                                                         *)
(* The gateway (api/src/server/grpc.ts) numbers the commands of a device,  *)
(* stores each as a row, keeps the unanswered ones in an in-memory outbox  *)
(* and replays that outbox when the device reconnects.  The daemon         *)
(* (cli/internal/device/daemon.go) persists the sequence number of a       *)
(* command before running it and never runs a number twice.                *)
(*                                                                         *)
(* An action is one stretch of code between two awaits (gateway) or one    *)
(* turn of the select loop (daemon).  Streams are numbered by generation   *)
(* in the order the device opens them.                                     *)
(***************************************************************************)
EXTENDS Integers, Sequences, FiniteSets

CONSTANTS
  Cmd,          \* command ids (crypto.randomUUID in dispatchDeviceTool)
  NoCmd,        \* "no command"
  OutboxLimit,  \* OUTBOX_LIMIT, 100 in the code
  MaxPending,   \* maxPendingCommands of the daemon, 100 in the code
  Timed,        \* bound: commands whose timer runs out before an answer
  MaxGen,       \* bound: connections the device opens
  MaxRestarts,  \* bound: gateway processes that die
  MaxRevokes,   \* bound: revocations by an operator
  MaxDbFaults   \* bound: database statements that fail

ASSUME NoCmdAssumption == NoCmd \notin Cmd
ASSUME LimitAssumption ==
  /\ OutboxLimit \in Nat \ {0}
  /\ MaxPending \in Nat \ {0}
ASSUME BoundAssumption ==
  /\ Timed \in SUBSET Cmd
  /\ MaxGen \in Nat
  /\ MaxRestarts \in Nat
  /\ MaxRevokes \in Nat
  /\ MaxDbFaults \in Nat

Gen == 1..MaxGen
NoGen == 0
NoSeq == -1     \* the device has no entry in `sequences`

InFlight == {"pending", "dispatched"}
Terminal == {"succeeded", "failed", "timed_out", "indeterminate"}
Status == {"absent"} \cup InFlight \cup Terminal

\* What the caller of dispatchDeviceTool has been told.
Told == {"none", "waiting", "ok", "error", "timed_out", "lost"}

\* Where a stream's serial inbound handler stands (createInboundQueue awaits
\* one message before it takes the next).
Phase == {"unused", "hello", "authed", "loading", "check", "admitted",
          "replaying", "serving", "settling", "stopped"}
Handler == [phase : Phase, lastSeen : Nat, token : BOOLEAN, loaded : Nat,
            replay : SUBSET Cmd, cmd : Cmd \cup {NoCmd}, ok : BOOLEAN]
AllocPhase == {"idle", "loading", "inserting", "inserted"}
Allocation == [phase : AllocPhase, cmd : Cmd \cup {NoCmd}, seq : Nat]
Result == [cmd : Cmd, status : {"succeeded", "failed", "indeterminate"}]

VARIABLES
  row,         \* device_commands.status of each command
  seqOf,       \* device_commands.sequence, 0 before the insert
  revoked,     \* devices.revoked_at is set
  seqCache,    \* sequences.get(deviceId)
  outbox,      \* outboxes.get(deviceId); the array is in sequence order
  told,        \* the promise of each dispatch
  alloc,       \* the critical section of withDeviceSequence
  marking,     \* dispatches awaiting their "dispatched" update
  timingOut,   \* expired timers whose update has not committed
  conn,        \* generation in devices.get(deviceId), or NoGen
  handler,     \* the inbound handler of each stream
  ended,       \* streams the gateway ended or destroyed
  closed,      \* streams whose end/close event the gateway has handled
  up,          \* results the gateway has not taken from a stream yet
  revoking,    \* revokeDevice awaits its update
  dropped,     \* history: commands a revocation discarded from the outbox
  crowded,     \* history: the outbox was over its limit, and lost its oldest
  down,        \* commands on the device's current stream
  dGen,        \* the daemon's current stream, or NoGen
  dSeq,        \* lastSeenSequence of device.json
  accepted,    \* highest sequence this connection accepted
  queue,       \* the daemon's in-memory `pending`
  running,     \* the command the worker goroutine executes
  taken,       \* history: commands that entered the daemon's queue
  ran,         \* history: how often each command was handed to the worker
  gens, restarts, revokes, dbFaults    \* counts for the bounds

rowVars == <<row, seqOf, revoked>>
memoVars == <<seqCache, outbox>>
dispatchVars == <<told, alloc, marking, timingOut>>
streamVars == <<conn, handler, ended, closed, up>>
discardVars == <<revoking, dropped, crowded>>
gatewayVars == <<memoVars, dispatchVars, streamVars, discardVars>>
daemonVars == <<dGen, dSeq, accepted, queue, running, taken, ran>>
countVars == <<gens, restarts, revokes, dbFaults>>
vars == <<rowVars, gatewayVars, down, daemonVars, countVars>>

-----------------------------------------------------------------------------
(* Helpers *)

Idle == [phase |-> "idle", cmd |-> NoCmd, seq |-> 0]
Unused == [phase |-> "unused", lastSeen |-> 0, token |-> FALSE, loaded |-> 0,
           replay |-> {}, cmd |-> NoCmd, ok |-> FALSE]
Serving == [Unused EXCEPT !.phase = "serving"]
Stopped == [Unused EXCEPT !.phase = "stopped"]

\* loadSequence: the largest sequence stored for the device, or 0.
StoredSequence(n) ==
  /\ n \in {0} \cup {seqOf[c] : c \in Cmd}
  /\ \A c \in Cmd : seqOf[c] <= n

\* device_commands_seq_idx: (device_id, sequence) is unique.
AnySequence(n) == TRUE
SequenceFree(n) == \A c \in Cmd : seqOf[c] # n

\* The first command of a set in sequence order.
Oldest(S, c) == c \in S /\ \A d \in S : seqOf[c] <= seqOf[d]

\* outbox.push, dropping the oldest beyond the limit.
Full(c) == Cardinality(outbox \cup {c}) > OutboxLimit
Pushed(c) ==
  IF Full(c)
    THEN {d \in outbox \cup {c} : ~Oldest(outbox \cup {c}, d)}
    ELSE outbox \cup {c}

\* removeFromOutbox
Unqueued(c) == outbox \ {c}

\* A write to a stream the gateway ended, or the device left, goes nowhere.
Write(g, c) ==
  down' = IF g = dGen /\ g \notin ended THEN Append(down, c) ELSE down

\* WHERE status IN ('pending', 'dispatched')
DispatchedOnly(c) == row[c] = "dispatched"
Concludable(c) == row[c] \in InFlight
Conclude(c, s) == row' = IF Concludable(c) THEN [row EXCEPT ![c] = s] ELSE row

\* UPDATE device_commands SET status = 'dispatched' WHERE status = 'pending'.
MarkedDispatched(c) ==
  IF row[c] = "pending" THEN [row EXCEPT ![c] = "dispatched"] ELSE row

Init ==
  /\ row = [c \in Cmd |-> "absent"]
  /\ seqOf = [c \in Cmd |-> 0]
  /\ revoked = FALSE
  /\ seqCache = NoSeq
  /\ outbox = {}
  /\ told = [c \in Cmd |-> "none"]
  /\ alloc = Idle
  /\ marking = {}
  /\ timingOut = {}
  /\ conn = NoGen
  /\ handler = [g \in Gen |-> Unused]
  /\ ended = {} /\ closed = {}
  /\ up = [g \in Gen |-> <<>>]
  /\ revoking = FALSE
  /\ dropped = {} /\ crowded = FALSE
  /\ down = <<>>
  /\ dGen = NoGen
  /\ dSeq = 0
  /\ accepted = 0
  /\ queue = <<>>
  /\ running = NoCmd
  /\ taken = {}
  /\ ran = [c \in Cmd |-> 0]
  /\ gens = 0 /\ restarts = 0 /\ revokes = 0 /\ dbFaults = 0

-----------------------------------------------------------------------------
(* Gateway: dispatchDeviceTool.  Dispatches of one device are chained by    *)
(* withDeviceSequence, so at most one is between Allocate and Enqueue.      *)

Allocate(c) ==
  /\ alloc.phase = "idle"
  /\ told[c] = "none" /\ row[c] = "absent"
  /\ IF seqCache = NoSeq
       THEN /\ alloc' = [phase |-> "loading", cmd |-> c, seq |-> 0]
            /\ UNCHANGED seqCache
       ELSE /\ alloc' = [phase |-> "inserting", cmd |-> c, seq |-> seqCache + 1]
            /\ seqCache' = seqCache + 1
  /\ UNCHANGED <<outbox, told, marking, timingOut, down, rowVars, streamVars,
                 discardVars, daemonVars, countVars>>

AllocateLoaded ==
  /\ alloc.phase = "loading"
  /\ \E n \in {0} \cup {seqOf[c] : c \in Cmd} :
       /\ StoredSequence(n)
       /\ alloc' = [alloc EXCEPT !.phase = "inserting", !.seq = n + 1]
       /\ seqCache' = n + 1
  /\ UNCHANGED <<outbox, told, marking, timingOut, down, rowVars, streamVars,
                 discardVars, daemonVars, countVars>>

\* The row commits.
InsertRow ==
  /\ alloc.phase = "inserting"
  /\ SequenceFree(alloc.seq)
  /\ row' = [row EXCEPT ![alloc.cmd] = "pending"]
  /\ seqOf' = [seqOf EXCEPT ![alloc.cmd] = alloc.seq]
  /\ alloc' = [alloc EXCEPT !.phase = "inserted"]
  /\ UNCHANGED <<revoked, told, marking, timingOut, down, memoVars,
                 streamVars, discardVars, daemonVars, countVars>>

\* The insert is refused: the number is taken, or the database fails.
InsertFails ==
  /\ alloc.phase = "inserting"
  /\ IF SequenceFree(alloc.seq)
       THEN dbFaults < MaxDbFaults /\ dbFaults' = dbFaults + 1
       ELSE UNCHANGED dbFaults
  /\ seqCache' = NoSeq
  /\ told' = [told EXCEPT ![alloc.cmd] = "error"]
  /\ alloc' = Idle
  /\ UNCHANGED <<outbox, marking, timingOut, down, gens, restarts, revokes,
                 rowVars, streamVars, discardVars, daemonVars>>

\* The insert returns: outbox push, timer, and the write if a stream is open.
Enqueue ==
  /\ alloc.phase = "inserted"
  /\ LET c == alloc.cmd IN
       /\ outbox' = Pushed(c)
       /\ crowded' = (crowded \/ Full(c))
       /\ told' = [told EXCEPT ![c] = "waiting"]
       /\ IF conn # NoGen
            THEN Write(conn, c) /\ marking' = marking \cup {c}
            ELSE UNCHANGED <<down, marking>>
  /\ alloc' = Idle
  /\ UNCHANGED <<seqCache, timingOut, revoking, dropped, rowVars, streamVars,
                 daemonVars, countVars>>

MarkDispatched(c) ==
  /\ c \in marking
  /\ marking' = marking \ {c}
  /\ row' = MarkedDispatched(c)
  /\ UNCHANGED <<seqOf, revoked, told, alloc, timingOut, down, memoVars,
                 streamVars, discardVars, daemonVars, countVars>>

\* The catch block: the row is set to failed whatever it holds by now.
DispatchFails(c) ==
  /\ c \in marking
  /\ dbFaults < MaxDbFaults /\ dbFaults' = dbFaults + 1
  /\ marking' = marking \ {c}
  /\ outbox' = Unqueued(c)
  /\ told' = [told EXCEPT ![c] = "error"]
  /\ row' = [row EXCEPT ![c] = "failed"]
  /\ UNCHANGED <<seqOf, revoked, seqCache, alloc, timingOut, down, gens,
                 restarts, revokes, streamVars, discardVars, daemonVars>>

\* The command's timer fires; its update commits later.
TimerFires(c) ==
  /\ c \in Timed
  /\ told[c] = "waiting"
  /\ told' = [told EXCEPT ![c] = "timed_out"]
  /\ outbox' = Unqueued(c)
  /\ timingOut' = timingOut \cup {c}
  /\ UNCHANGED <<seqCache, alloc, marking, down, rowVars, streamVars,
                 discardVars, daemonVars, countVars>>

TimeoutCommits(c) ==
  /\ c \in timingOut
  /\ timingOut' = timingOut \ {c}
  /\ Conclude(c, "timed_out")
  /\ UNCHANGED <<seqOf, revoked, told, alloc, marking, down, memoVars,
                 streamVars, discardVars, daemonVars, countVars>>

-----------------------------------------------------------------------------
(* Gateway: registerDevice, one action per stretch between its awaits.      *)

At(g, phase) == handler[g].phase = phase

\* The first handler error destroys the stream (createInboundQueue).
Refuse(g) ==
  /\ handler' = [handler EXCEPT ![g] = Stopped]
  /\ ended' = ended \cup {g}

\* A revoked device is refused; spending a fresh token clears the revocation.
Authenticate(g) ==
  /\ At(g, "hello")
  /\ IF revoked /\ ~handler[g].token
       THEN Refuse(g) /\ UNCHANGED revoked
       ELSE /\ handler' = [handler EXCEPT ![g].phase = "authed"]
            /\ revoked' = FALSE
            /\ UNCHANGED ended
  /\ UNCHANGED <<row, seqOf, conn, closed, up, down, memoVars, dispatchVars,
                 discardVars, daemonVars, countVars>>

\* if (!this.sequences.has(deviceId)): the value read here is set later.
ReadSequence(g) ==
  /\ At(g, "authed")
  /\ IF seqCache = NoSeq
       THEN \E n \in {0} \cup {seqOf[c] : c \in Cmd} :
              /\ StoredSequence(n)
              /\ handler' = [handler EXCEPT ![g].phase = "loading", ![g].loaded = n]
       ELSE handler' = [handler EXCEPT ![g].phase = "check"]
  /\ UNCHANGED <<conn, ended, closed, up, down, rowVars, memoVars,
                 dispatchVars, discardVars, daemonVars, countVars>>

SetSequence(g) ==
  /\ At(g, "loading")
  /\ seqCache' = handler[g].loaded
  /\ handler' = [handler EXCEPT ![g].phase = "check"]
  /\ UNCHANGED <<outbox, conn, ended, closed, up, down, rowVars,
                 dispatchVars, discardVars, daemonVars, countVars>>

\* stillAuthorized
CheckRevoked(g) ==
  /\ At(g, "check")
  /\ IF revoked
       THEN Refuse(g)
       ELSE handler' = [handler EXCEPT ![g].phase = "admitted"] /\ UNCHANGED ended
  /\ UNCHANGED <<conn, closed, up, down, rowVars, memoVars, dispatchVars,
                 discardVars, daemonVars, countVars>>

\* Take the next command of the replay snapshot S and write it.
ReplayNext(g, S) ==
  \/ /\ S = {}
     /\ handler' = [handler EXCEPT ![g] = Serving]
     /\ UNCHANGED down
  \/ \E c \in S :
       /\ Oldest(S, c)
       /\ handler' = [handler EXCEPT ![g].phase = "replaying", ![g].replay = S,
                                     ![g].cmd = c]
       /\ Write(g, c)

\* The old stream is ended, this one is published, and the first replayed
\* command is written without an await in between.
Activate(g) ==
  /\ At(g, "admitted")
  /\ ended' = IF conn = NoGen THEN ended ELSE ended \cup {conn}
  /\ conn' = g
  /\ ReplayNext(g, {c \in outbox : seqOf[c] > handler[g].lastSeen})
  /\ UNCHANGED <<closed, up, rowVars, memoVars, dispatchVars, discardVars,
                 daemonVars, countVars>>

\* The awaited update of the command just replayed, then the next write.
ReplayStep(g) ==
  /\ At(g, "replaying")
  /\ row' = MarkedDispatched(handler[g].cmd)
  /\ ReplayNext(g, handler[g].replay \ {handler[g].cmd})
  /\ UNCHANGED <<seqOf, revoked, conn, ended, closed, up, memoVars,
                 dispatchVars, discardVars, daemonVars, countVars>>

-----------------------------------------------------------------------------
(* Gateway: the messages and the end of a stream.                           *)

\* A result whose stream is no longer the device's is ignored; completeCommand
\* only concludes a row that is in flight.
TakeResult(g) ==
  /\ At(g, "serving") /\ up[g] # <<>>
  /\ up' = [up EXCEPT ![g] = Tail(@)]
  /\ LET r == Head(up[g]) IN
       IF conn = g /\ Concludable(r.cmd)
         THEN /\ Conclude(r.cmd, r.status)
              /\ handler' = [handler EXCEPT ![g].phase = "settling",
                                            ![g].cmd = r.cmd,
                                            ![g].ok = (r.status = "succeeded")]
         ELSE UNCHANGED <<row, handler>>
  /\ UNCHANGED <<seqOf, revoked, conn, ended, closed, down, memoVars,
                 dispatchVars, discardVars, daemonVars, countVars>>

\* The update returns: leave the outbox and settle the promise still waiting.
Settle(g) ==
  /\ At(g, "settling")
  /\ LET c == handler[g].cmd IN
       /\ outbox' = Unqueued(c)
       /\ told' = IF told[c] = "waiting"
                    THEN [told EXCEPT ![c] = IF handler[g].ok THEN "ok" ELSE "error"]
                    ELSE told
  /\ handler' = [handler EXCEPT ![g] = Serving]
  /\ UNCHANGED <<seqCache, alloc, marking, timingOut, conn, ended, closed,
                 up, down, rowVars, discardVars, daemonVars, countVars>>

\* A statement of the handler throws: the stream is destroyed.
HandlerFails(g) ==
  /\ handler[g].phase \in {"hello", "authed", "check", "admitted", "replaying",
                          "serving"}
  /\ (At(g, "serving") => (up[g] # <<>> /\ conn = g))
  /\ dbFaults < MaxDbFaults /\ dbFaults' = dbFaults + 1
  /\ Refuse(g)
  /\ UNCHANGED <<conn, closed, up, down, gens, restarts, revokes, rowVars,
                 memoVars, dispatchVars, discardVars, daemonVars>>

\* disconnectDevice keeps the outbox: it is what the replay reads.
OutboxCleared == {}
OutboxAfterDisconnect == outbox

\* disconnectDevice on "end"/"close".
StreamClosed(g) ==
  /\ ~At(g, "unused") /\ g \notin closed
  /\ g # dGen \/ g \in ended
  /\ closed' = closed \cup {g}
  /\ conn' = IF conn = g THEN NoGen ELSE conn
  /\ up' = [up EXCEPT ![g] = <<>>]
  /\ outbox' = OutboxAfterDisconnect
  /\ UNCHANGED <<handler, ended, down, seqCache, rowVars, dispatchVars,
                 discardVars, daemonVars, countVars>>

\* sweep(): a stream silent for STALE_MS is ended and forgotten.
SweepStale ==
  /\ conn # NoGen
  /\ ended' = ended \cup {conn}
  /\ conn' = NoGen
  /\ outbox' = OutboxAfterDisconnect
  /\ UNCHANGED <<handler, closed, up, down, seqCache, rowVars, dispatchVars,
                 discardVars, daemonVars, countVars>>

RevokeCommits ==
  /\ ~revoking /\ revokes < MaxRevokes
  /\ revokes' = revokes + 1
  /\ revoked' = TRUE
  /\ revoking' = TRUE
  /\ UNCHANGED <<row, seqOf, dropped, crowded, down, gens, restarts, dbFaults,
                 memoVars, dispatchVars, streamVars, daemonVars>>

\* this.outboxes.delete(deviceId)
OutboxKept == outbox
OutboxAfterRevoke == {}

RevokeFinishes ==
  /\ revoking /\ revoking' = FALSE
  /\ outbox' = OutboxAfterRevoke /\ seqCache' = NoSeq
  /\ dropped' = dropped \cup outbox
  /\ conn' = NoGen
  /\ ended' = IF conn = NoGen THEN ended ELSE ended \cup {conn}
  /\ UNCHANGED <<handler, closed, up, down, crowded, rowVars, dispatchVars,
                 daemonVars, countVars>>

\* The process dies and a new one starts.  reconcileOrphans times out the rows
\* in flight that are older than RUN_LEASE_MS; the others are left as they are.
GatewayRestart ==
  /\ restarts < MaxRestarts /\ restarts' = restarts + 1
  /\ \E old \in SUBSET {c \in Cmd : row[c] \in InFlight} :
       row' = [c \in Cmd |-> IF c \in old THEN "timed_out" ELSE row[c]]
  /\ seqCache' = NoSeq /\ outbox' = {} /\ alloc' = Idle
  /\ told' = [c \in Cmd |-> IF told[c] = "waiting" \/ c \in marking \/ c = alloc.cmd
                              THEN "lost" ELSE told[c]]
  /\ marking' = {} /\ timingOut' = {} /\ conn' = NoGen /\ revoking' = FALSE
  /\ handler' = [g \in Gen |-> IF At(g, "unused") THEN Unused
                                 ELSE Stopped]
  /\ ended' = {g \in Gen : ~At(g, "unused")}
  /\ closed' = ended'
  /\ up' = [g \in Gen |-> <<>>]
  /\ UNCHANGED <<seqOf, revoked, dropped, crowded, down, gens, revokes, dbFaults,
                 daemonVars>>

-----------------------------------------------------------------------------
(* Daemon: RunDaemon and serveConnection.                                   *)

\* The head of the queue is persisted before the loop reaches its select.
NothingPersisted == TRUE
HeadPersisted == queue # <<>> => seqOf[Head(queue)] <= dSeq

Connect(token) ==
  /\ dGen = NoGen /\ gens < MaxGen
  /\ token => revoked
  /\ gens' = gens + 1
  /\ dGen' = gens + 1
  /\ handler' = [handler EXCEPT ![gens + 1] =
                   [Unused EXCEPT !.phase = "hello", !.lastSeen = dSeq,
                                  !.token = token]]
  /\ accepted' = dSeq
  /\ down' = <<>>
  /\ UNCHANGED <<taken, conn, ended, closed, up, dSeq, queue, running, ran,
                 restarts, revokes, dbFaults, rowVars, memoVars,
                 dispatchVars, discardVars>>

\* command.Sequence <= accepted
DuplicateOfLast(c) == seqOf[c] = accepted
Duplicate(c) == seqOf[c] <= accepted

\* commandStatusIndeterminate: the outcome of a duplicate is not known.
DuplicateSucceeds == "succeeded"
DuplicateStatus == "indeterminate"

\* The results of the daemon go to its stream until the gateway closed it.
Send(c, s) ==
  up' = IF dGen \in closed THEN up
        ELSE [up EXCEPT ![dGen] = Append(@, [cmd |-> c, status |-> s])]

Receive ==
  /\ dGen # NoGen /\ HeadPersisted /\ down # <<>>
  /\ down' = Tail(down)
  /\ LET c == Head(down) IN
       \/ /\ Duplicate(c)                                  \* duplicateAck
          /\ Send(c, DuplicateStatus)
          /\ UNCHANGED <<accepted, queue, taken>>
       \/ /\ ~Duplicate(c) /\ Len(queue) >= MaxPending    \* rejectedCommand
          /\ Send(c, "failed")
          /\ UNCHANGED <<accepted, queue, taken>>
       \/ /\ ~Duplicate(c) /\ Len(queue) < MaxPending
          /\ accepted' = seqOf[c]
          /\ queue' = Append(queue, c)
          /\ taken' = taken \cup {c}
          /\ UNCHANGED up
  /\ UNCHANGED <<conn, handler, ended, closed, dGen, dSeq, running, ran,
                 rowVars, memoVars, dispatchVars, discardVars, countVars>>

\* saveSequence, as soon as a command is first in the queue.
PersistHead ==
  /\ dGen # NoGen /\ ~HeadPersisted
  /\ dSeq' = seqOf[Head(queue)]
  /\ UNCHANGED <<taken, down, dGen, accepted, queue, running, ran,
                 gatewayVars, rowVars, countVars>>

\* jobOut <- next: the worker goroutine is free.
HandOff ==
  /\ dGen # NoGen /\ queue # <<>> /\ HeadPersisted /\ running = NoCmd
  /\ running' = Head(queue)
  /\ queue' = Tail(queue)
  /\ ran' = [ran EXCEPT ![Head(queue)] = @ + 1]
  /\ UNCHANGED <<taken, down, dGen, dSeq, accepted, gatewayVars, rowVars,
                 countVars>>

Finish(s) ==
  /\ dGen # NoGen /\ HeadPersisted /\ running # NoCmd
  /\ Send(running, s)
  /\ running' = NoCmd
  /\ UNCHANGED <<taken, conn, handler, ended, closed, down, dGen, dSeq,
                 accepted, queue, ran, rowVars, memoVars, dispatchVars,
                 discardVars, countVars>>

\* The stream fails, the daemon's watchdog fires, saveSequence fails or the
\* machine loses power: everything but device.json is gone.
DaemonDrops ==
  /\ dGen # NoGen
  /\ dGen' = NoGen
  /\ down' = <<>> /\ queue' = <<>> /\ running' = NoCmd
  /\ accepted' = dSeq
  /\ UNCHANGED <<taken, dSeq, ran, gatewayVars, rowVars, countVars>>

-----------------------------------------------------------------------------
DispatchNext ==
  \/ AllocateLoaded \/ InsertRow \/ InsertFails \/ Enqueue
  \/ \E c \in Cmd : \/ Allocate(c) \/ MarkDispatched(c) \/ DispatchFails(c)
                    \/ TimerFires(c) \/ TimeoutCommits(c)

StreamNext ==
  \E g \in Gen : \/ Authenticate(g) \/ ReadSequence(g) \/ SetSequence(g)
                 \/ CheckRevoked(g) \/ Activate(g) \/ ReplayStep(g)
                 \/ TakeResult(g) \/ Settle(g) \/ HandlerFails(g)
                 \/ StreamClosed(g)

DaemonNext ==
  \/ \E token \in BOOLEAN : Connect(token)
  \/ Receive \/ PersistHead \/ HandOff \/ DaemonDrops
  \/ \E s \in {"succeeded", "failed"} : Finish(s)

Next ==
  \/ DispatchNext \/ StreamNext \/ DaemonNext
  \/ SweepStale \/ RevokeCommits \/ RevokeFinishes \/ GatewayRestart

Spec == Init /\ [][Next]_vars

\* Node runs the continuation of every settled statement and every due timer.
Fairness ==
  /\ WF_vars(AllocateLoaded) /\ WF_vars(InsertRow \/ InsertFails) /\ WF_vars(Enqueue)
  /\ \A c \in Cmd : WF_vars(TimerFires(c)) /\ WF_vars(TimeoutCommits(c))
  /\ \A g \in Gen : WF_vars(Settle(g))
FairSpec == Spec /\ Fairness

-----------------------------------------------------------------------------
(* Properties                                                               *)

RowTypes ==
  /\ row \in [Cmd -> Status] /\ seqOf \in [Cmd -> Nat] /\ revoked \in BOOLEAN
MemoryTypes ==
  /\ seqCache \in Nat \cup {NoSeq} /\ outbox \in SUBSET Cmd
  /\ revoking \in BOOLEAN /\ dropped \in SUBSET Cmd /\ crowded \in BOOLEAN
DispatchTypes ==
  /\ told \in [Cmd -> Told] /\ alloc \in Allocation
  /\ marking \in SUBSET Cmd /\ timingOut \in SUBSET Cmd
  /\ alloc.phase # "idle" => alloc.cmd \in Cmd
StreamTypes ==
  /\ conn \in Gen \cup {NoGen} /\ handler \in [Gen -> Handler]
  /\ \A g \in Gen : At(g, "replaying") \/ At(g, "settling") => handler[g].cmd \in Cmd
  /\ ended \in SUBSET Gen /\ closed \in SUBSET Gen
  /\ up \in [Gen -> Seq(Result)]
DaemonTypes ==
  /\ down \in Seq(Cmd) /\ queue \in Seq(Cmd) /\ dGen \in Gen \cup {NoGen}
  /\ dSeq \in Nat /\ accepted \in Nat
  /\ running \in Cmd \cup {NoCmd} /\ taken \in SUBSET Cmd /\ ran \in [Cmd -> Nat]
CountTypes ==
  /\ gens \in 0..MaxGen /\ restarts \in Nat /\ revokes \in Nat /\ dbFaults \in Nat

TypeOK == RowTypes /\ MemoryTypes /\ DispatchTypes /\ StreamTypes /\ DaemonTypes
          /\ CountTypes

\* No command reaches the worker twice, whatever is lost, replayed or restarted.
AtMostOnce == \A c \in Cmd : ran[c] <= 1

\* The inductive invariant behind AtMostOnce and RunsInOrder.
\* A number belongs to a stored row, and is stored once.
NumbersAreStored ==
  /\ \A c \in Cmd : row[c] = "absent" => seqOf[c] = 0
  /\ alloc.phase \in {"loading", "inserting"} => seqOf[alloc.cmd] = 0
\* The daemon's queue ascends, up to `accepted`; behind its head nothing is
\* persisted; without a stream it is empty.
QueueAscends ==
  /\ \A i, j \in 1..Len(queue) : i < j => seqOf[queue[i]] < seqOf[queue[j]]
  /\ \A i \in 1..Len(queue) : 0 < seqOf[queue[i]] /\ seqOf[queue[i]] <= accepted
  /\ \A i \in 2..Len(queue) : dSeq < seqOf[queue[i]]
  /\ dSeq <= accepted
  /\ dGen = NoGen => queue = <<>>
\* What ran is persisted, and is below whatever is still queued.
RanIsPersisted ==
  \A c \in Cmd : ran[c] > 0 =>
    /\ 0 < seqOf[c] /\ seqOf[c] <= dSeq
    /\ \A i \in 1..Len(queue) : seqOf[c] < seqOf[queue[i]]
ChannelInv == TypeOK /\ NumbersAreStored /\ QueueAscends /\ RanIsPersisted /\ AtMostOnce

\* A command runs only after every command that already ran: the order of the
\* sequence numbers, across connections.
RunsInOrder ==
  [][\A c \in Cmd : ran'[c] > ran[c] =>
       \A d \in Cmd : ran[d] > 0 => seqOf[d] < seqOf[c]]_vars

\* "succeeded", in the row or at the caller, is said only of a command the
\* worker was given.
SuccessMeansRan ==
  \A c \in Cmd : (row[c] = "succeeded" \/ told[c] = "ok") => ran[c] > 0

\* Its inductive invariant: whatever is on its way to say "succeeded" is about a
\* command that ran.
SuccessInv ==
  /\ SuccessMeansRan
  /\ running # NoCmd => ran[running] > 0
  /\ \A g \in Gen : \A i \in 1..Len(up[g]) :
       up[g][i].status = "succeeded" => ran[up[g][i].cmd] > 0
  /\ \A g \in Gen : At(g, "settling") /\ handler[g].ok => ran[handler[g].cmd] > 0

\* While a caller waits, its command stays replayable: only a revocation or an
\* outbox over its limit takes it out.  What is replayable has a caller waiting.
WaitingIsHeld ==
  /\ \A c \in outbox : told[c] = "waiting"
  /\ ~crowded => \A c \in Cmd : told[c] = "waiting" => c \in outbox \cup dropped

\* What a revocation discarded is never written to a stream again.
RevokedWorkStaysDiscarded ==
  [][\A c \in dropped : Len(down') > Len(down) => down'[Len(down')] # c]_vars

\* The inductive invariant behind WaitingIsHeld and RevokedWorkStaysDiscarded.
\* A command in the critical section has never been in the outbox.
AllocatedIsNew ==
  /\ alloc.phase = "idle" => alloc = Idle
  /\ alloc.phase # "idle" => told[alloc.cmd] = "none"
  /\ \A c \in outbox \cup dropped \cup marking : told[c] # "none"
  /\ outbox \cap dropped = {}
\* A stream is the device's current one at most once, in the order of opening.
StreamsInTurn ==
  /\ dGen <= gens
  /\ \A g \in Gen : ~At(g, "unused") => g <= gens
\* A handler replays a discarded command only to a stream nobody reads.
ReplayIsCut ==
  \A g \in Gen : At(g, "replaying") =>
    \/ g # dGen \/ g \in ended
    \/ conn = g /\ handler[g].replay \cap dropped = {}
OutboxInv == WaitingIsHeld /\ AllocatedIsNew /\ StreamsInTurn /\ ReplayIsCut

\* Numbers are issued without gaps, and every number a counter, a reader or the
\* critical section goes by was issued: a stale one collides and is refused.
Issued(n) == n = 0 \/ \E c \in Cmd : seqOf[c] = n
NumbersInTurn ==
  /\ \A c \in Cmd : \A n \in 0..seqOf[c] : Issued(n)
  /\ seqCache # NoSeq =>
       Issued(seqCache) \/ (alloc.phase = "inserting" /\ seqCache = alloc.seq)
  /\ alloc.phase = "inserting" => alloc.seq > 0 /\ Issued(alloc.seq - 1)
  /\ \A g \in Gen : At(g, "loading") => Issued(handler[g].loaded)
DeliveryInv == ChannelInv /\ SuccessInv /\ OutboxInv /\ NumbersInTurn

\* A row in flight is concluded in the end, by its result or by its timer.
RowsSettle == \A c \in Timed : row[c] \in InFlight ~> row[c] \in Terminal

=============================================================================
