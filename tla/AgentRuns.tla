----------------------------- MODULE AgentRuns -----------------------------
(***************************************************************************)
(* Runs of the agent: the router that starts them, the gateway that owns   *)
(* their rows, and one Axel worker that works on them over a stream.       *)
(*                                                                         *)
(* Gateway: api/src/server/routers/shared.ts (startTicketRun) and          *)
(* api/src/server/grpc.ts.  Worker: agent/axel/server.py and loop.py.      *)
(*                                                                         *)
(* An action is one stretch of code between two awaits.  A stream has a    *)
(* serial inbound handler (createInboundQueue): while it awaits the        *)
(* database or a tool, later messages of the stream wait; a handler that   *)
(* throws destroys its stream and drops what is queued.  Names of streams  *)
(* are used again once nothing refers to them, so the worker may reconnect *)
(* any number of times.                                                    *)
(***************************************************************************)
EXTENDS Integers, Sequences, SequencesExt, FiniteSets, TicketLifecycle

CONSTANTS
  Run,            \* run ids (crypto.randomUUID in startTicketRun)
  Ticket,         \* ticket ids
  TicketOf,       \* the ticket a run id will be created for
  Gen,            \* names of the worker's streams
  NoGen,          \* "no stream"
  NoRun,          \* "no run"
  MaxConcurrent,  \* max_concurrent_runs of the worker, 4 in the code
  RetainedLimit,  \* retained_terminal_limit of the worker, 100 in the code
  MaxCalls,       \* bound: tool calls of one run
  Limit,          \* bound: how often each disturbance happens
  MaxKinds        \* bound: kinds of disturbance in one behaviour

Disturbance == {"loss", "crash", "restart", "cancel", "human", "age"}

ASSUME TicketOfAssumption == TicketOf \in [Run -> Ticket]
ASSUME NoValueAssumption == NoGen \notin Gen /\ NoRun \notin Run
ASSUME LimitAssumption ==
  /\ MaxConcurrent \in Nat \ {0}
  /\ RetainedLimit \in Nat \ {0}
  /\ MaxCalls \in Nat
  /\ Limit \in [Disturbance -> Nat]
  /\ MaxKinds \in Nat

Verdict == {"resolved", "escalated", "exhausted", "failed"}
RunStatus == {"absent", "running"} \cup Verdict

\* Where startTicketRun stands for a run: it has read the ticket, passed its
\* checks, inserted the row, picked a stream, written the lease, or must undo.
StartPhase == {"none", "read", "checked", "created", "selected", "held",
               "undoing", "done"}
Start == [phase : StartPhase, from : TicketStatus, gen : Gen \cup {NoGen}]

\* Where a stream's inbound handler stands.
Handler ==
  [phase : {"idle"}, run : {NoRun}, status : {"none"}]
    \cup [phase : {"tool", "executing"}, run : Run, status : {"none"}]
    \cup [phase : {"terminal", "committed"}, run : Run, status : Verdict]

\* Where cancelRun stands for a run.
Cancel == [phase : {"none", "begun", "committed"}, sweep : BOOLEAN,
           seen : TicketStatus, gen : Gen \cup {NoGen}]

UpMsg ==
  [type : {"hello"}, run : {NoRun}, status : {"none"}]
    \cup [type : {"accepted", "step", "tool"}, run : Run, status : {"none"}]
    \cup [type : {"terminal"}, run : Run, status : Verdict]
DownMsg == [type : {"start", "result", "cancel", "ack"}, run : Run]
Retained == [run : Run, status : Verdict]

VARIABLES
  ticket,     \* tickets.status
  run,        \* agent_runs.status
  lease,      \* agent_runs.lease_expires_at: unset, ahead or behind the clock
  inserted,   \* the runs in the order of started_at
  strayed,    \* history: tickets an undo moved for a run that had ended
  start,      \* the startTicketRun call of each run
  assigned,   \* keys of runAgents
  agent,      \* the stream registered in agents, or NoGen
  handler,    \* the inbound handler of each stream
  dead,       \* streams the gateway destroyed
  up,         \* messages the gateway has not taken from a stream yet
  cancel,     \* the cancelRun call of each run
  told,       \* the status onRunTerminal was called with
  stream,     \* the worker's current stream, or NoGen
  down,       \* messages the worker has not read yet
  task,       \* the worker's tasks: none, thinking or awaiting a tool
  calls,      \* tool calls a task has made
  retained,   \* _RETAINED_TERMINALS of the worker
  verdict,    \* how a run ended, as the worker process remembers it
  forgotten,  \* history: the worker process has let go of a terminal
  spent       \* disturbances so far

dbVars == <<ticket, run, lease, inserted, strayed>>
gatewayVars == <<start, assigned, agent, handler, dead, cancel, told>>
workerVars == <<stream, task, calls, retained, verdict, forgotten>>
vars == <<dbVars, gatewayVars, workerVars, up, down, spent>>

Spend(d) ==
  /\ spent[d] < Limit[d]
  /\ Cardinality({e \in Disturbance : spent[e] > 0} \cup {d}) <= MaxKinds
  /\ spent' = [spent EXCEPT ![d] = @ + 1]

IdleHandler == [phase |-> "idle", run |-> NoRun, status |-> "none"]
NoStart == [phase |-> "none", from |-> "open", gen |-> NoGen]
NoCancel == [phase |-> "none", sweep |-> FALSE, seen |-> "open", gen |-> NoGen]
Up(t, r, s) == [type |-> t, run |-> r, status |-> s]
Down(t, r) == [type |-> t, run |-> r]

Running(r) == run[r] = "running"

\* A write reaches the worker only on the stream it reads; on any other it is
\* lost without an error.
Write(g, m) ==
  down' = IF g = stream /\ g \in Gen \ dead THEN Append(down, m) ELSE down

\* The message at the head of a stream whose handler is free.
AtHead(g, type) ==
  /\ handler[g].phase = "idle" /\ up[g] # <<>> /\ Head(up[g]).type = type
Pop(g) == up' = [up EXCEPT ![g] = Tail(@)]

\* The handler throws: createInboundQueue destroys the stream.
Refuse(g) ==
  /\ dead' = dead \cup {g}
  /\ up' = [up EXCEPT ![g] = <<>>]
  /\ handler' = [handler EXCEPT ![g] = IdleHandler]

Init ==
  /\ ticket = [t \in Ticket |-> "open"]
  /\ run = [r \in Run |-> "absent"]
  /\ lease = [r \in Run |-> "none"]
  /\ inserted = <<>> /\ strayed = {}
  /\ start = [r \in Run |-> NoStart]
  /\ assigned = {}
  /\ agent = NoGen
  /\ handler = [g \in Gen |-> IdleHandler]
  /\ dead = {}
  /\ up = [g \in Gen |-> <<>>]
  /\ cancel = [r \in Run |-> NoCancel]
  /\ told = [r \in Run |-> "none"]
  /\ stream = NoGen
  /\ down = <<>>
  /\ task = [r \in Run |-> "none"]
  /\ calls = [r \in Run |-> 0]
  /\ retained = <<>>
  /\ verdict = [r \in Run |-> "none"] /\ forgotten = FALSE
  /\ spent = [d \in Disturbance |-> 0]

-----------------------------------------------------------------------------
(* Starting a run: startTicketRun and Gateway.startRun.                    *)

\* The caller reads the ticket before it calls startTicketRun.
ReadTicket(r) ==
  /\ start[r].phase = "none" /\ run[r] = "absent"
  /\ start' = [start EXCEPT ![r] = [phase |-> "read", gen |-> NoGen,
                                    from |-> ticket[TicketOf[r]]]]
  /\ UNCHANGED <<dbVars, assigned, agent, handler, dead, cancel, told,
                 workerVars, up, down, spent>>

\* The run of the ticket inserted last, if it has had one.
Latest(t) ==
  {inserted[i] : i \in {j \in 1..Len(inserted) :
     /\ TicketOf[inserted[j]] = t
     /\ \A k \in 1..Len(inserted) : TicketOf[inserted[k]] = t => k <= j}}
CanRerun(t) == \A q \in Latest(t) : run[q] \in {"failed", "exhausted"}

MayStart(r) ==
  /\ \A q \in Run : TicketOf[q] = TicketOf[r] => ~Running(q)
  /\ agent # NoGen
  /\ CanRerun(TicketOf[r])
  /\ HasEdge(start[r].from, "startRun")

CheckStart(r) ==
  /\ start[r].phase = "read"
  /\ start' = [start EXCEPT ![r] = IF MayStart(r)
                                     THEN [@ EXCEPT !.phase = "checked"]
                                     ELSE NoStart]
  /\ UNCHANGED <<dbVars, assigned, agent, handler, dead, cancel, told,
                 workerVars, up, down, spent>>

\* The compare-and-set of the start transaction.
UnmovedUnchecked(r) == TRUE
Unmoved(r) == ticket[TicketOf[r]] = start[r].from

Routed(r) == After(start[r].from, "startRun")

CommitStart(r) ==
  LET t == TicketOf[r] IN
  /\ start[r].phase = "checked"
  /\ IF Unmoved(r)
       THEN /\ ticket' = [ticket EXCEPT ![t] = Routed(r)]
            /\ run' = [run EXCEPT ![r] = "running"]
            /\ inserted' = Append(inserted, r)
            /\ start' = [start EXCEPT ![r].phase = "created"]
       ELSE /\ start' = [start EXCEPT ![r] = NoStart]
            /\ UNCHANGED <<ticket, run, inserted>>
  /\ UNCHANGED <<lease, strayed, assigned, agent, handler, dead, cancel, told,
                 workerVars, up, down, spent>>

SelectAgent(r) ==
  /\ start[r].phase = "created"
  /\ start' = [start EXCEPT
       ![r].phase = IF agent = NoGen THEN "undoing" ELSE "selected",
       ![r].gen = agent]
  /\ UNCHANGED <<dbVars, assigned, agent, handler, dead, cancel, told,
                 workerVars, up, down, spent>>

HoldRun(r) ==
  /\ start[r].phase = "selected"
  /\ start' = [start EXCEPT ![r].phase = IF Running(r) THEN "held"
                                                       ELSE "undoing"]
  /\ lease' = IF Running(r) THEN [lease EXCEPT ![r] = "live"] ELSE lease
  /\ UNCHANGED <<ticket, run, inserted, strayed, assigned, agent, handler, dead, cancel,
                 told, workerVars, up, down, spent>>

SendStart(r) ==
  /\ start[r].phase = "held"
  /\ assigned' = assigned \cup {r}
  /\ Write(start[r].gen, Down("start", r))
  /\ start' = [start EXCEPT ![r] = [NoStart EXCEPT !.phase = "done"]]
  /\ UNCHANGED <<dbVars, agent, handler, dead, cancel, told, workerVars, up,
                 spent>>

\* The compensating transaction: the row fails, and the ticket goes back
\* unless it has moved on.
NotRestored(r) == ticket
Restored(r) == [ticket EXCEPT ![TicketOf[r]] =
                  IF @ = Routed(r) THEN start[r].from ELSE @]

UndoStart(r) ==
  /\ start[r].phase = "undoing"
  /\ run' = [run EXCEPT ![r] = IF Running(r) THEN "failed" ELSE @]
  /\ ticket' = Restored(r)
  /\ strayed' = IF ~Running(r) /\ ticket[TicketOf[r]] = Routed(r)
                  THEN strayed \cup {TicketOf[r]} ELSE strayed
  /\ start' = [start EXCEPT ![r] = [NoStart EXCEPT !.phase = "done"]]
  /\ UNCHANGED <<lease, inserted, assigned, agent, handler, dead, cancel, told,
                 workerVars, up, down, spent>>

-----------------------------------------------------------------------------
(* The gateway's inbound handler: onAgentMessage.                          *)

Register(g) ==
  /\ AtHead(g, "hello") /\ Pop(g)
  /\ agent' = g
  /\ UNCHANGED <<dbVars, start, assigned, handler, dead, cancel, told,
                 workerVars, down, spent>>

\* renewRunLease, for a message of run r.
Renew(r) == lease' = [lease EXCEPT ![r] = "live"]

TakeAccepted(g) ==
  LET r == Head(up[g]).run IN
  /\ AtHead(g, "accepted")
  /\ IF Running(r) THEN Renew(r) /\ Pop(g) /\ UNCHANGED <<dead, handler>>
                   ELSE Refuse(g) /\ UNCHANGED lease
  /\ UNCHANGED <<ticket, run, inserted, strayed, start, assigned, agent, cancel, told,
                 workerVars, down, spent>>

\* persistRunUpdate, an update without a status.
TakeStep(g) ==
  LET r == Head(up[g]).run IN
  /\ AtHead(g, "step")
  /\ IF r \in assigned /\ Running(r)
       THEN Renew(r) /\ Pop(g) /\ UNCHANGED <<dead, handler>>
       ELSE Refuse(g) /\ UNCHANGED lease
  /\ UNCHANGED <<ticket, run, inserted, strayed, start, assigned, agent, cancel, told,
                 workerVars, down, spent>>

\* handleToolRequest up to the ledger claim; it answers a refusal itself.
TakeTool(g) ==
  LET r == Head(up[g]).run IN
  /\ AtHead(g, "tool") /\ Pop(g)
  /\ IF r \in assigned /\ Running(r)
       THEN /\ Renew(r)
            /\ handler' = [handler EXCEPT ![g] =
                 [phase |-> "tool", run |-> r, status |-> "none"]]
            /\ UNCHANGED down
       ELSE /\ Write(g, Down("result", r))
            /\ UNCHANGED <<lease, handler>>
  /\ UNCHANGED <<ticket, run, inserted, strayed, start, assigned, agent, dead, cancel,
                 told, workerVars, spent>>

\* The transaction before the tool runs.
FirstTool(g) ==
  LET t == TicketOf[handler[g].run] IN
  /\ handler[g].phase = "tool"
  /\ ticket' = IF HasEdge(ticket[t], "firstTool")
                 THEN [ticket EXCEPT ![t] = After(@, "firstTool")] ELSE ticket
  /\ handler' = [handler EXCEPT ![g].phase = "executing"]
  /\ UNCHANGED <<run, lease, inserted, strayed, start, assigned, agent, dead, cancel,
                 told, workerVars, up, down, spent>>

FinishTool(g) ==
  /\ handler[g].phase = "executing"
  /\ Write(g, Down("result", handler[g].run))
  /\ handler' = [handler EXCEPT ![g] = IdleHandler]
  /\ UNCHANGED <<dbVars, start, assigned, agent, dead, cancel, told,
                 workerVars, up, spent>>

\* A terminal of a run this process does not know is acknowledged when its
\* row has ended.
AlreadyKnown(r) == run[r] # "absent"
AlreadyEnded(r) == ~Running(r)

\* persistRunUpdate, a terminal update, up to its transaction.
TakeTerminal(g) ==
  LET m == Head(up[g])
      r == m.run IN
  /\ AtHead(g, "terminal")
  /\ \/ /\ r \in assigned /\ Running(r)
        /\ Renew(r) /\ Pop(g)
        /\ handler' = [handler EXCEPT ![g] =
             [phase |-> "terminal", run |-> r, status |-> m.status]]
        /\ UNCHANGED <<dead, down>>
     \/ /\ r \notin assigned /\ AlreadyEnded(r)
        /\ Write(g, Down("ack", r)) /\ Pop(g)
        /\ UNCHANGED <<lease, handler, dead>>
     \/ /\ (r \in assigned) # Running(r)
        /\ Refuse(g) /\ UNCHANGED <<lease, down>>
  /\ UNCHANGED <<ticket, run, inserted, strayed, start, assigned, agent, cancel, told,
                 workerVars, spent>>

ActionOf(s) == CASE s = "resolved"  -> "resolve"
                 [] s = "failed"    -> "fail"
                 [] s = "exhausted" -> "exhaust"
                 [] s = "escalated" -> "escalate"

AnyRow(r) == TRUE
Finishable(r) == Running(r)

\* resolveTicketStatus throws.
NoEdge(g) == Refuse(g)

\* The terminal transaction: nothing for a row already ended, and a throw
\* where the ticket has no edge for the action.
CommitTerminal(g) ==
  LET r == handler[g].run
      s == handler[g].status
      t == TicketOf[r]
      done == [handler EXCEPT ![g].phase = "committed"] IN
  /\ handler[g].phase = "terminal"
  /\ \/ /\ ~Finishable(r) /\ handler' = done
        /\ UNCHANGED <<ticket, run, lease, dead, up>>
     \/ /\ Finishable(r) /\ HasEdge(ticket[t], ActionOf(s))
        /\ run' = [run EXCEPT ![r] = s]
        /\ lease' = [lease EXCEPT ![r] = "none"]
        /\ ticket' = [ticket EXCEPT ![t] = After(@, ActionOf(s))]
        /\ handler' = done
        /\ UNCHANGED <<dead, up>>
     \/ /\ Finishable(r) /\ ~HasEdge(ticket[t], ActionOf(s))
        /\ NoEdge(g) /\ UNCHANGED <<ticket, run, lease>>
  /\ UNCHANGED <<inserted, strayed, start, assigned, agent, cancel, told, workerVars,
                 down, spent>>

\* After the transaction: unassign, onRunTerminal, terminalAck.
AckTerminal(g) ==
  LET r == handler[g].run IN
  /\ handler[g].phase = "committed"
  /\ assigned' = assigned \ {r}
  /\ told' = [told EXCEPT ![r] = handler[g].status]
  /\ Write(g, Down("ack", r))
  /\ handler' = [handler EXCEPT ![g] = IdleHandler]
  /\ UNCHANGED <<dbVars, start, agent, dead, cancel, workerVars, up, spent>>

\* The end or close event of the registered stream: removeAgent.
StreamClosed(g) ==
  /\ agent = g /\ (g # stream \/ g \in dead)
  /\ agent' = NoGen
  /\ UNCHANGED <<dbVars, start, assigned, handler, dead, cancel, told,
                 workerVars, up, down, spent>>

-----------------------------------------------------------------------------
(* Cancelling: cancelRun, by an operator or for a lease that ran out.      *)

\* Time passes without a message of run r.  The worker's heartbeats do not
\* count: their branch only answers them.
LeaseLapses(r) ==
  /\ Running(r) /\ lease[r] = "live"
  /\ lease' = [lease EXCEPT ![r] = "lapsed"]
  /\ UNCHANGED <<ticket, run, inserted, strayed, gatewayVars, workerVars, up, down,
                 spent>>

\* cancelRun up to the first read of its transaction.
Begin(r, sweep) ==
  /\ cancel[r].phase = "none" /\ Running(r)
  /\ cancel' = [cancel EXCEPT ![r] =
       [phase |-> "begun", sweep |-> sweep, seen |-> ticket[TicketOf[r]],
        gen |-> IF r \in assigned THEN agent ELSE NoGen]]
  /\ UNCHANGED <<dbVars, start, assigned, agent, handler, dead, told,
                 workerVars, up, down>>

BeginCancel(r) == Spend("cancel") /\ Begin(r, FALSE)

\* expireRunLeases cancels one run at a time.
BeginExpiry(r) ==
  /\ lease[r] = "lapsed"
  /\ \A q \in Run : ~(cancel[q].phase # "none" /\ cancel[q].sweep)
  /\ Begin(r, TRUE) /\ UNCHANGED spent

CancelHitsAny(r) == run[r] # "absent"
CancelHits(r) == Running(r) /\ (cancel[r].sweep => lease[r] = "lapsed")

\* expireRunLeases catches what one cancellation throws and goes on.
SweepStops(r) == cancel[r]
AfterThrow(r) == NoCancel

\* The rest of the transaction: it changes nothing for a row that has ended or
\* been renewed, throws where the ticket has no edge for "fail", and leaves
\* alone a ticket that has moved since it was read.
CommitCancel(r) ==
  LET c == cancel[r]
      hit == CancelHits(r) IN
  /\ c.phase = "begun"
  /\ IF hit /\ HasEdge(c.seen, "fail")
       THEN /\ run' = [run EXCEPT ![r] = "failed"]
            /\ lease' = [lease EXCEPT ![r] = "none"]
            /\ ticket' = [ticket EXCEPT ![TicketOf[r]] =
                 IF @ = c.seen THEN After(@, "fail") ELSE @]
            /\ cancel' = [cancel EXCEPT ![r].phase = "committed"]
       ELSE /\ cancel' = [cancel EXCEPT ![r] = IF hit THEN AfterThrow(r)
                                                     ELSE NoCancel]
            /\ UNCHANGED <<run, lease, ticket>>
  /\ UNCHANGED <<inserted, strayed, start, assigned, agent, handler, dead, told,
                 workerVars, up, down, spent>>

FinishCancel(r) ==
  /\ cancel[r].phase = "committed"
  /\ Write(cancel[r].gen, Down("cancel", r))
  /\ assigned' = assigned \ {r}
  /\ cancel' = [cancel EXCEPT ![r] = NoCancel]
  /\ UNCHANGED <<dbVars, start, agent, handler, dead, told, workerVars, up,
                 spent>>

\* The gateway dies; reconcileOrphans runs in its successor.
GatewayRestart ==
  LET orphans == {r \in Run : Running(r) /\ lease[r] # "live"} IN
  /\ Spend("restart")
  /\ run' = [r \in Run |-> IF r \in orphans THEN "failed" ELSE run[r]]
  /\ lease' = [r \in Run |-> IF r \in orphans THEN "none" ELSE lease[r]]
  /\ ticket' = [t \in Ticket |->
       IF (\E r \in orphans : TicketOf[r] = t) /\ HasEdge(ticket[t], "fail")
         THEN After(ticket[t], "fail") ELSE ticket[t]]
  /\ start' = [r \in Run |->
       IF run[r] = "absent" THEN NoStart ELSE [NoStart EXCEPT !.phase = "done"]]
  /\ assigned' = {} /\ agent' = NoGen
  /\ handler' = [g \in Gen |-> IdleHandler]
  /\ dead' = Gen
  /\ up' = [g \in Gen |-> <<>>]
  /\ cancel' = [r \in Run |-> NoCancel]
  /\ UNCHANGED <<inserted, strayed, told, workerVars, down>>

\* Somebody else moves the ticket: updateTicket, the reporter's reply, the
\* pending sweep.  Each compares the status it read when it writes.
HumanAct(t) ==
  /\ Spend("human")
  /\ \E a \in {"pend", "unpend", "resolve", "escalate", "close", "reopen"} :
       /\ HasEdge(ticket[t], a)
       /\ ticket' = [ticket EXCEPT ![t] = After(@, a)]
  /\ UNCHANGED <<run, lease, inserted, strayed, gatewayVars, workerVars, up, down>>

-----------------------------------------------------------------------------
(* The worker.                                                             *)

Busy == {r \in Run : task[r] # "none"}
Send(ms) == up' = IF stream \in dead THEN up
                                     ELSE [up EXCEPT ![stream] = @ \o ms]

RetainNewest(ends) == retained' = ends /\ UNCHANGED forgotten

\* _retain_terminal: the oldest entries give way.
Retain(ends) ==
  LET s == retained \o ends
      over == Len(s) > RetainedLimit
  IN  /\ retained' = SubSeq(s, IF over THEN Len(s) - RetainedLimit + 1 ELSE 1, Len(s))
      /\ forgotten' = (forgotten \/ over)
End(r, s) == [run |-> r, status |-> s]

AtWorker(type) == stream # NoGen /\ down # <<>> /\ Head(down).type = type

\* Nothing refers to the stream that had this name any more.
Fresh(g) ==
  /\ up[g] = <<>> /\ handler[g].phase = "idle" /\ agent # g
  /\ \A r \in Run : start[r].gen # g /\ cancel[r].gen # g

\* connect_forever and requests(): hello, then every retained terminal.
OpenStream(g) ==
  /\ stream = NoGen /\ Fresh(g)
  /\ stream' = g
  /\ dead' = dead \ {g}
  /\ up' = [up EXCEPT ![g] =
       <<Up("hello", NoRun, "none")>> \o
       [i \in 1..Len(retained) |->
          Up("terminal", retained[i].run, retained[i].status)]]
  /\ UNCHANGED <<dbVars, start, assigned, agent, handler, cancel, told, task,
                 calls, retained, verdict, forgotten, down, spent>>

\* A start_run: accepted, or answered with a failed terminal when the worker
\* has as many runs as it may.
TakeStart ==
  LET r == Head(down).run IN
  /\ AtWorker("start") /\ down' = Tail(down)
  /\ IF Cardinality(Busy) >= MaxConcurrent
       THEN /\ Retain(<<End(r, "failed")>>)
            /\ verdict' = [verdict EXCEPT ![r] = "failed"]
            /\ Send(<<Up("terminal", r, "failed")>>)
            /\ UNCHANGED task
       ELSE /\ task' = [task EXCEPT ![r] = "thinking"]
            /\ Send(<<Up("accepted", r, "none")>>)
            /\ UNCHANGED <<retained, verdict, forgotten>>
  /\ UNCHANGED <<dbVars, gatewayVars, stream, calls, spent>>

\* A tool result, reported as a step; one for a task that is gone is ignored.
TakeResult ==
  LET r == Head(down).run IN
  /\ AtWorker("result") /\ down' = Tail(down)
  /\ IF task[r] = "calling"
       THEN /\ task' = [task EXCEPT ![r] = "thinking"]
            /\ Send(<<Up("step", r, "none")>>)
       ELSE UNCHANGED <<task, up>>
  /\ UNCHANGED <<dbVars, gatewayVars, stream, calls, retained, verdict, forgotten,
                 spent>>

TakeAck ==
  LET acked == {i \in 1..Len(retained) : retained[i].run = Head(down).run} IN
  /\ AtWorker("ack") /\ down' = Tail(down)
  /\ \/ acked = {} /\ UNCHANGED retained
     \/ \E i \in acked : retained' = RemoveAt(retained, i)
  /\ UNCHANGED <<dbVars, gatewayVars, stream, task, calls, verdict, forgotten, up,
                 spent>>

\* The task ends; `steps` are reported before its terminal.
Conclude(r, s, steps) ==
  /\ task' = [task EXCEPT ![r] = "none"]
  /\ verdict' = [verdict EXCEPT ![r] = s]
  /\ Retain(<<End(r, s)>>)
  /\ Send(steps \o <<Up("terminal", r, s)>>)

TakeCancel ==
  LET r == Head(down).run IN
  /\ AtWorker("cancel") /\ down' = Tail(down)
  /\ IF task[r] = "none" THEN UNCHANGED <<task, verdict, retained, forgotten, up>>
                         ELSE Conclude(r, "failed", <<>>)
  /\ UNCHANGED <<dbVars, gatewayVars, stream, calls, spent>>

\* A tool_call step and the request; the first is knowledge_search.
CallTool(r) ==
  /\ stream # NoGen /\ task[r] = "thinking" /\ calls[r] < MaxCalls
  /\ task' = [task EXCEPT ![r] = "calling"]
  /\ calls' = [calls EXCEPT ![r] = @ + 1]
  /\ Send(<<Up("step", r, "none"), Up("tool", r, "none")>>)
  /\ UNCHANGED <<dbVars, gatewayVars, stream, retained, verdict, forgotten, down,
                 spent>>

\* The call outlives the run's deadline: two steps say so, and the run ends.
CallTimesOut(r) ==
  /\ stream # NoGen /\ task[r] = "calling"
  /\ Conclude(r, "exhausted", <<Up("step", r, "none"), Up("step", r, "none")>>)
  /\ UNCHANGED <<dbVars, gatewayVars, stream, calls, down, spent>>

\* A decision step and the terminal, or the terminal alone after an exception.
FinishRun(r) ==
  /\ stream # NoGen /\ task[r] = "thinking" /\ calls[r] > 0
  /\ \E s \in Verdict :
       Conclude(r, s, IF s = "failed" THEN <<>>
                                      ELSE <<Up("step", r, "none")>>)
  /\ UNCHANGED <<dbVars, gatewayVars, stream, calls, down, spent>>

\* The transport goes; what the gateway has not read survives in part.
Cut ==
  /\ stream # NoGen /\ stream' = NoGen /\ down' = <<>>
  /\ \E n \in 0..Len(up[stream]) :
       up' = [up EXCEPT ![stream] = SubSeq(@, 1, n)]
  /\ task' = [r \in Run |-> "none"]

\* Connection.close: every task is cancelled and its terminal retained, in
\* whatever order they finish.
LoseStream ==
  /\ Cut
  /\ IF stream \in dead THEN UNCHANGED spent ELSE Spend("loss")
  /\ \E n \in 0..MaxConcurrent : \E ending \in [1..n -> Busy] :
       /\ IsInjective(ending) /\ {ending[i] : i \in 1..n} = Busy
       /\ Retain([i \in 1..n |-> End(ending[i], "failed")])
  /\ verdict' = [r \in Run |-> IF r \in Busy THEN "failed" ELSE verdict[r]]
  /\ UNCHANGED <<dbVars, gatewayVars, calls>>

\* The process ends: what it retained is gone with it.
WorkerCrash ==
  /\ Cut /\ Spend("crash")
  /\ retained' = <<>> /\ forgotten' = FALSE
  /\ verdict' = [r \in Run |-> "none"]
  /\ UNCHANGED <<dbVars, gatewayVars, calls>>

\* _prune_retained_terminals: the oldest entry is an hour old.
AgeOut ==
  /\ Spend("age") /\ retained # <<>>
  /\ retained' = Tail(retained) /\ forgotten' = TRUE
  /\ UNCHANGED <<dbVars, gatewayVars, stream, task, calls, verdict, up, down>>

-----------------------------------------------------------------------------
StartStep(r) ==
  \/ ReadTicket(r) \/ CheckStart(r) \/ CommitStart(r) \/ SelectAgent(r)
  \/ HoldRun(r) \/ SendStart(r) \/ UndoStart(r)
HandlerStep(g) ==
  \/ Register(g) \/ TakeAccepted(g) \/ TakeStep(g) \/ TakeTool(g)
  \/ FirstTool(g) \/ FinishTool(g) \/ TakeTerminal(g) \/ CommitTerminal(g)
  \/ AckTerminal(g)
CancelStep(r) ==
  BeginCancel(r) \/ BeginExpiry(r) \/ CommitCancel(r) \/ FinishCancel(r)
TaskStep(r) == CallTool(r) \/ FinishRun(r)
WorkerRead == TakeStart \/ TakeResult \/ TakeCancel \/ TakeAck

Next ==
  \/ \E r \in Run : StartStep(r) \/ CancelStep(r) \/ LeaseLapses(r)
                    \/ CallTimesOut(r) \/ TaskStep(r)
  \/ \E g \in Gen : HandlerStep(g) \/ StreamClosed(g) \/ OpenStream(g)
  \/ \E t \in Ticket : HumanAct(t)
  \/ GatewayRestart \/ WorkerRead \/ LoseStream \/ WorkerCrash \/ AgeOut

Spec == Init /\ [][Next]_vars

\* Handlers and continuations are driven by the event loops, the worker ends
\* every run within run_deadline_seconds and reconnects for ever, a lease that
\* is not renewed runs out, and the sweep runs every HEARTBEAT_MS.
Fairness ==
  /\ \A r \in Run :
       /\ WF_vars(CommitStart(r) \/ SelectAgent(r) \/ HoldRun(r)
                  \/ SendStart(r) \/ UndoStart(r))
       /\ WF_vars(CommitCancel(r) \/ FinishCancel(r))
       /\ SF_vars(BeginExpiry(r))
       /\ WF_vars(LeaseLapses(r))
       /\ WF_vars(TaskStep(r))
  /\ \A g \in Gen : WF_vars(HandlerStep(g)) /\ WF_vars(StreamClosed(g))
  /\ WF_vars(\E g \in Gen : OpenStream(g))
  /\ WF_vars(WorkerRead)
  /\ WF_vars(stream \in dead /\ LoseStream)

FairSpec == Spec /\ Fairness

-----------------------------------------------------------------------------
(* Properties.                                                             *)

DbTypes ==
  /\ ticket \in [Ticket -> TicketStatus] /\ run \in [Run -> RunStatus]
  /\ lease \in [Run -> {"none", "live", "lapsed"}] /\ inserted \in Seq(Run)
  /\ strayed \in SUBSET Ticket
\* A start that passed its checks, and may yet be undone.
Approved == {"checked", "created", "selected", "undoing"}
StartTypes ==
  /\ start \in [Run -> Start]
  /\ \A r \in Run : start[r].phase \in Approved => HasEdge(start[r].from, "startRun")
MemoryTypes ==
  /\ assigned \in SUBSET Run /\ agent \in Gen \cup {NoGen}
  /\ told \in [Run -> Verdict \cup {"none"}] /\ cancel \in [Run -> Cancel]
StreamTypes ==
  /\ handler \in [Gen -> Handler] /\ dead \in SUBSET Gen
  /\ up \in [Gen -> Seq(UpMsg)] /\ down \in Seq(DownMsg)
WorkerTypes ==
  /\ stream \in Gen \cup {NoGen}
  /\ task \in [Run -> {"none", "thinking", "calling"}]
  /\ calls \in [Run -> 0..MaxCalls]
  /\ retained \in Seq(Retained)
  /\ verdict \in [Run -> Verdict \cup {"none"}] /\ forgotten \in BOOLEAN

\* Types of the variables.
TypeOK == DbTypes /\ StartTypes /\ MemoryTypes /\ StreamTypes /\ WorkerTypes
          /\ spent \in [Disturbance -> Nat]

\* Only runs have moved the ticket, and each only while it ran.  The transaction
\* that undoes a start does not look at its row: where the run was ended before
\* it, it takes the ticket back from the run that was started since.
Alone(t) == spent["human"] = 0 /\ t \notin strayed

\* While nobody else moves it, a ticket has one running run: the check of
\* startTicketRun and its compare-and-set on the ticket keep concurrent starts
\* apart, whatever is lost, cancelled or restarted meanwhile.
OneRunPerTicket ==
  \A q, r \in Run :
    Running(q) /\ Running(r) /\ TicketOf[q] = TicketOf[r] /\ Alone(TicketOf[r]) => q = r

\* How a run ended is final, whichever of a terminal, a cancellation, an
\* expiry or a restart ends it first.
EndedRunsStay == [][\A r \in Run : run[r] \in Verdict => run'[r] = run[r]]_vars

\* Until a terminal is an hour old or there are more of them than it retains, the
\* worker keeps that of a run it has finished until the row has ended: whatever
\* is lost on the way, it has something to replay.
VerdictIsKept ==
  ~forgotten =>
    \A r \in Run : verdict[r] # "none" /\ Running(r) =>
      \E i \in 1..Len(retained) : retained[i].run = r

\* An acknowledgement is on its way only for a run whose row has ended.
AckedRunsEnded ==
  \A i \in 1..Len(down) : down[i].type = "ack" => ~Running(down[i].run)

\* The inductive invariant behind AckedRunsEnded and EndedRunsStay.
\* Messages and retained terminals are about runs that have a row, and an
\* acknowledgement is about one that has ended.
HasRow(r) == run[r] # "absent"
Ended(r) == run[r] \in Verdict
SoundUp == {m \in UpMsg : m.type # "hello" => HasRow(m.run)}
SoundDown == {m \in DownMsg : HasRow(m.run) /\ (m.type = "ack" => Ended(m.run))}
SoundRetained == {e \in Retained : HasRow(e.run)}
WireIsSound ==
  /\ up \in [Gen -> Seq(SoundUp)] /\ down \in Seq(SoundDown)
  /\ retained \in Seq(SoundRetained)
\* Code that is between two awaits over a run knows what its guards found.
StepsKnowRows ==
  /\ \A r \in Run : start[r].phase \in {"read", "checked"} => ~HasRow(r)
  /\ \A r \in Run : start[r].phase = "held" => HasRow(r)
  /\ \A r \in Run : task[r] # "none" => HasRow(r)
  /\ \A g \in Gen : handler[g].phase # "idle" => HasRow(handler[g].run)
  /\ \A g \in Gen : handler[g].phase = "committed" => Ended(handler[g].run)
  /\ \A r \in Run : cancel[r].phase = "committed" => Ended(r)
RunsInv == TypeOK /\ WireIsSound /\ StepsKnowRows

\* While nobody else moves it and the gateway lives, a ticket is routing only
\* while a run is under way: a start that fails, an expiry, a cancellation or a
\* lost worker does not strand it.
RoutingMeansRun ==
  spent["restart"] = 0 => \A t \in Ticket : Alone(t) /\ ticket[t] = "routing" =>
    \E r \in Run : TicketOf[r] = t /\ Running(r)

\* While nobody else moves it, a ticket is resolved or escalated as its latest
\* run ended, not as an earlier one that the worker still replays.
LatestRunDecides ==
  \A t \in Ticket : Alone(t) /\ ticket[t] \in {"resolved", "escalated"} =>
    \E r \in Latest(t) : (ticket[t] = "resolved") <=> (run[r] = "resolved")

\* The inductive invariant behind these three.  A running run is its ticket's
\* latest, and the ticket is as startRun or firstTool left it; what a
\* cancellation read of a ticket that is being resolved still holds.
RunningHasTicket ==
  \A r \in Run : Running(r) /\ Alone(TicketOf[r]) =>
    ticket[TicketOf[r]] \in {"routing", "resolving"} /\ r \in Latest(TicketOf[r])
CancelSaw ==
  \A r \in Run : cancel[r].phase = "begun" =>
    /\ HasRow(r)
    /\ Running(r) /\ Alone(TicketOf[r]) /\ cancel[r].seen = "resolving" =>
         ticket[TicketOf[r]] = "resolving"
TicketsInv == /\ RunsInv /\ RunningHasTicket /\ CancelSaw
              /\ OneRunPerTicket /\ RoutingMeansRun /\ LatestRunDecides

\* The inductive invariant behind VerdictIsKept: a run is sent to the worker
\* once, and there it is about to start, under way or retained, never two of them.
StartSent(r) == \E i \in 1..Len(down) : down[i] = Down("start", r)
Kept(r) == \E i \in 1..Len(retained) : retained[i].run = r
SentOnce ==
  /\ \A i, j \in 1..Len(down) : down[i].type = "start" /\ down[i] = down[j] => i = j
  /\ \A r \in Run : StartSent(r) \/ task[r] # "none" \/ Kept(r) => start[r].phase = "done"
  /\ \A r \in Run : StartSent(r) => task[r] = "none" /\ ~Kept(r)
KeptOnce ==
  /\ \A i, j \in 1..Len(retained) : retained[i].run = retained[j].run => i = j
  /\ \A r \in Run : task[r] # "none" => ~Kept(r)
VerdictsInv == /\ RunsInv /\ SentOnce /\ KeptOnce /\ VerdictIsKept
               /\ \A r \in Run : verdict[r] # "none" => HasRow(r)

\* A run that has reached its first tool ends: by its terminal, by a replay of
\* it, or by its lease.
ResolvingRunsEnd ==
  \A r \in Run :
    (Running(r) /\ ticket[TicketOf[r]] = "resolving") ~> ~Running(r)
=============================================================================
