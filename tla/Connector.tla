----------------------------- MODULE Connector -----------------------------
(***************************************************************************)
(* One ITSM connector: the incidents of the customer's system are polled   *)
(* into tickets, their changes start runs, and what a run found is posted  *)
(* back as a work note (api/src/server/connectors).                        *)
(*                                                                         *)
(* A tick (runConnectorTick) runs one sync pass, then starts the deferred  *)
(* dispatches, then delivers the notes.  Beside it an operator may start a *)
(* pass of his own or retry a note.  An action is one statement or request *)
(* with the code up to the next await.  Time is the other system's clock,  *)
(* which counts seconds: several things happen in one of them.             *)
(***************************************************************************)
EXTENDS Integers, FiniteSets

CONSTANTS
  Incident,        \* records of the other system
  Note,            \* itsm_writebacks rows
  Nothing,         \* "no incident", "no note"
  DispatchCeiling, \* itsm_connectors.dispatch_ceiling, 3 by default
  CreateCeiling,   \* itsm_connectors.create_ceiling, 50 by default
  FailureCeiling,  \* FAILURE_CEILING, 10 in the code
  MaxAttempts,     \* itsm_writebacks.max_attempts, 5 by default
  MaxTime,         \* bound: seconds
  MaxActs,         \* bound: what customers do
  MaxRuns,         \* bound: runs started
  Gone,            \* incidents the other system no longer answers for
  Limit,           \* bound: how often each disturbance happens
  MaxKinds         \* bound: kinds of disturbance in one behaviour

Disturbance == {"fault", "lost", "crash", "sync", "retry", "switch"}

ASSUME ValueAssumption ==
  Nothing \notin Note \cup Incident /\ Gone \subseteq Incident
ASSUME LimitAssumption ==
  /\ DispatchCeiling \in Nat \ {0} /\ CreateCeiling \in Nat \ {0}
  /\ FailureCeiling \in Nat \ {0} /\ MaxAttempts \in Nat \ {0}
  /\ MaxTime \in Nat \ {0} /\ MaxActs \in Nat /\ MaxRuns \in Nat
  /\ Limit \in [Disturbance -> Nat] /\ MaxKinds \in Nat

Time == 0..MaxTime
NoTime == 0           \* null, and "since ever" for the watermark

\* A trigger names the transition that justifies a run: the creation, or the
\* comment written in that second.
Trigger == Time
Created == 0
NoTrigger == -1

Foreign == [at : Time, said : Time]
Origin == [known : BOOLEAN, seen : Time, written : Time, count : Nat]
Outcome == {"none", "deferred", "dispatched", "refused"}
NoteStatus == {"absent", "pending", "delivering", "retrying", "succeeded", "failed"}
NoteRow == [status : NoteStatus, attempts : Nat, inc : Incident \cup {Nothing}]

\* A sync pass: the operator's or the tick's.
Pass == {"tick", "operator"}
Observation == [inc : Incident, at : Time, said : Time]
Decision == [inc : Incident, at : Time, kind : {"create", "update"},
             trigger : Trigger \cup {NoTrigger}]
PassPhase == {"idle", "begun", "fetched", "applying", "failing", "counting"}

\* A delivery in progress: the sweep's or the operator's.
Deliverer == {"sweep", "retry"}
Delivery == [phase : {"idle", "claiming", "posting", "posted", "echo"},
             note : Note \cup {Nothing}, attempt : Nat, at : Time]

VARIABLES
  now,        \* the other system's clock
  foreign,    \* its incidents: sys_updated_on, and the customer's last comment
  enabled,    \* itsm_connectors.enabled
  failures,   \* itsm_connectors.consecutive_failures
  watermark,  \* itsm_connectors.watermark
  origin,     \* itsm_ticket_origins
  ledger,     \* itsm_dispatch_ledger
  note,       \* itsm_writebacks
  run,        \* the latest run of an incident's ticket
  proposal,   \* itsm_proposals: what a person did instead is not known yet
  tick,       \* where runConnectorTick stands
  pass,       \* the sync passes
  todo,       \* ledger rows the dispatch sweep has still to start
  current,    \* the row it is recording, and how far
  asking,     \* proposals whose outcome the tick has still to ask for
  due,        \* notes the write-back sweep has still to deliver
  deliver,    \* the deliveries in progress
  telling,    \* incidents whose run's onRunTerminal has not queued its note
  tickets,    \* history: tickets created for an incident
  started,    \* history: runs started for a trigger
  born,       \* history: the change that a ticket was created from
  fetched,    \* history: the second of the latest fetch
  late,       \* history: incidents once changed in a second already fetched
  acts,       \* history: what customers did
  runs,       \* history: runs started
  posts,      \* history: how often the other system took a note
  acked,      \* history: notes it answered for
  spent       \* disturbances so far

foreignVars == <<now, foreign>>
rowVars == <<enabled, failures, watermark, origin, ledger, note, run, proposal>>
memoryVars == <<tick, pass, todo, current, asking, due, deliver, telling>>
historyVars == <<tickets, started, born, fetched, late, acts, runs, posts, acked>>
vars == <<foreignVars, rowVars, memoryVars, historyVars, spent>>

Spend(d) ==
  /\ spent[d] < Limit[d]
  /\ Cardinality({e \in Disturbance \ {d} : spent[e] > 0}) < MaxKinds
  /\ spent' = [spent EXCEPT ![d] = @ + 1]

NoPass == [phase |-> "idle", since |-> NoTime, got |-> {}, todo |-> {},
           mark |-> NoTime, seen |-> 0]
NoDelivery == [phase |-> "idle", note |-> Nothing, attempt |-> 0, at |-> NoTime]
NoCurrent == [step |-> "none", rows |-> {}]

Init ==
  /\ now = 1
  /\ foreign = [i \in Incident |-> [at |-> NoTime, said |-> NoTime]]
  /\ enabled = TRUE /\ failures = 0 /\ watermark = NoTime
  /\ origin = [i \in Incident |->
                 [known |-> FALSE, seen |-> NoTime, written |-> NoTime, count |-> 0]]
  /\ ledger = [i \in Incident |-> [t \in Trigger |-> "none"]]
  /\ note = [n \in Note |-> [status |-> "absent", attempts |-> 0,
                             inc |-> Nothing]]
  /\ run = [i \in Incident |-> "none"] /\ proposal = {}
  /\ tick = "rest" /\ pass = [p \in Pass |-> NoPass]
  /\ todo = {} /\ current = NoCurrent /\ asking = {}
  /\ due = {} /\ deliver = [d \in Deliverer |-> NoDelivery] /\ telling = {}
  /\ tickets = [i \in Incident |-> 0]
  /\ started = [i \in Incident |-> [t \in Trigger |-> 0]]
  /\ born = [i \in Incident |-> NoTime]
  /\ fetched = NoTime /\ late = {} /\ acts = 0 /\ runs = 0
  /\ posts = [n \in Note |-> 0] /\ acked = {}
  /\ spent = [d \in Disturbance |-> 0]

-----------------------------------------------------------------------------
(* The other system, and the operators.                                     *)

TimePasses ==
  /\ now < MaxTime /\ now' = now + 1
  /\ UNCHANGED <<foreign, rowVars, memoryVars, historyVars, spent>>

\* A customer opens an incident, changes it, or comments on it.  A change in a
\* second that a fetch has already read carries the timestamp it read.
CustomerActs(i, comments) ==
  /\ comments => foreign[i].at # NoTime
  /\ acts < MaxActs /\ acts' = acts + 1
  /\ foreign' = [foreign EXCEPT ![i].at = now,
                                ![i].said = IF comments THEN now ELSE @]
  /\ late' = IF fetched = now THEN late \cup {i} ELSE late
  /\ UNCHANGED <<now, rowVars, memoryVars, tickets, started, born, fetched, runs,
                 posts, acked, spent>>

\* updateConnector: enabling clears the failures.
SwitchConnector ==
  /\ Spend("switch")
  /\ enabled' = ~enabled
  /\ failures' = IF enabled THEN failures ELSE 0
  /\ UNCHANGED <<foreignVars, watermark, origin, ledger, note, run, proposal, memoryVars,
                 historyVars>>

-----------------------------------------------------------------------------
(* runConnectorSync.                                                        *)

Doing(p, phase) == pass[p].phase = phase
\* A pass of the tick hands over to the dispatch sweep however it ends.
EndPass(p) ==
  /\ pass' = [pass EXCEPT ![p] = NoPass]
  /\ tick' = IF p = "tick" THEN "dispatch" ELSE tick

\* The connector is read, watermark and all; one that is disabled ends the pass.
Begin(p) ==
  /\ Doing(p, "idle")
  /\ IF p = "tick" THEN tick = "sync" /\ UNCHANGED spent ELSE Spend("sync")
  /\ IF enabled
       THEN /\ pass' = [pass EXCEPT ![p].phase = "begun", ![p].since = watermark]
            /\ UNCHANGED tick
       ELSE EndPass(p)
  /\ UNCHANGED <<foreignVars, rowVars, todo, current, asking, due, deliver, telling,
                 historyVars>>

\* fetchChangedIncidents: sys_updated_on > since.
Fetch(p) ==
  /\ Doing(p, "begun")
  /\ pass' = [pass EXCEPT ![p].phase = "fetched",
       ![p].got = {[inc |-> i, at |-> foreign[i].at, said |-> foreign[i].said] :
                     i \in {j \in Incident : foreign[j].at > pass[p].since}}]
  /\ fetched' = now
  /\ UNCHANGED <<foreignVars, rowVars, tick, todo, current, asking, due, deliver, telling,
                 tickets, acts, started, born, late, runs, posts, acked, spent>>

\* calculateConnectorSync compares strings.  A record's second reads "..:00Z", a
\* stored one "..:00.000Z": within one second the record's sorts after the other.
After(at, stored) == at >= stored
CommentTrigger(i, said) == IF After(said, origin[i].seen) THEN said ELSE NoTrigger
\* Our own note moves the timestamp.
OwnEcho(i, at) == ~After(at, origin[i].written)
AtCeiling(i) == origin[i].count >= DispatchCeiling

CreateDecision(o) ==
  [inc |-> o.inc, at |-> o.at, kind |-> "create", trigger |-> Created]
UpdateDecision(o) ==
  [inc |-> o.inc, at |-> o.at, kind |-> "update",
   trigger |-> IF AtCeiling(o.inc) THEN NoTrigger ELSE CommentTrigger(o.inc, o.said)]
Decisions(got) ==
  {CreateDecision(o) : o \in {u \in got : ~origin[u.inc].known}}
    \cup {UpdateDecision(o) : o \in {u \in got :
            /\ origin[u.inc].known
            /\ After(u.at, origin[u.inc].seen)
            /\ ~OwnEcho(u.inc, u.at)}}

\* The highest sys_updated_on of the fetch.
Newest(got, m) ==
  /\ m \in {o.at : o \in got} \cup {NoTime}
  /\ \A o \in got : o.at <= m

\* knownOrigins and the plan.  Too many creations refuse the pass: a rejection
\* is recorded, not counted as a failure.
Plan(p) ==
  /\ Doing(p, "fetched")
  /\ LET decisions == Decisions(pass[p].got) IN
       IF Cardinality({d \in decisions : d.kind = "create"}) > CreateCeiling
         THEN EndPass(p)
         ELSE /\ \E m \in Time : /\ Newest(pass[p].got, m)
                                 /\ pass' = [pass EXCEPT ![p].phase = "applying",
                                       ![p].got = {}, ![p].todo = decisions,
                                       ![p].mark = m]
              /\ UNCHANGED tick
  /\ UNCHANGED <<foreignVars, rowVars, todo, current, asking, due, deliver, telling,
                 historyVars, spent>>

\* Decisions are applied in the order of the fetch, oldest first.
Oldest(p, d) == d \in pass[p].todo /\ \A e \in pass[p].todo : d.at <= e.at

\* claimDispatch: (ticket_id, trigger_key) is unique.
Unclaimed(i, t) == ledger
Claimed(i, t) ==
  IF ledger[i][t] = "none" THEN [ledger EXCEPT ![i][t] = "deferred"] ELSE ledger

\* itsm_ticket_origins_external_uidx
AnyOrigin(i) == TRUE
OriginFree(i) == ~origin[i].known

\* One transaction: ticket, origin and claim.
ApplyCreate(p) ==
  /\ Doing(p, "applying")
  /\ \E d \in pass[p].todo :
       /\ Oldest(p, d) /\ d.kind = "create" /\ OriginFree(d.inc)
       /\ origin' = [origin EXCEPT ![d.inc].known = TRUE, ![d.inc].seen = d.at]
       /\ ledger' = Claimed(d.inc, d.trigger)
       /\ tickets' = [tickets EXCEPT ![d.inc] = @ + 1]
       /\ born' = [born EXCEPT ![d.inc] = d.at]
       /\ pass' = [pass EXCEPT ![p].todo = @ \ {d}]
  /\ UNCHANGED <<foreignVars, enabled, failures, watermark, note, run, proposal, tick, todo,
                 current, asking, due, deliver, telling, acts, started, fetched, late, runs,
                 posts, acked, spent>>

\* One transaction: the timestamp seen, and the claim the change justifies.
ApplyUpdate(p) ==
  /\ Doing(p, "applying")
  /\ \E d \in pass[p].todo :
       /\ Oldest(p, d) /\ d.kind = "update"
       /\ origin' = [origin EXCEPT ![d.inc].seen = d.at]
       /\ ledger' = IF d.trigger = NoTrigger THEN ledger ELSE Claimed(d.inc, d.trigger)
       /\ pass' = [pass EXCEPT ![p].todo = @ \ {d}]
  /\ UNCHANGED <<foreignVars, enabled, failures, watermark, note, run, proposal, tick, todo,
                 current, asking, due, deliver, telling, historyVars, spent>>

\* A pass that applied everything moves the watermark, if it fetched anything.
Marked(p) == IF pass[p].mark = NoTime THEN watermark ELSE pass[p].mark
Anyway(p) == TRUE
Everything(p) == pass[p].todo = {}
Succeed(p) ==
  /\ Doing(p, "applying") /\ Everything(p)
  /\ watermark' = Marked(p) /\ failures' = 0
  /\ EndPass(p)
  /\ UNCHANGED <<foreignVars, enabled, origin, ledger, note, run, proposal, todo, current, asking,
                 due, deliver, telling, historyVars, spent>>

\* The request fails, a statement fails, or an origin another pass inserted
\* meanwhile refuses the creation.
PassFails(p) ==
  /\ pass[p].phase \in {"begun", "fetched", "applying"}
  /\ IF Doing(p, "applying") /\ \E d \in pass[p].todo :
          Oldest(p, d) /\ d.kind = "create" /\ ~OriginFree(d.inc)
       THEN UNCHANGED spent ELSE Spend("fault")
  /\ pass' = [pass EXCEPT ![p] = [NoPass EXCEPT !.phase = "failing"]]
  /\ UNCHANGED <<foreignVars, rowVars, tick, todo, current, asking, due, deliver, telling,
                 historyVars>>

\* noteFailure reads the count, then writes it.
ReadFailures(p) ==
  /\ Doing(p, "failing")
  /\ pass' = [pass EXCEPT ![p].phase = "counting", ![p].seen = failures]
  /\ UNCHANGED <<foreignVars, rowVars, tick, todo, current, asking, due, deliver, telling,
                 historyVars, spent>>

CountFailure(p) ==
  /\ Doing(p, "counting")
  /\ failures' = pass[p].seen + 1
  /\ enabled' = IF failures' >= FailureCeiling THEN FALSE ELSE enabled
  /\ EndPass(p)
  /\ UNCHANGED <<foreignVars, watermark, origin, ledger, note, run, proposal, todo, current, asking,
                 due, deliver, telling, historyVars, spent>>

-----------------------------------------------------------------------------
(* runConnectorTick.                                                        *)

\* The connector may be due; if it is not, or disabled, nothing is polled.
TickStarts ==
  /\ tick = "rest"
  /\ tick' \in IF enabled THEN {"sync", "dispatch"} ELSE {"dispatch"}
  /\ UNCHANGED <<foreignVars, rowVars, pass, todo, current, asking, due, deliver, telling,
                 historyVars, spent>>

\* sweepDeferredDispatches selects the deferred rows, if a worker is connected.
Deferred == {x \in Incident \X Trigger : ledger[x[1]][x[2]] = "deferred"}
SelectDeferred ==
  /\ tick = "dispatch"
  /\ \/ todo' = Deferred /\ tick' = "starting"
     \/ tick' = "backfill" /\ UNCHANGED todo
  /\ UNCHANGED <<foreignVars, rowVars, pass, current, asking, due, deliver, telling,
                 historyVars, spent>>

\* startTicketRun starts a run,
StartRun(x) ==
  /\ tick = "starting" /\ x \in todo /\ current = NoCurrent
  /\ run[x[1]] # "running" /\ runs < MaxRuns
  /\ run' = [run EXCEPT ![x[1]] = "running"]
  /\ started' = [started EXCEPT ![x[1]][x[2]] = @ + 1]
  /\ runs' = runs + 1
  /\ current' = [step |-> "started", rows |-> {x}]
  /\ UNCHANGED <<foreignVars, enabled, failures, watermark, origin, ledger, note, proposal,
                 tick, pass, todo, asking, due, deliver, telling, tickets, acts, born, fetched,
                 late, posts, acked, spent>>

\* or a rule hands the ticket to a person, which returns the ticket,
SettledByRule(x) ==
  /\ tick = "starting" /\ x \in todo /\ current = NoCurrent
  /\ current' = [step |-> "started", rows |-> {x}]
  /\ UNCHANGED <<foreignVars, rowVars, tick, pass, todo, asking, due, deliver, telling,
                 historyVars, spent>>

\* or it refuses, as it does while a run is running; the row says so,
StartRefused(x) ==
  /\ tick = "starting" /\ x \in todo /\ current = NoCurrent
  /\ ledger' = [ledger EXCEPT ![x[1]][x[2]] = "refused"]
  /\ todo' = todo \ {x}
  /\ UNCHANGED <<foreignVars, enabled, failures, watermark, origin, note, run, proposal,
                 tick, pass, current, asking, due, deliver, telling, historyVars, spent>>

\* or the worker has gone meanwhile, and the row waits for the next sweep.
WorkerGone(x) ==
  /\ tick = "starting" /\ x \in todo /\ current = NoCurrent
  /\ todo' = todo \ {x}
  /\ UNCHANGED <<foreignVars, rowVars, tick, pass, current, asking, due, deliver, telling,
                 historyVars, spent>>

\* The row is recorded, then counted on the origin; what matters of the count
\* is whether it has reached the ceiling.
LeftDeferred(x) == ledger
Recorded(x) == [ledger EXCEPT ![x[1]][x[2]] = "dispatched"]
RecordDispatch ==
  /\ current.step = "started"
  /\ \E x \in current.rows : ledger' = Recorded(x)
  /\ current' = [current EXCEPT !.step = "recorded"]
  /\ UNCHANGED <<foreignVars, enabled, failures, watermark, origin, note, run, proposal,
                 tick, pass, todo, asking, due, deliver, telling, historyVars, spent>>

CountDispatch ==
  /\ current.step = "recorded"
  /\ \E x \in current.rows : origin' =
       [origin EXCEPT ![x[1]].count = IF @ < DispatchCeiling THEN @ + 1 ELSE @]
  /\ todo' = todo \ current.rows
  /\ current' = NoCurrent
  /\ UNCHANGED <<foreignVars, enabled, failures, watermark, ledger, note, run, proposal,
                 tick, pass, asking, due, deliver, telling, historyVars, spent>>

DispatchDone ==
  /\ tick = "starting" /\ todo = {}
  /\ tick' = "backfill"
  /\ UNCHANGED <<foreignVars, rowVars, pass, todo, current, asking, due, deliver,
                 telling, historyVars, spent>>

\* backfillProposalOutcomes asks, one after the other, what became of the
\* incidents proposed on.
SelectProposals ==
  /\ tick = "backfill"
  /\ asking' = proposal /\ tick' = "asking"
  /\ UNCHANGED <<foreignVars, rowVars, pass, todo, current, due, deliver, telling,
                 historyVars, spent>>

\* There is an answer, or none yet.
AskOutcome(i) ==
  /\ tick = "asking" /\ i \in asking
  /\ i \notin Gone \/ ~enabled
  /\ proposal' \in IF enabled THEN {proposal, proposal \ {i}} ELSE {proposal}
  /\ asking' = asking \ {i}
  /\ UNCHANGED <<foreignVars, enabled, failures, watermark, origin, ledger, note,
                 run, tick, pass, todo, current, due, deliver, telling,
                 historyVars, spent>>

\* A request that fails throws out of the tick: the notes wait for the next one.
AfterAskFails == "rest"
AskFails(i) ==
  /\ tick = "asking" /\ i \in asking /\ enabled
  /\ IF i \in Gone THEN UNCHANGED spent ELSE Spend("fault")
  /\ tick' = AfterAskFails /\ asking' = {}
  /\ UNCHANGED <<foreignVars, rowVars, pass, todo, current, due, deliver, telling,
                 historyVars>>

BackfillDone ==
  /\ tick = "asking" /\ asking = {}
  /\ tick' = "select"
  /\ UNCHANGED <<foreignVars, rowVars, pass, todo, current, asking, due, deliver,
                 telling, historyVars, spent>>

-----------------------------------------------------------------------------
(* Work notes.                                                              *)

\* A run ends.  Only a terminal update calls onRunTerminal; a cancellation or
\* an expired lease does not.
RunEnds(i, terminal) ==
  /\ run[i] = "running"
  /\ run' = [run EXCEPT ![i] = "ended"]
  /\ telling' = IF terminal THEN telling \cup {i} ELSE telling
  /\ UNCHANGED <<foreignVars, enabled, failures, watermark, origin, ledger, note, proposal,
                 tick, pass, todo, current, asking, due, deliver, historyVars, spent>>

\* onRunTerminal: a run that was in shadow leaves a proposal,
RecordProposal(i) ==
  /\ i \in telling
  /\ proposal' = proposal \cup {i}
  /\ UNCHANGED <<foreignVars, enabled, failures, watermark, origin, ledger, note,
                 run, memoryVars, historyVars, spent>>

\* and queueWorkNote, unless the connector is disabled.
QueueNote(i) ==
  /\ i \in telling
  /\ telling' = telling \ {i}
  /\ IF enabled
       THEN \E n \in Note :
              /\ note[n].status = "absent"
              /\ note' = [note EXCEPT ![n].status = "pending", ![n].inc = i]
       ELSE UNCHANGED note
  /\ UNCHANGED <<foreignVars, enabled, failures, watermark, origin, ledger, run, proposal,
                 tick, pass, todo, current, asking, due, deliver, historyVars, spent>>

\* sweepWritebacks selects what is due: every pending note, and the retrying
\* ones whose delay has passed.  A note being delivered is not looked at.
SweepableAll == {"pending", "retrying", "delivering"}
Sweepable == {"pending", "retrying"}
SelectDue ==
  /\ tick = "select"
  /\ due' \in {S \in SUBSET {n \in Note : note[n].status \in Sweepable} :
               \A n \in Note : note[n].status = "pending" /\ enabled => n \in S}
  /\ enabled \/ due' = {}
  /\ tick' = "notes"
  /\ UNCHANGED <<foreignVars, rowVars, pass, todo, current, asking, deliver, telling,
                 historyVars, spent>>

\* The sweep takes the next note; loadConnectorClient refuses a connector that
\* has been disabled meanwhile.
TakeDue(n) ==
  /\ tick = "notes" /\ n \in due /\ deliver["sweep"].phase = "idle"
  /\ due' = due \ {n}
  /\ deliver' = IF enabled
       THEN [deliver EXCEPT !["sweep"].phase = "claiming", !["sweep"].note = n]
       ELSE deliver
  /\ UNCHANGED <<foreignVars, rowVars, tick, pass, todo, current, asking, telling,
                 historyVars, spent>>

SweepDone ==
  /\ tick = "notes" /\ due = {} /\ deliver["sweep"].phase = "idle"
  /\ tick' = "rest"
  /\ UNCHANGED <<foreignVars, rowVars, pass, todo, current, asking, due, deliver, telling,
                 historyVars, spent>>

\* retryConnectorWriteback resets the row, whatever it says, and delivers it.
Retry(n) ==
  /\ note[n].status # "absent" /\ enabled /\ deliver["retry"].phase = "idle"
  /\ Spend("retry")
  /\ note' = [note EXCEPT ![n].status = "retrying"]
  /\ deliver' = [deliver EXCEPT !["retry"].phase = "claiming", !["retry"].note = n]
  /\ UNCHANGED <<foreignVars, enabled, failures, watermark, origin, ledger, run, proposal,
                 tick, pass, todo, current, asking, due, telling, historyVars>>

\* deliverWriteback: the claim.  The lease of a note being delivered may have
\* run out or not.
Claimable(n) ==
  note[n].status \in {"pending", "retrying", "delivering"}
    /\ note[n].attempts < MaxAttempts
Claim(d) ==
  /\ deliver[d].phase = "claiming"
  /\ LET n == deliver[d].note IN
       /\ Claimable(n)
       /\ note' = [note EXCEPT ![n].status = "delivering", ![n].attempts = @ + 1]
       /\ deliver' = [deliver EXCEPT ![d].phase = "posting",
                                    ![d].attempt = note[n].attempts + 1]
  /\ UNCHANGED <<foreignVars, enabled, failures, watermark, origin, ledger, run, proposal,
                 tick, pass, todo, current, asking, due, telling, historyVars, spent>>

Skip(d) ==
  /\ deliver[d].phase = "claiming"
  /\ ~Claimable(deliver[d].note) \/ note[deliver[d].note].status = "delivering"
  /\ deliver' = [deliver EXCEPT ![d] = NoDelivery]
  /\ UNCHANGED <<foreignVars, rowVars, tick, pass, todo, current, asking, due, telling,
                 historyVars, spent>>

\* postWorkNote: taken and answered, taken without an answer, or not taken.
Post(d, taken, answered) ==
  /\ deliver[d].phase = "posting"
  /\ answered => taken
  /\ IF answered THEN UNCHANGED spent ELSE Spend(IF taken THEN "lost" ELSE "fault")
  /\ LET n == deliver[d].note  i == note[n].inc IN
       /\ foreign' = IF taken THEN [foreign EXCEPT ![i].at = now] ELSE foreign
       /\ late' = IF taken /\ fetched = now THEN late \cup {i} ELSE late
       /\ posts' = IF taken THEN [posts EXCEPT ![n] = @ + 1] ELSE posts
       /\ acked' = IF answered THEN acked \cup {n} ELSE acked
       /\ deliver' = [deliver EXCEPT ![d].phase = "posted",
                                    ![d].at = IF answered THEN now ELSE NoTime]
  /\ UNCHANGED <<now, rowVars, tick, pass, todo, current, asking, due, telling, tickets, acts,
                 started, born, fetched, runs>>

\* writebackOutcome, written while the row is still being delivered.
RetryFor(attempt, failed) == IF failed THEN "retrying" ELSE "succeeded"
OutcomeOf(attempt, failed) ==
  IF ~failed THEN "succeeded"
  ELSE IF attempt >= MaxAttempts THEN "failed" ELSE "retrying"
StillDelivering(n) == note[n].status = "delivering"
Conclude(d) ==
  /\ deliver[d].phase = "posted"
  /\ LET n == deliver[d].note  failed == deliver[d].at = NoTime IN
       /\ note' = IF StillDelivering(n)
            THEN [note EXCEPT ![n].status = OutcomeOf(deliver[d].attempt, failed)]
            ELSE note
       /\ deliver' = [deliver EXCEPT ![d] =
                        IF failed THEN NoDelivery ELSE [@ EXCEPT !.phase = "echo"]]
  /\ UNCHANGED <<foreignVars, enabled, failures, watermark, origin, ledger, run, proposal,
                 tick, pass, todo, current, asking, due, telling, historyVars, spent>>

\* The timestamp our note produced, so that the next poll knows its echo.
RecordEcho(d) ==
  /\ deliver[d].phase = "echo"
  /\ origin' = [origin EXCEPT ![note[deliver[d].note].inc].written = deliver[d].at]
  /\ deliver' = [deliver EXCEPT ![d] = NoDelivery]
  /\ UNCHANGED <<foreignVars, enabled, failures, watermark, ledger, note, run, proposal, tick,
                 pass, todo, current, asking, due, telling, historyVars, spent>>

-----------------------------------------------------------------------------
\* The process dies and starts again: the rows are what is left.
Restart ==
  /\ Spend("crash")
  /\ tick' = "rest" /\ pass' = [p \in Pass |-> NoPass]
  /\ todo' = {} /\ current' = NoCurrent /\ asking' = {}
  /\ due' = {} /\ deliver' = [d \in Deliverer |-> NoDelivery] /\ telling' = {}
  /\ UNCHANGED <<foreignVars, rowVars, historyVars>>

PassStep(p) ==
  \/ Fetch(p) \/ Plan(p) \/ ApplyCreate(p) \/ ApplyUpdate(p) \/ Succeed(p)
  \/ ReadFailures(p) \/ CountFailure(p)
Dispatches(x) ==
  StartRun(x) \/ SettledByRule(x) \/ StartRefused(x)
TickStep ==
  \/ TickStarts \/ SelectDeferred \/ RecordDispatch \/ CountDispatch
  \/ DispatchDone \/ SelectProposals \/ BackfillDone \/ SelectDue \/ SweepDone
  \/ \E x \in Incident \X Trigger : Dispatches(x) \/ WorkerGone(x)
  \/ \E n \in Note : TakeDue(n)
  \/ \E i \in Incident : AskOutcome(i) \/ AskFails(i)
DeliverStep(d) ==
  \/ Claim(d) \/ Skip(d) \/ Conclude(d) \/ RecordEcho(d)
  \/ \E taken, answered \in BOOLEAN : Post(d, taken, answered)

Next ==
  \/ TimePasses \/ SwitchConnector \/ Restart \/ TickStep
  \/ \E i \in Incident : \/ \E b \in BOOLEAN : CustomerActs(i, b) \/ RunEnds(i, b)
                        \/ RecordProposal(i) \/ QueueNote(i)
  \/ \E p \in Pass : Begin(p) \/ PassStep(p) \/ PassFails(p)
  \/ \E n \in Note : Retry(n)
  \/ \E d \in Deliverer : DeliverStep(d)

Spec == Init /\ [][Next]_vars

\* The timer rearms whatever a tick did, and what is awaited returns.  A worker
\* that reconnects is, in the end, there when the sweep looks for it, and a
\* retry's delay is over some day.
Fairness ==
  /\ WF_vars(TickStep) /\ WF_vars(Begin("tick"))
  /\ \A p \in Pass : WF_vars(PassStep(p) \/ PassFails(p))
  /\ \A d \in Deliverer : WF_vars(DeliverStep(d))
  /\ SF_vars(tick = "dispatch" /\ tick' = "starting" /\ SelectDeferred)
  /\ \A x \in Incident \X Trigger : SF_vars(Dispatches(x))
  /\ \A n \in Note : SF_vars(SelectDue /\ n \in due')
FairSpec == Spec /\ Fairness

-----------------------------------------------------------------------------
(* Properties.                                                              *)

\* Every variable has its type: nothing is recorded that the schema does not allow.
PassRow == [phase : PassPhase, since : Time, got : SUBSET Observation,
            todo : SUBSET Decision, mark : Time, seen : Nat]
RowTypeOK ==
  /\ now \in 1 .. MaxTime /\ foreign \in [Incident -> Foreign]
  /\ enabled \in BOOLEAN /\ failures \in Nat /\ watermark \in Time
  /\ origin \in [Incident -> Origin]
  /\ ledger \in [Incident -> [Trigger -> Outcome]]
  /\ note \in [Note -> NoteRow]
  /\ run \in [Incident -> {"none", "running", "ended"}] /\ proposal \subseteq Incident
MemoryTypeOK ==
  /\ tick \in {"rest", "sync", "dispatch", "starting", "backfill", "asking", "select",
              "notes"}
  /\ pass \in [Pass -> PassRow]
  /\ todo \subseteq Incident \X Trigger
  /\ current \in [step : {"none", "started", "recorded"}, rows : SUBSET (Incident \X Trigger)]
  /\ asking \subseteq Incident
  /\ due \subseteq Note /\ deliver \in [Deliverer -> Delivery]
  /\ telling \subseteq Incident
HistoryTypeOK ==
  /\ tickets \in [Incident -> Nat] /\ started \in [Incident -> [Trigger -> Nat]]
  /\ born \in [Incident -> Time] /\ fetched \in Time /\ late \subseteq Incident
  /\ posts \in [Note -> Nat] /\ acked \subseteq Note
  /\ spent \in [Disturbance -> Nat]
TypeOK == RowTypeOK /\ MemoryTypeOK /\ HistoryTypeOK

\* What a tick does it does in turn, one row at a time.
OneThingAtATime ==
  /\ pass["tick"].phase # "idle" => tick = "sync"
  /\ deliver["sweep"].phase # "idle" => tick = "notes"
  /\ IF current.step = "none" THEN current.rows = {}
     ELSE tick = "starting" /\ \E x \in todo : current.rows = {x}

\* What is delivered, or about to be, is about an incident.
NotesAreAbout ==
  /\ \A n \in Note : note[n].status # "absent" => note[n].inc \in Incident
  /\ \A n \in due : note[n].status # "absent"
  /\ \A d \in Deliverer : deliver[d].phase # "idle" =>
       deliver[d].note \in Note /\ note[deliver[d].note].status # "absent"

\* One incident, one ticket: passes that run side by side, fail half-way or are
\* repeated after a restart create no second one.
OneTicket == \A i \in Incident : tickets[i] <= 1

\* One transition starts at most one run while the process lives, however often
\* it is observed and however often its dispatch is deferred.
StartedOnce ==
  spent["crash"] = 0 => \A i \in Incident : \A t \in Trigger : started[i][t] <= 1

\* What the watermark has passed was imported: an incident has its ticket,
\* unless it changed in a second that had already been fetched.
PassedIsImported ==
  \A i \in Incident :
    foreign[i].at # NoTime /\ foreign[i].at <= watermark
      /\ i \notin late => origin[i].known

\* A customer's comment was claimed for a run once the watermark has passed its
\* incident, unless it came with the incident or at the ceiling.  (While a note
\* of ours has moved the incident beyond the watermark, the comment may wait.)
PassedIsAnswered ==
  \A i \in Incident :
    LET c == foreign[i].said IN
    /\ origin[i].known /\ i \notin late
    /\ born[i] < c /\ foreign[i].at <= watermark
    /\ ~AtCeiling(i)
    => ledger[i][c] # "none"

\* A note the other system answered for is not posted again, whatever fails or
\* dies afterwards, unless an operator retries it.
AckedIsNotRepeated ==
  [][spent["retry"] = 0 => \A n \in acked : posts'[n] = posts[n]]_vars

\* One ticket for an incident that has an origin, none before.
TicketsHaveOrigins == \A i \in Incident : tickets[i] = (IF origin[i].known THEN 1 ELSE 0)

\* A row is in the sweep's hands as long as it is deferred, and what was started
\* is recorded before the sweep lets go of it.
StartsAreClaimed ==
  /\ \A x \in todo : ledger[x[1]][x[2]] =
       (IF x \in current.rows /\ current.step = "recorded" THEN "dispatched" ELSE "deferred")
  /\ spent["crash"] = 0 => \A x \in Incident \X Trigger :
       \/ started[x[1]][x[2]] = 0
       \/ started[x[1]][x[2]] = 1 /\ x \in current.rows
       \/ /\ started[x[1]][x[2]] = 1 /\ x \notin todo
          /\ ledger[x[1]][x[2]] \in {"dispatched", "refused"}

\* Nothing was read, written or marked later than it happened.
PassTimes(r) ==
  /\ r.since <= fetched /\ r.mark <= fetched
  /\ \A o \in r.got : o.at <= fetched /\ o.at <= foreign[o.inc].at
  /\ \A d \in r.todo : d.at <= fetched /\ d.at <= foreign[d.inc].at
TimesAgree ==
  /\ watermark <= fetched /\ fetched <= now
  /\ \A i \in Incident : /\ foreign[i].said <= foreign[i].at /\ foreign[i].at <= now
                         /\ origin[i].seen <= foreign[i].at
                         /\ origin[i].written <= foreign[i].at
  /\ \A p \in Pass : PassTimes(pass[p])
  /\ \A d \in Deliverer : deliver[d].phase \in {"posted", "echo"} =>
       deliver[d].at <= foreign[note[deliver[d].note].inc].at

\* A comment that should start a run and was not claimed for one.
Owed(i) ==
  /\ origin[i].known /\ i \notin late /\ born[i] < foreign[i].said
  /\ ~AtCeiling(i) /\ ledger[i][foreign[i].said] = "none"
Settled(i) == origin[i].known /\ ~Owed(i)
Changed(i) == foreign[i].at # NoTime /\ i \notin late
SettledUpTo(m) == \A i \in Incident : Changed(i) /\ foreign[i].at <= m => Settled(i)

\* What a pass holds is the latest of an incident, or the incident lies beyond
\* what the pass can mark; and it holds a decision for whatever is not settled.
Beyond(r, i) == \A o \in r.got : o.at < foreign[i].at
GotIsCurrent(r) ==
  \A o \in r.got : o.inc \notin late =>
    /\ o.at = foreign[o.inc].at \/ Beyond(r, o.inc)
    /\ foreign[o.inc].said <= o.at => o.said = foreign[o.inc].said
GotCovers(r) ==
  \A i \in Incident : Changed(i) =>
    \/ Settled(i) \/ Beyond(r, i)
    \/ \E o \in r.got : o.inc = i /\ o.at = foreign[i].at
DecisionsAreCurrent(r) ==
  \A d \in r.todo :
    /\ d.kind = "update" => origin[d.inc].known
    /\ d.inc \notin late =>
         /\ d.at = foreign[d.inc].at \/ r.mark < foreign[d.inc].at
         /\ d.kind = "update" /\ foreign[d.inc].said < d.at
              => d.trigger = foreign[d.inc].said \/ ~Owed(d.inc)
DecisionsCover(r) ==
  \A i \in Incident : Changed(i) /\ foreign[i].at <= r.mark =>
    \/ Settled(i)
    \/ \E d \in r.todo : d.inc = i /\ (d.kind = "create" \/ d.trigger = foreign[i].said)
PassHolds(r) ==
  /\ SettledUpTo(r.since) /\ GotIsCurrent(r) /\ DecisionsAreCurrent(r)
  /\ r.phase = "fetched" => GotCovers(r)
  /\ r.phase = "applying" => DecisionsCover(r)
NothingIsPassedOver ==
  /\ SettledUpTo(watermark) /\ \A p \in Pass : PassHolds(pass[p])
  /\ \A i \in Incident : foreign[i].said < origin[i].seen => ~Owed(i)

\* A note that was answered for is out of the sweep's reach.
AckedIsSettled ==
  spent["retry"] = 0 =>
    LET sweep == deliver["sweep"] IN
    /\ deliver["retry"].phase = "idle"
    /\ \A n \in due : note[n].status \in {"pending", "retrying"}
    /\ \A n \in acked : note[n].status \in {"delivering", "succeeded"}
    /\ sweep.phase = "claiming" => note[sweep.note].status \in {"pending", "retrying"}
    /\ sweep.phase = "posting" => sweep.note \notin acked
    /\ sweep.phase \in {"posting", "posted"} => note[sweep.note].status = "delivering"
    /\ sweep.phase = "posted" /\ sweep.note \in acked => sweep.at # NoTime
    /\ sweep.phase # "idle" => sweep.note \notin due

\* What the proofs take from one state to the next.
ConnectorInv ==
  /\ TypeOK /\ OneThingAtATime /\ NotesAreAbout /\ TicketsHaveOrigins /\ StartsAreClaimed
  /\ TimesAgree /\ NothingIsPassedOver /\ AckedIsSettled

\* A queued note is delivered or given up, unless the process dies over it, an
\* operator disables the connector or retries a note that was given up, or a
\* proposal is about an incident that the other system no longer answers for.
NotesSettle ==
  \A n \in Note :
    note[n].status = "pending" ~>
      \/ note[n].status \in {"succeeded", "failed"}
      \/ ~enabled \/ spent["crash"] > 0 \/ spent["retry"] > 0
      \/ proposal \cap Gone # {}

\* A claimed dispatch is a row, not an intention: it is dispatched or refused in
\* the end, across restarts and absent workers.
DispatchesSettle ==
  \A i \in Incident : \A t \in Trigger :
    ledger[i][t] = "deferred" ~> ledger[i][t] \in {"dispatched", "refused"}
=============================================================================
