--------------------------- MODULE ServiceLevels ---------------------------
(***************************************************************************)
(* Tickets waiting for their reporter and the stopwatches of their service *)
(* level (api/src/server/pending.ts, sla/*.ts), under the writers of       *)
(* tickets.status: a person's updateTicket, the reporter's answer, the     *)
(* agent and the start of a run.                                           *)
(*                                                                         *)
(* updateTicket reads the ticket, then commits with a compare-and-set on   *)
(* the status alone and writes the rest back as it read it.  The sweeps    *)
(* select a batch and then work through it, one transaction a row.         *)
(* Everything else is one transaction.                                     *)
(***************************************************************************)
EXTENDS Integers, FiniteSets, TicketLifecycle

CONSTANTS
  Ticket,       \* tickets of one policy with one pending reason
  WarningAt,    \* working time at which a target's warning rule is crossed
  BreachAt,     \* working time at which its breach rule is crossed
  Followups,    \* pending_reasons.followups_before_resolution
  Frequency,    \* pending_reasons.followup_frequency_minutes, in ticks
  SweepLimit,   \* rows a sweep selects
  MaxTime,      \* bound: ticks of working time
  MaxActs,      \* bound: updateTicket calls
  MaxCalls,     \* bound: updateTicket calls at the same time
  MaxRuns       \* bound: runs started

Target == {"response", "resolution"}
Rule == {"warning", "breach"}
ASSUME ServiceLevelsAssumption ==
  /\ WarningAt \in [Target -> Nat] /\ BreachAt \in [Target -> Nat]
  /\ \A g \in Target : WarningAt[g] <= BreachAt[g]
  /\ Followups \in Nat /\ Frequency \in Nat \ {0} /\ SweepLimit \in Nat \ {0}
  /\ {MaxTime, MaxActs, MaxCalls, MaxRuns} \subseteq Nat

NotDue == -1   \* pending_until: null
Time == 0 .. MaxTime
Row == [status : TicketStatus, flag : Rule \cup {"none"},
        due : {NotDue} \cup 0 .. MaxTime + Frequency,
        followups : 0 .. Followups, reopened : BOOLEAN]
Watch == [running : BOOLEAN, started : Time, accumulated : Time]
PersonAction == {"pend", "unpend", "resolve", "close", "escalate", "reopen", "edit"}

VARIABLES
  clock,     \* working time
  ticket,    \* the tickets
  watch,     \* ticket_stopwatches, by ticket and target
  fired,     \* sla_escalation_events, by ticket, target and rule
  call,      \* updateTicket calls between their read and their commit
  starting,  \* startTicketRun between its commit and the end of its dispatch
  marking,   \* what sweepSla has selected and not yet marked
  chasing,   \* what sweepPending has selected and not yet followed up
  worked,    \* history: the time each target really counted, until astray
  asked,     \* history: follow-ups of the present spell of waiting
  spell,     \* history: spells of waiting so far
  restored,  \* history: tickets that show the follow-ups of an earlier spell,
             \* written back by a call that had read them then
  breach,    \* history: is a breach marked and not yet taken back by a person?
  astray,    \* history: tickets whose start was undone after they had moved
  acts, runs

vars == <<clock, ticket, watch, fired, call, starting, marking, chasing,
          worked, asked, spell, restored, breach, astray, acts, runs>>
boundVars == <<acts, runs>>
historyVars == <<worked, asked, spell, restored, breach, astray>>

Init ==
  /\ clock = 0 /\ fired = {} /\ call = {} /\ marking = {} /\ chasing = {}
  /\ ticket = [t \in Ticket |-> [status |-> "open", flag |-> "none", due |-> NotDue,
                                 followups |-> 0, reopened |-> FALSE]]
  /\ watch = [t \in Ticket |-> [g \in Target |->
                [running |-> TRUE, started |-> 0, accumulated |-> 0]]]
  /\ starting = [t \in Ticket |-> "no"]
  /\ worked = [t \in Ticket |-> [g \in Target |-> 0]]
  /\ asked = [t \in Ticket |-> 0] /\ spell = [t \in Ticket |-> 0]
  /\ breach = [t \in Ticket |-> FALSE] /\ astray = {} /\ restored = {}
  /\ acts = 0 /\ runs = 0

-----------------------------------------------------------------------------
(* The stopwatches.                                                         *)

\* Does a target's time run in a status?
Counts(status, target) ==
  IF target = "response" THEN status = "open"
                         ELSE status \notin {"pending", "resolved", "closed"}

\* transitionStopwatch: what it measured so far is kept.
Elapsed(w, now) == w.accumulated + (IF w.running THEN now - w.started ELSE 0)
\* (started_at of a stopped watch is left out: only the time paused is counted
\* from it, which nothing here reads.)
Dropped(w, running) ==
  [running |-> running, started |-> IF running THEN clock ELSE 0,
   accumulated |-> w.accumulated]
Checkpoint(w, running) ==
  [running |-> running, started |-> IF running THEN clock ELSE 0,
   accumulated |-> Elapsed(w, clock)]
Transitioned(w, running) == IF w.running = running THEN w ELSE Checkpoint(w, running)

\* transitionTicketStopwatches.
Watches(t, status) ==
  [watch EXCEPT ![t] = [g \in Target |-> Transitioned(@[g], Counts(status, g))]]

-----------------------------------------------------------------------------
(* A person: updateTicket.                                                  *)

\* reclassify, assign and add_detail keep the status; some edge of theirs
\* leaves every status but closed.
Allowed(row, action) ==
  IF action = "edit" THEN row.status # "closed" ELSE HasEdge(row.status, action)

\* The reads before the transaction, and the checks on what they returned.
ReadForUpdate(t, action) ==
  /\ Cardinality(call) < MaxCalls /\ acts < MaxActs /\ acts' = acts + 1
  /\ Allowed(ticket[t], action)
  /\ action = "reopen" => ~ticket[t].reopened
  /\ call' = call \cup {[ticket |-> t, action |-> action, seen |-> ticket[t],
                           spell |-> spell[t]]}
  /\ UNCHANGED <<clock, ticket, watch, fired, starting, marking, chasing,
                 historyVars, runs>>

StatusAfter(c) == IF c.action = "edit" THEN c.seen.status
                                       ELSE After(c.seen.status, c.action)
TakesFlagBack(action) == action \in {"reopen", "pend", "unpend", "escalate"}

\* The row as updateTicket writes it, from what it read.
Updated(c) ==
  [status    |-> StatusAfter(c),
   flag      |-> CASE c.action = "escalate" -> "warning"
                   [] c.action \in {"reopen", "pend", "unpend"} -> "none"
                   [] OTHER -> c.seen.flag,
   due       |-> CASE c.action = "pend" -> clock + Frequency
                   [] c.action = "unpend" -> NotDue
                   [] OTHER -> c.seen.due,
   followups |-> IF c.action = "pend" THEN 0 ELSE c.seen.followups,
   reopened  |-> c.seen.reopened \/ c.action = "reopen"]

Unmoved(c) == ticket[c.ticket].status = c.seen.status
CommitUpdate(c) ==
  /\ c \in call /\ call' = call \ {c}
  /\ IF Unmoved(c)
     THEN LET t == c.ticket IN
          /\ ticket' = [ticket EXCEPT ![t] = Updated(c)]
          /\ watch' = IF StatusAfter(c) = c.seen.status
                      THEN watch ELSE Watches(t, StatusAfter(c))
          /\ breach' = [breach EXCEPT ![t] = @ /\ ~TakesFlagBack(c.action)
                                               /\ ticket[t].flag = c.seen.flag]
          /\ asked' = [asked EXCEPT ![t] = IF c.action = "pend" THEN 0 ELSE @]
          /\ spell' = [spell EXCEPT ![t] = IF c.action = "pend" THEN @ + 1 ELSE @]
          /\ restored' = IF c.action = "pend" THEN restored \ {t}
                         ELSE IF c.spell # spell[t] THEN restored \cup {t} ELSE restored
     ELSE UNCHANGED <<ticket, watch, breach, asked, spell, restored>>
  /\ UNCHANGED <<clock, fired, starting, marking, chasing, worked, astray, boundVars>>

-----------------------------------------------------------------------------
(* The reporter and the agent.                                              *)

Move(t, status) ==
  /\ ticket' = [ticket EXCEPT ![t].status = status]
  /\ watch' = Watches(t, status)

\* addMyTicketMessage takes the ticket off hold; flag and follow-ups stay.
ReporterAnswers(t) ==
  /\ HasEdge(ticket[t].status, "unpend")
  /\ ticket' = [ticket EXCEPT ![t].status = After(@, "unpend"), ![t].due = NotDue]
  /\ watch' = Watches(t, After(ticket[t].status, "unpend"))
  /\ UNCHANGED <<clock, fired, call, starting, marking, chasing, historyVars, boundVars>>

\* handleToolRequest and persistRunUpdate.
AgentMoves(t, action) ==
  /\ HasEdge(ticket[t].status, action)
  /\ ticket[t].status \in {"routing", "resolving"}
  /\ Move(t, After(ticket[t].status, action))
  /\ UNCHANGED <<clock, fired, call, starting, marking, chasing, historyVars, boundVars>>

\* startTicketRun: the ticket is routed first, the run dispatched afterwards.
StartRun(t) ==
  /\ runs < MaxRuns /\ runs' = runs + 1
  /\ starting[t] = "no" /\ HasEdge(ticket[t].status, "startRun")
  /\ Move(t, After(ticket[t].status, "startRun"))
  /\ starting' = [starting EXCEPT ![t] = ticket[t].status]
  /\ UNCHANGED <<clock, fired, call, marking, chasing, historyVars, acts>>

Dispatched(t) ==
  /\ starting[t] # "no"
  /\ starting' = [starting EXCEPT ![t] = "no"]
  /\ UNCHANGED <<clock, ticket, watch, fired, call, marking, chasing, historyVars,
                 boundVars>>

\* The compensation restores the status only where the ticket is still being
\* routed, the stopwatches wherever it is.
DispatchFails(t) ==
  /\ starting[t] # "no"
  /\ starting' = [starting EXCEPT ![t] = "no"]
  /\ ticket' = [ticket EXCEPT ![t].status = IF @ = "routing" THEN starting[t] ELSE @]
  /\ watch' = Watches(t, starting[t])
  /\ IF ticket[t].status = "routing"
     THEN UNCHANGED <<astray, worked>>
     ELSE /\ astray' = astray \cup {t}
          /\ worked' = [worked EXCEPT ![t] = [g \in Target |-> 0]]
  /\ UNCHANGED <<clock, fired, call, marking, chasing, asked, spell, restored, breach, boundVars>>

-----------------------------------------------------------------------------
(* sweepSla.                                                                *)

ThresholdOf(g, r) == IF r = "breach" THEN BreachAt[g] ELSE WarningAt[g]
Unfired(t, g) == \E r \in Rule : <<t, g, r>> \notin fired

\* The batches a query with ORDER BY and LIMIT may return, for rows that each have an age.
Oldest(age) ==
  LET rows == DOMAIN age IN
  {b \in SUBSET rows :
     /\ Cardinality(b) = (IF Cardinality(rows) < SweepLimit
                          THEN Cardinality(rows) ELSE SweepLimit)
     /\ \A x \in b, y \in rows \ b : age[x] <= age[y]}

RunningWatches ==
  {[ticket |-> t, target |-> g, seen |-> watch[t][g], now |-> clock] :
     t \in Ticket, g \in Target}
Markable == {w \in RunningWatches : w.seen.running /\ Unfired(w.ticket, w.target)}
Started == [w \in Markable |-> w.seen.started]

SelectWatches ==
  /\ marking = {} /\ Markable # {}
  /\ \E b \in Oldest(Started) : marking' = b
  /\ UNCHANGED <<clock, ticket, watch, fired, call, starting, chasing, historyVars,
                 boundVars>>

Crossed(w) == {r \in Rule : Elapsed(w.seen, w.now) >= ThresholdOf(w.target, r)}
\* Only the highest rule that is crossed is marked.
LowestCrossed(w) == {r \in Crossed(w) : r = "warning" \/ "warning" \notin Crossed(w)}
HighestCrossed(w) == {r \in Crossed(w) : r = "breach" \/ "breach" \notin Crossed(w)}
\* A warning never replaces a breach.
FlaggedLast(flag, r) == r
Flagged(flag, r) == IF r = "breach" \/ flag # "breach" THEN r ELSE flag

MarkWatch(w) ==
  /\ w \in marking /\ marking' = marking \ {w}
  /\ IF \E r \in HighestCrossed(w) : <<w.ticket, w.target, r>> \notin fired
     THEN \E r \in HighestCrossed(w) :
            /\ fired' = fired \cup {<<w.ticket, w.target, r>>}
            /\ ticket' = [ticket EXCEPT ![w.ticket].flag = Flagged(@, r)]
            /\ breach' = [breach EXCEPT ![w.ticket] = @ \/ r = "breach"]
     ELSE UNCHANGED <<fired, ticket, breach>>
  /\ UNCHANGED <<clock, watch, call, starting, chasing, worked, asked, spell, restored, astray,
                 boundVars>>

-----------------------------------------------------------------------------
(* sweepPending.                                                            *)

OnTheDot(t) == ticket[t].status = "pending" /\ ticket[t].due = clock
Overdue(t) == ticket[t].status = "pending" /\ ticket[t].due <= clock
Waiting == {[ticket |-> t, seen |-> ticket[t], now |-> clock, spell |-> spell[t]] :
              t \in {u \in Ticket : Overdue(u)}}
Due == [p \in Waiting |-> p.seen.due]

SelectPending ==
  /\ chasing = {} /\ Waiting # {}
  /\ \E b \in Oldest(Due) : chasing' = b
  /\ UNCHANGED <<clock, ticket, watch, fired, call, starting, marking, historyVars,
                 boundVars>>

AlmostAllAsked(p) == p.seen.followups + 1 >= Followups
AllAsked(p) == p.seen.followups + 1 > Followups
StillPending(p) == ticket[p.ticket].status = p.seen.status
StillWaiting(p) == StillPending(p) /\ ticket[p.ticket].followups = p.seen.followups

\* The first slot of the cadence that is ahead of the sweep's now.
NextSlot(p) == CHOOSE d \in p.now + 1 .. p.now + Frequency :
                 (d - p.seen.due) % Frequency = 0

AutoResolve(p) ==
  /\ p \in chasing /\ chasing' = chasing \ {p}
  /\ AllAsked(p)
  /\ IF StillPending(p)
     THEN /\ ticket' = [ticket EXCEPT ![p.ticket].status = After("pending", "resolve"),
                                      ![p.ticket].due = NotDue]
          /\ watch' = Watches(p.ticket, After("pending", "resolve"))
     ELSE UNCHANGED <<ticket, watch>>
  /\ UNCHANGED <<clock, fired, call, starting, marking, historyVars, boundVars>>

FollowUp(p) ==
  /\ p \in chasing /\ chasing' = chasing \ {p}
  /\ ~AllAsked(p)
  /\ IF StillWaiting(p)
     THEN /\ ticket' = [ticket EXCEPT ![p.ticket].followups = @ + 1,
                                      ![p.ticket].due = NextSlot(p)]
          /\ asked' = [asked EXCEPT ![p.ticket] = @ + 1]
     ELSE UNCHANGED <<ticket, asked>>
  /\ UNCHANGED <<clock, watch, fired, call, starting, marking, worked, spell, restored,
                 breach, astray, boundVars>>

-----------------------------------------------------------------------------
(* Time.                                                                    *)

\* A call and a batch of stopwatches are shorter than a tick; a batch of tickets
\* on hold may take any time.
TimePasses ==
  /\ clock < MaxTime /\ call = {} /\ marking = {}
  /\ clock' = clock + 1
  /\ worked' = [t \in Ticket |-> [g \in Target |->
       worked[t][g] + (IF t \notin astray /\ Counts(ticket[t].status, g) THEN 1 ELSE 0)]]
  /\ UNCHANGED <<ticket, watch, fired, call, starting, marking, chasing, asked, spell,
                 restored, breach, astray, boundVars>>

Next ==
  \/ \E t \in Ticket, a \in PersonAction : ReadForUpdate(t, a)
  \/ \E c \in call : CommitUpdate(c)
  \/ \E t \in Ticket : ReporterAnswers(t) \/ StartRun(t) \/ Dispatched(t) \/ DispatchFails(t)
  \/ \E t \in Ticket, a \in {"firstTool", "resolve", "escalate", "fail", "exhaust"} :
       AgentMoves(t, a)
  \/ SelectWatches \/ \E w \in marking : MarkWatch(w)
  \/ SelectPending \/ \E p \in chasing : AutoResolve(p) \/ FollowUp(p)
  \/ TimePasses

Spec == Init /\ [][Next]_vars

\* scheduleSweep runs both sweeps again and again, and a sweep that was begun
\* works through its batch; a call is answered; clocks run.
Fairness ==
  /\ WF_vars(\E c \in call : CommitUpdate(c))
  /\ WF_vars(SelectWatches \/ \E w \in marking : MarkWatch(w))
  /\ WF_vars(SelectPending \/ \E p \in chasing : AutoResolve(p) \/ FollowUp(p))
FairSpec == Spec /\ Fairness

-----------------------------------------------------------------------------
(* What must hold.                                                          *)

\* Every variable has its type, what a call or a sweep has read included.
Calls == [ticket : Ticket, action : PersonAction, seen : Row, spell : Nat]
Marks == [ticket : Ticket, target : Target, seen : Watch, now : Time]
Chases == [ticket : Ticket, seen : Row, now : Time, spell : Nat]
TypeOK ==
  /\ clock \in Time /\ ticket \in [Ticket -> Row]
  /\ watch \in [Ticket -> [Target -> Watch]]
  /\ fired \subseteq Ticket \X Target \X Rule
  /\ call \subseteq Calls /\ marking \subseteq Marks /\ chasing \subseteq Chases
  /\ starting \in [Ticket -> {"no", "open", "escalated"}]
  /\ worked \in [Ticket -> [Target -> Nat]]
  /\ asked \in [Ticket -> Nat] /\ spell \in [Ticket -> Nat]
  /\ breach \in [Ticket -> BOOLEAN] /\ astray \subseteq Ticket /\ restored \subseteq Ticket
  /\ acts \in 0 .. MaxActs /\ runs \in 0 .. MaxRuns

\* A stopwatch was started at a time that has come, and has measured no more
\* than the time there was before it.
WatchesKeepTime ==
  \A t \in Ticket, g \in Target :
    /\ watch[t][g].started <= clock
    /\ watch[t][g].accumulated <= (IF watch[t][g].running THEN watch[t][g].started ELSE clock)

\* A call was let in by an edge from the status it read.
CallsWereAllowed == \A c \in call : Allowed(c.seen, c.action)

\* A ticket shows no more follow-ups than this spell of waiting has seen, nor
\* does a call or the sweep hold more of the same spell.
NoMoreThanAsked(t, sp, followups) ==
  /\ sp <= spell[t]
  /\ sp = spell[t] /\ t \notin restored => followups <= asked[t]
FollowupsWereAsked ==
  /\ \A t \in Ticket : NoMoreThanAsked(t, spell[t], ticket[t].followups)
  /\ \A c \in call : NoMoreThanAsked(c.ticket, c.spell, c.seen.followups)
  /\ \A p \in chasing : NoMoreThanAsked(p.ticket, p.spell, p.seen.followups)

\* A stopwatch has measured exactly the time its target counted, through every
\* hold, reopening, run and undone start, unless a start was undone after the
\* ticket had moved on (the compensation in startTicketRun sets the watches
\* unguarded).
StopwatchIsTrue ==
  \A t \in Ticket \ astray, g \in Target :
    /\ watch[t][g].running = Counts(ticket[t].status, g)
    /\ Elapsed(watch[t][g], clock) = worked[t][g]

\* A marked breach stays on the ticket, whatever the other target's marks do,
\* until a person takes it back or a call writes back the flag it had read
\* before the mark.
BreachStaysShown == \A t \in Ticket : breach[t] => ticket[t].flag = "breach"

\* What the proofs take from one state to the next.
LevelsInv ==
  /\ TypeOK /\ WatchesKeepTime /\ CallsWereAllowed /\ StopwatchIsTrue
  /\ BreachStaysShown /\ FollowupsWereAsked

\* No ticket is resolved for its reporter's silence before the follow-ups of
\* this spell of waiting were sent, unless it was taken off hold and put back
\* while the sweep or a call held it (both compare the status only, and the
\* call writes back the follow-ups it read).
ResolvedAfterFollowups ==
  [][\A p \in chasing :
       /\ p \notin chasing' /\ ticket[p.ticket].status = "pending"
       /\ ticket'[p.ticket].status = "resolved"
       /\ p.spell = spell[p.ticket] /\ p.ticket \notin restored
       => asked[p.ticket] >= Followups]_vars

\* A ticket on hold whose time has come is followed up, resolved or taken off
\* hold (sweepPending).
HoldsEnd ==
  \A t \in Ticket : LET Late == ticket[t].status = "pending" /\ ticket[t].due <= clock
                   IN  Late ~> ~Late

\* A running stopwatch past its target is marked as a breach or stopped
\* (sweepSla), given that the sweep's batch has room for every watch.
BreachesAreMarked ==
  \A t \in Ticket, g \in Target :
    (watch[t][g].running /\ Elapsed(watch[t][g], clock) >= BreachAt[g])
      ~> (<<t, g, "breach">> \in fired \/ ~watch[t][g].running)
=============================================================================
