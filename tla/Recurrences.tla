----------------------------- MODULE Recurrences -----------------------------
(***************************************************************************)
(* The tickets that nobody sends: a recurring rule creates one for each of *)
(* its periods (api/src/server/scheduling-runtime.ts and scheduling.ts).   *)
(* A sweep reads the rule, then a cursor from the periods claimed so far,  *)
(* and claims the due ones in turn, each in a transaction of its own.      *)
(* Several processes sweep, an administrator triggers sweeps with a time   *)
(* of his own, and edits the rule.  Calendar arithmetic is reduced to      *)
(* start + ordinal * interval; the end of a rule and the horizon of a year *)
(* bound a period like the sweep's own time does.                          *)
(***************************************************************************)
EXTENDS TicketCreation

CONSTANTS
  Sweeper,       \* the processes that sweep
  Budget,        \* occurrences one sweep takes on
  Window,        \* BACKFILL_WINDOW_MS
  MaxTime,       \* bound: the time of a sweep
  Starts, Intervals, MaxEdits    \* bounds: what an administrator gives the rule, how often

ASSUME RecurrenceAssumption ==
  /\ Budget \in Nat \ {0} /\ Window \in Nat /\ MaxTime \in Nat /\ MaxEdits \in Nat
  /\ Starts \subseteq Nat /\ Intervals \subseteq Nat \ {0}

Ordinal == 0..MaxTime
Unclaimed == [at |-> MaxTime + 1, ticket |-> NoTicket]

VARIABLES
  rule,       \* recurring_tickets: startsAt and interval
  edits,      \* count for the bound
  occurrence, \* recurring_ticket_occurrences: of each ordinal, its instant and its ticket
  sweep       \* of each process: its step, the rule it read, its time, the ordinals to claim

recurrenceVars == <<rule, edits, occurrence, sweep>>

Asleep == [step |-> "rest", rule |-> [start |-> 0, every |-> 1], now |-> 0, todo |-> {}]

RecurrenceInit ==
  /\ \/ Init /\ rule = Asleep.rule
     \/ source = "rule" /\ Blank /\ rule \in [start : Starts, every : Intervals]
  /\ edits = 0
  /\ occurrence = [o \in Ordinal |-> Unclaimed]
  /\ sweep = [s \in Sweeper |-> Asleep]

-----------------------------------------------------------------------------
OccurrenceAt(r, o) == r.start + o * r.every

Claimed == {o \in Ordinal : occurrence[o] # Unclaimed}
Instants == {occurrence[o].at : o \in Claimed}
LastOccurrence == CHOOSE t \in Instants : \A u \in Instants : u <= t

\* occurrenceOrdinalAfter: the first ordinal beyond the last instant that was claimed.
StartOrdinal(r) ==
  IF Instants = {} \/ LastOccurrence < r.start THEN 0
  ELSE (LastOccurrence - r.start) \div r.every + 1

\* dueRecurrenceOccurrences: keys are looked for among the instants from the last one on.
Due(r, now) ==
  LET known == {o \in Claimed : occurrence[o].at >= LastOccurrence /\ occurrence[o].at <= now}
      due == {o \in Ordinal : o >= StartOrdinal(r) /\ OccurrenceAt(r, o) <= now} \ known
  IN {o \in due : Cardinality({p \in due : p < o}) < Budget}

\* The sweep of the rule goes on with what is left of the page, or is over.
GoesOn(s, todo) ==
  sweep' = [sweep EXCEPT ![s] = IF todo = {} THEN Asleep
                                ELSE [@ EXCEPT !.step = "going", !.todo = todo]]

ReadRule(s, now) ==
  /\ source = "rule" /\ sweep[s].step = "rest" /\ rule.start <= now
  /\ sweep' = [sweep EXCEPT ![s] = [step |-> "read", rule |-> rule, now |-> now, todo |-> {}]]
  /\ UNCHANGED <<vars, rule, edits, occurrence>>

ReadCursor(s) ==
  /\ sweep[s].step = "read"
  /\ GoesOn(s, Due(sweep[s].rule, sweep[s].now))
  /\ UNCHANGED <<vars, rule, edits, occurrence>>

Turn(s) == CHOOSE o \in sweep[s].todo : \A p \in sweep[s].todo : o <= p
Slot(s) == OccurrenceAt(sweep[s].rule, Turn(s))

\* The key and the instant are unique: an insert waits for another one of either.
SlotHeld(s) ==
  \E t \in Sweeper : sweep[t].step = "writing" /\ (Turn(t) = Turn(s) \/ Slot(t) = Slot(s))

\* ON CONFLICT DO NOTHING: an ordinal or an instant that is claimed is skipped.
ClaimPeriod(s) ==
  /\ sweep[s].step = "going" /\ ~SlotHeld(s)
  /\ IF Turn(s) \in Claimed \/ Slot(s) \in Instants THEN GoesOn(s, sweep[s].todo \ {Turn(s)})
     ELSE sweep' = [sweep EXCEPT ![s].step = "writing"]
  /\ UNCHANGED <<vars, rule, edits, occurrence>>

Stale(s) == Slot(s) + Window < sweep[s].now

\* A period that is too old is claimed and gets no ticket.
CommitPeriod(s) ==
  /\ sweep[s].step = "writing"
  /\ IF Stale(s) THEN UNCHANGED tickets ELSE Creates("rule")
  /\ occurrence' = [occurrence EXCEPT ![Turn(s)] =
                      [at |-> Slot(s), ticket |-> IF Stale(s) THEN NoTicket ELSE NewTicket]]
  /\ GoesOn(s, sweep[s].todo \ {Turn(s)})
  /\ UNCHANGED <<source, claimVars, draft, mail, thread, callVars, docVars, rule, edits>>

\* A plausible bug: the next period is taken on although this one failed.
WithoutFailed(s) == IF sweep[s].todo = {} THEN {} ELSE sweep[s].todo \ {Turn(s)}

\* The error is caught outside the loop over the rule's occurrences.
LeftAfterFailure(s) == {}

\* A statement fails, or the process dies: the transaction rolls back.
SweepFails(s) ==
  /\ sweep[s].step # "rest"
  /\ GoesOn(s, LeftAfterFailure(s))
  /\ UNCHANGED <<vars, rule, edits, occurrence>>

\* updateRecurrence.
EditRule(r) ==
  /\ source = "rule" /\ edits < MaxEdits /\ edits' = edits + 1
  /\ rule' = r
  /\ UNCHANGED <<vars, occurrence, sweep>>

-----------------------------------------------------------------------------
RuleNext ==
  \/ \E s \in Sweeper :
       \/ \E now \in 0..MaxTime : ReadRule(s, now)
       \/ ReadCursor(s) \/ ClaimPeriod(s) \/ CommitPeriod(s) \/ SweepFails(s)
  \/ \E r \in [start : Starts, every : Intervals] : EditRule(r)

RecurrenceSpec ==
  RecurrenceInit /\ [][RuleNext \/ (Next /\ UNCHANGED recurrenceVars)]_<<vars, recurrenceVars>>

-----------------------------------------------------------------------------
(* What is promised. *)

RecurrenceTypeOK ==
  /\ TypeOK
  /\ rule \in [start : Nat, every : Nat \ {0}] /\ edits \in Nat
  /\ occurrence \in [Ordinal -> [at : Nat, ticket : Nat]]
  /\ sweep \in [Sweeper -> [step : {"rest", "read", "going", "writing"},
                            rule : [start : Nat, every : Nat \ {0}], now : 0..MaxTime,
                            todo : SUBSET Ordinal]]

\* No period of a rule is passed over and none comes twice: the cursor only looks at the last
\* instant that was claimed, so a period left out before it, by a failure or by another
\* process, would never be looked at again.  Once an administrator has edited the rule this
\* is not so: its ordinals name other instants, and those claimed before are skipped.
PeriodsInTurn ==
  edits = 0 =>
    /\ \A o \in Claimed, p \in Ordinal : p < o => p \in Claimed
    /\ \A o, p \in Claimed : occurrence[o].at = occurrence[p].at => o = p
    /\ TicketsFor("rule") <= Cardinality(Claimed)

\* The inductive invariant behind it.
\* A sweep goes on as long as something is left to claim, and that is due.
PageIsDue ==
  \A s \in Sweeper :
    /\ sweep[s].step \in {"going", "writing"} <=> sweep[s].todo # {}
    /\ \A o \in sweep[s].todo : OccurrenceAt(sweep[s].rule, o) <= sweep[s].now
\* Before any edit an ordinal names its instant, and every sweep has the rule as it is.
OrdinalsHold ==
  edits = 0 =>
    /\ \A o \in Claimed : occurrence[o].at = OccurrenceAt(rule, o)
    /\ \A s \in Sweeper : sweep[s].step # "rest" => sweep[s].rule = rule
\* What is claimed and what a sweep has left leaves no gap; one process at a time writes, and
\* a period that nobody has claimed.
NoGap ==
  edits = 0 =>
    /\ \A o \in Claimed, p \in Ordinal : p < o => p \in Claimed
    /\ \A s \in Sweeper : \A o \in sweep[s].todo, p \in Ordinal :
         p < o => p \in Claimed \cup sweep[s].todo
OneCommits ==
  edits = 0 =>
    /\ \A s \in Sweeper : sweep[s].step = "writing" => Turn(s) \notin Claimed
    /\ \A s, t \in Sweeper : sweep[s].step = "writing" /\ sweep[t].step = "writing" => s = t
RecurrenceInv ==
  /\ RecurrenceTypeOK /\ CreationInv /\ PageIsDue /\ OrdinalsHold /\ NoGap /\ OneCommits
  /\ PeriodsInTurn
=============================================================================
