------------------------ MODULE ServiceLevelsProofs ------------------------
(***************************************************************************)
(* Proofs about ServiceLevels: for any tickets, thresholds, cadence, batch *)
(* size and bounds, the stopwatches measure what counted, a marked breach  *)
(* stays shown and no ticket is resolved for its reporter's silence before *)
(* its follow-ups were sent.                                               *)
(***************************************************************************)
EXTENDS ServiceLevels, TLAPS

-----------------------------------------------------------------------------
(* The operators of the model.                                              *)

\* An edge of the status graph leads to a status.
LEMMA AfterIsStatus ==
  ASSUME NEW s, NEW a, HasEdge(s, a)
  PROVE  After(s, a) \in TicketStatus
<1> DEFINE Edge(e) == e[1] = s /\ e[2] = a
<1>1. PICK e \in Transitions : Edge(e)
  BY DEF HasEdge
<1> DEFINE f == CHOOSE x \in Transitions : Edge(x)
<1>2. f \in Transitions
  BY <1>1, Zenon
<1>3. \A x \in Transitions : x[3] \in TicketStatus
  BY DEF Transitions, TicketStatus
<1>4. After(s, a) = f[3]
  BY DEF After
<1> HIDE DEF f
<1> QED BY <1>2, <1>3, <1>4

\* A multiple of the frequency leaves no remainder.
LEMMA NoRemainder ==
  ASSUME NEW f \in Nat \ {0}, NEW q \in Int
  PROVE  (f * q) % f = 0
OBVIOUS

\* The cadence has a slot in every stretch of its length.
LEMMA SlotExists ==
  ASSUME NEW now \in Int, NEW due \in Int, NEW f \in Nat \ {0}
  PROVE  \E d \in now + 1 .. now + f : (d - due) % f = 0
<1>1. PICK r \in 0 .. f - 1, q \in Int : now - due = f * q + r
  <2>1. (now - due) % f \in 0 .. f - 1 /\ (now - due) \div f \in Int
    OBVIOUS
  <2>2. now - due = f * ((now - due) \div f) + ((now - due) % f)
    OBVIOUS
  <2> DEFINE q == (now - due) \div f
             r == (now - due) % f
  <2>3. q \in Int /\ r \in 0 .. f - 1 /\ now - due = f * q + r
    BY <2>1, <2>2
  <2> HIDE DEF q, r
  <2> QED BY <2>3
<1> DEFINE d == now + f - r
<1>2. d \in now + 1 .. now + f
  OBVIOUS
<1>3. d - due = f * (q + 1)
  <2>1. d - due = f * q + f
    BY <1>1
  <2>2. f * (q + 1) = f * q + f
    OBVIOUS
  <2> QED BY <2>1, <2>2
<1>4. (f * (q + 1)) % f = 0
  BY NoRemainder
<1>5. (d - due) % f = 0
  BY <1>3, <1>4, Zenon
<1> QED BY <1>2, <1>5, Zenon

\* What the constants are.
LEMMA Bounds ==
  /\ MaxTime \in Nat /\ MaxActs \in Nat /\ MaxCalls \in Nat /\ MaxRuns \in Nat
  /\ Followups \in Nat /\ Frequency \in Nat \ {0} /\ SweepLimit \in Nat \ {0}
BY ServiceLevelsAssumption DEF ServiceLevelsAssumption

\* A slot of the cadence is a time a row may be due at.
LEMMA SlotIsDue ==
  ASSUME NEW p \in Chases
  PROVE  NextSlot(p) \in 0 .. MaxTime + Frequency
<1>1. p.now \in Int /\ p.now \in 0 .. MaxTime /\ p.seen.due \in Int
  BY Bounds DEF Chases, Row, Time, NotDue
<1>2. \E d \in p.now + 1 .. p.now + Frequency : (d - p.seen.due) % Frequency = 0
  BY <1>1, Bounds, SlotExists
<1>3. NextSlot(p) \in p.now + 1 .. p.now + Frequency
  BY <1>2 DEF NextSlot
<1> QED BY <1>1, <1>3, Bounds

-----------------------------------------------------------------------------
(* The stopwatches.                                                         *)

\* What is known of one stopwatch.
Keeps(w) ==
  /\ w \in Watch /\ w.started <= clock
  /\ w.accumulated <= (IF w.running THEN w.started ELSE clock)

\* A transition keeps what a stopwatch has measured and sets whether it runs.
LEMMA TransitionKeeps ==
  ASSUME clock \in Time, NEW w, Keeps(w), NEW on \in BOOLEAN
  PROVE  /\ Keeps(Transitioned(w, on))
         /\ Transitioned(w, on).running = on
         /\ Elapsed(Transitioned(w, on), clock) = Elapsed(w, clock)
<1>1. clock \in 0 .. MaxTime /\ clock \in Int /\ MaxTime \in Nat
  BY Bounds DEF Time
<1>2. /\ w.running \in BOOLEAN /\ w.started \in 0 .. MaxTime
      /\ w.accumulated \in 0 .. MaxTime
  BY DEF Keeps, Watch, Time
<1>3. CASE w.running = on
  BY <1>3 DEF Transitioned
<1>4. CASE w.running # on
  <2>1. Transitioned(w, on) = Checkpoint(w, on)
    BY <1>4 DEF Transitioned
  <2> DEFINE e == Elapsed(w, clock)
  <2>2. e \in 0 .. clock
    BY <1>1, <1>2 DEF Keeps, Elapsed
  <2>3. CASE on = TRUE
    <3>1. Checkpoint(w, on) = [running |-> TRUE, started |-> clock, accumulated |-> e]
      BY <2>3 DEF Checkpoint
    <3> HIDE DEF e
    <3>2. Elapsed(Checkpoint(w, on), clock) = e
      BY <3>1, <2>2, <1>1 DEF Elapsed
    <3>3. Keeps(Checkpoint(w, on))
      BY <3>1, <2>2, <1>1 DEF Keeps, Watch, Time
    <3> QED BY <2>1, <2>3, <3>1, <3>2, <3>3 DEF e
  <2>4. CASE on = FALSE
    <3>1. Checkpoint(w, on) = [running |-> FALSE, started |-> 0, accumulated |-> e]
      BY <2>4 DEF Checkpoint
    <3> HIDE DEF e
    <3>2. Elapsed(Checkpoint(w, on), clock) = e
      BY <3>1, <2>2, <1>1 DEF Elapsed
    <3>3. Keeps(Checkpoint(w, on))
      BY <3>1, <2>2, <1>1 DEF Keeps, Watch, Time
    <3>4. Checkpoint(w, on).running = on
      <4>1. Checkpoint(w, on).running = FALSE
        BY <3>1
      <4> QED BY <4>1, <2>4, Zenon
    <3> QED BY <2>1, <3>2, <3>3, <3>4, Zenon DEF e
  <2> QED BY <2>3, <2>4
<1> QED BY <1>3, <1>4

\* Whether a target's time runs is a truth value.
LEMMA CountsIsBoolean == \A s, g : Counts(s, g) \in BOOLEAN
BY DEF Counts

\* What the invariant says of the stopwatches, one at a time.
LEMMA WatchFacts ==
  ASSUME TypeOK, WatchesKeepTime, NEW t \in Ticket, NEW g \in Target
  PROVE  Keeps(watch[t][g])
BY DEF TypeOK, WatchesKeepTime, Keeps

\* A ticket that takes a status takes its stopwatches along: whatever the other
\* variables do, the watches measure what they measured and run as they should.
LEMMA WatchesMove ==
  ASSUME TypeOK, WatchesKeepTime, NEW t \in Ticket, NEW s, watch' = Watches(t, s),
         UNCHANGED clock
  PROVE  /\ watch' \in [Ticket -> [Target -> Watch]]
         /\ WatchesKeepTime'
         /\ \A g \in Target : /\ watch'[t][g].running = Counts(s, g)
                              /\ Elapsed(watch'[t][g], clock) = Elapsed(watch[t][g], clock)
         /\ \A u \in Ticket \ {t} : watch'[u] = watch[u]
<1>1. watch \in [Ticket -> [Target -> Watch]] /\ clock \in Time
  BY DEF TypeOK
<1>2. watch' = [watch EXCEPT ![t] =
                  [g \in Target |-> Transitioned(watch[t][g], Counts(s, g))]]
  BY DEF Watches
<1>3. \A g \in Target : watch'[t][g] = Transitioned(watch[t][g], Counts(s, g))
  BY <1>1, <1>2
<1>4. \A u \in Ticket \ {t} : watch'[u] = watch[u]
  BY <1>1, <1>2
<1>5. \A g \in Target :
        /\ Keeps(watch'[t][g])
        /\ watch'[t][g].running = Counts(s, g)
        /\ Elapsed(watch'[t][g], clock) = Elapsed(watch[t][g], clock)
  BY <1>1, <1>3, CountsIsBoolean, TransitionKeeps, WatchFacts
<1>6. watch' \in [Ticket -> [Target -> Watch]]
  <2>1. [g \in Target |-> Transitioned(watch[t][g], Counts(s, g))] \in [Target -> Watch]
    BY <1>3, <1>5 DEF Keeps
  <2> QED BY <1>1, <1>2, <2>1
<1>7. WatchesKeepTime'
  BY <1>4, <1>5, WatchFacts DEF WatchesKeepTime, Keeps
<1> QED BY <1>4, <1>5, <1>6, <1>7

-----------------------------------------------------------------------------
(* The parts of the invariant, each under the steps that leave it alone.    *)

\* The stopwatches, under a step that moves no ticket.
LEMMA WatchesStay ==
  ASSUME LevelsInv, UNCHANGED <<clock, watch, worked, astray>>,
         \A t \in Ticket : ticket'[t].status = ticket[t].status
  PROVE  WatchesKeepTime' /\ StopwatchIsTrue'
BY DEF LevelsInv, WatchesKeepTime, StopwatchIsTrue, Elapsed

\* The stopwatches, under a step that moves one ticket.
LEMMA WatchesFollow ==
  ASSUME LevelsInv, NEW t \in Ticket, NEW s, watch' = Watches(t, s),
         UNCHANGED <<clock, worked, astray>>, ticket'[t].status = s,
         \A u \in Ticket \ {t} : ticket'[u].status = ticket[u].status
  PROVE  /\ watch' \in [Ticket -> [Target -> Watch]]
         /\ WatchesKeepTime' /\ StopwatchIsTrue'
<1>1. TypeOK /\ WatchesKeepTime /\ StopwatchIsTrue
  BY DEF LevelsInv
<1>2. /\ watch' \in [Ticket -> [Target -> Watch]]
      /\ WatchesKeepTime'
  BY <1>1, WatchesMove
<1>3. \A g \in Target : /\ watch'[t][g].running = Counts(s, g)
                        /\ Elapsed(watch'[t][g], clock) = Elapsed(watch[t][g], clock)
  BY <1>1, WatchesMove
<1>4. \A u \in Ticket \ {t} : watch'[u] = watch[u]
  BY <1>1, WatchesMove
<1>5. \A u \in Ticket \ astray, g \in Target :
        /\ watch'[u][g].running = Counts(ticket'[u].status, g)
        /\ Elapsed(watch'[u][g], clock) = worked[u][g]
  <2> SUFFICES ASSUME NEW u \in Ticket \ astray, NEW g \in Target
      PROVE  /\ watch'[u][g].running = Counts(ticket'[u].status, g)
             /\ Elapsed(watch'[u][g], clock) = worked[u][g]
    OBVIOUS
  <2>1. /\ watch[u][g].running = Counts(ticket[u].status, g)
        /\ Elapsed(watch[u][g], clock) = worked[u][g]
    BY <1>1 DEF StopwatchIsTrue
  <2>2. CASE u = t
    BY <2>1, <2>2, <1>3
  <2>3. CASE u # t
    <3>1. watch'[u] = watch[u] /\ ticket'[u].status = ticket[u].status
      BY <2>3, <1>4
    <3> QED BY <3>1, <2>1
  <2> QED BY <2>2, <2>3
<1>6. StopwatchIsTrue'
  BY <1>5 DEF StopwatchIsTrue, Elapsed
<1> QED BY <1>2, <1>6

\* The breaches, under a step that marks none and takes no flag back.
LEMMA FlagsStay ==
  ASSUME LevelsInv, UNCHANGED breach,
         \A t \in Ticket : ticket'[t].flag = ticket[t].flag
  PROVE  BreachStaysShown'
BY DEF LevelsInv, BreachStaysShown

\* The follow-ups, under a step that sends none and begins no spell.
LEMMA FollowupsStay ==
  ASSUME LevelsInv, UNCHANGED <<asked, spell, restored>>,
         call' \subseteq call, chasing' \subseteq chasing,
         \A t \in Ticket : ticket'[t].followups = ticket[t].followups
  PROVE  FollowupsWereAsked'
BY DEF LevelsInv, FollowupsWereAsked, NoMoreThanAsked

\* The calls, under a step that lets none in.
LEMMA CallsStay ==
  ASSUME LevelsInv, call' \subseteq call
  PROVE  CallsWereAllowed'
BY DEF LevelsInv, CallsWereAllowed

-----------------------------------------------------------------------------
(* The steps.                                                               *)

\* Every ticket starts with its stopwatches running, and nothing was measured.
LEMMA InitHolds == Init => LevelsInv
<1> SUFFICES ASSUME Init PROVE LevelsInv
  OBVIOUS
<1>1. TypeOK
  BY Bounds DEF Init, TypeOK, Row, Watch, Time, TicketStatus, NotDue
<1>2. WatchesKeepTime /\ CallsWereAllowed
  BY DEF Init, WatchesKeepTime, CallsWereAllowed
<1>3. StopwatchIsTrue
  <2> SUFFICES ASSUME NEW t \in Ticket, NEW g \in Target
      PROVE  /\ watch[t][g].running = Counts(ticket[t].status, g)
             /\ Elapsed(watch[t][g], clock) = worked[t][g]
    BY DEF StopwatchIsTrue
  <2>1. /\ watch[t][g] = [running |-> TRUE, started |-> 0, accumulated |-> 0]
        /\ ticket[t].status = "open" /\ clock = 0 /\ worked[t][g] = 0
    BY DEF Init
  <2>2. Elapsed(watch[t][g], clock) = worked[t][g]
    BY <2>1 DEF Elapsed
  <2>3. Counts("open", g) = TRUE
    BY DEF Counts
  <2>4. watch[t][g].running = TRUE
    BY <2>1
  <2> QED BY <2>1, <2>2, <2>3, <2>4, Zenon
<1>4. BreachStaysShown /\ FollowupsWereAsked
  BY DEF Init, BreachStaysShown, FollowupsWereAsked, NoMoreThanAsked
<1> QED BY <1>1, <1>2, <1>3, <1>4 DEF LevelsInv

\* A call that has read the ticket was let in by what it read, and read no more
\* follow-ups than were sent.
LEMMA ReadForUpdateKeeps ==
  ASSUME LevelsInv, NEW t \in Ticket, NEW a \in PersonAction, ReadForUpdate(t, a)
  PROVE  LevelsInv'
<1> DEFINE c == [ticket |-> t, action |-> a, seen |-> ticket[t], spell |-> spell[t]]
<1>1. TypeOK
  BY DEF LevelsInv
<1>2. c \in Calls
  BY <1>1 DEF TypeOK, Calls
<1>3. call' = call \cup {c} /\ Allowed(c.seen, c.action)
  BY DEF ReadForUpdate
<1>4. /\ UNCHANGED <<clock, ticket, watch, fired, starting, marking, chasing, runs>>
      /\ UNCHANGED <<worked, asked, spell, restored, breach, astray>>
      /\ acts < MaxActs /\ acts' = acts + 1
  BY DEF ReadForUpdate, historyVars
<1>5. TypeOK'
  BY <1>1, <1>2, <1>3, <1>4, Bounds DEF TypeOK
<1>6. CallsWereAllowed'
  BY <1>3 DEF LevelsInv, CallsWereAllowed, Allowed
<1>7. FollowupsWereAsked'
  <2>1. NoMoreThanAsked(c.ticket, c.spell, c.seen.followups)
    <3>1. NoMoreThanAsked(t, spell[t], ticket[t].followups)
      BY DEF LevelsInv, FollowupsWereAsked
    <3> QED BY <3>1
  <2>2. \A d \in call' : NoMoreThanAsked(d.ticket, d.spell, d.seen.followups)
    BY <2>1, <1>3 DEF LevelsInv, FollowupsWereAsked
  <2> QED BY <2>2, <1>4 DEF LevelsInv, FollowupsWereAsked, NoMoreThanAsked
<1>8. WatchesKeepTime' /\ StopwatchIsTrue' /\ BreachStaysShown'
  BY <1>4, WatchesStay, FlagsStay
<1> QED BY <1>5, <1>6, <1>7, <1>8 DEF LevelsInv

\* A call commits what it read, and a new hold begins a spell with no follow-ups.
LEMMA CommitUpdateKeeps ==
  ASSUME LevelsInv, NEW c \in call, CommitUpdate(c)
  PROVE  LevelsInv'
<1>1. TypeOK
  BY DEF LevelsInv
<1>2. /\ UNCHANGED <<clock, fired, starting, marking, chasing, worked, astray, acts, runs>>
      /\ call' = call \ {c} /\ call' \subseteq call
  BY DEF CommitUpdate, boundVars
<1>3. CallsWereAllowed'
  BY <1>2, CallsStay
<1>4. CASE ~Unmoved(c)
  <2>1. UNCHANGED <<ticket, watch, breach, asked, spell, restored>>
    BY <1>4 DEF CommitUpdate
  <2>2. TypeOK'
    BY <1>1, <1>2, <2>1 DEF TypeOK
  <2>3. WatchesKeepTime' /\ StopwatchIsTrue' /\ BreachStaysShown' /\ FollowupsWereAsked'
    BY <1>2, <2>1, WatchesStay, FlagsStay, FollowupsStay
  <2> QED BY <1>3, <2>2, <2>3 DEF LevelsInv
<1>5. CASE Unmoved(c)
  <2> DEFINE row == Updated(c)
             s == StatusAfter(c)
  <2>1. PICK t \in Ticket : t = c.ticket
    BY <1>1 DEF TypeOK, Calls
  <2>2. /\ c.seen \in Row /\ c.action \in PersonAction /\ c.spell \in Nat
        /\ ticket[t].status = c.seen.status /\ ticket[t] \in Row
        /\ breach[t] \in BOOLEAN
    BY <1>1, <1>5, <2>1 DEF TypeOK, Calls, Unmoved
  <2>3. s \in TicketStatus
    <3>1. CASE c.action = "edit"
      BY <2>2, <3>1 DEF StatusAfter, Row
    <3>2. CASE c.action # "edit"
      <4>1. HasEdge(c.seen.status, c.action)
        BY <3>2 DEF LevelsInv, CallsWereAllowed, Allowed
      <4> QED BY <3>2, <4>1, AfterIsStatus DEF StatusAfter
    <3> QED BY <3>1, <3>2
  <2>4. /\ row.status = s
        /\ row.flag \in Rule \cup {"none"}
        /\ ~TakesFlagBack(c.action) => row.flag = c.seen.flag
        /\ row.due \in {NotDue} \cup 0 .. MaxTime + Frequency
        /\ row.followups = (IF c.action = "pend" THEN 0 ELSE c.seen.followups)
        /\ row.reopened \in BOOLEAN
    <3>1. row.status = s /\ row.followups = (IF c.action = "pend" THEN 0 ELSE c.seen.followups)
      BY DEF Updated
    <3>2. /\ row.flag \in Rule \cup {"none"}
          /\ ~TakesFlagBack(c.action) => row.flag = c.seen.flag
      BY <2>2 DEF Updated, TakesFlagBack, Row, Rule
    <3>3. row.due \in {NotDue} \cup 0 .. MaxTime + Frequency
      <4>1. clock + Frequency \in 0 .. MaxTime + Frequency
        BY <1>1, Bounds DEF TypeOK, Time
      <4> QED BY <2>2, <4>1 DEF Updated, Row
    <3>4. row.reopened \in BOOLEAN
      BY <2>2 DEF Updated, Row
    <3> QED BY <3>1, <3>2, <3>3, <3>4
  <2>5. row \in Row
    <3>1. row.followups \in 0 .. Followups
      BY <2>2, <2>4, Bounds DEF Row
    <3>2. row = [status |-> row.status, flag |-> row.flag, due |-> row.due,
                 followups |-> row.followups, reopened |-> row.reopened]
      BY DEF Updated
    <3> HIDE DEF row, s
    <3> QED BY <2>3, <2>4, <3>1, <3>2 DEF Row
  <2> HIDE DEF row, s
  <2>6. /\ ticket' = [ticket EXCEPT ![t] = row]
        /\ watch' = (IF s = c.seen.status THEN watch ELSE Watches(t, s))
        /\ breach' = [breach EXCEPT ![t] = @ /\ ~TakesFlagBack(c.action)
                                             /\ ticket[t].flag = c.seen.flag]
        /\ asked' = [asked EXCEPT ![t] = IF c.action = "pend" THEN 0 ELSE @]
        /\ spell' = [spell EXCEPT ![t] = IF c.action = "pend" THEN @ + 1 ELSE @]
        /\ restored' = (IF c.action = "pend" THEN restored \ {t}
                        ELSE IF c.spell # spell[t] THEN restored \cup {t} ELSE restored)
    BY <1>5, <2>1 DEF CommitUpdate, row, s
  <2>7. /\ ticket'[t] = row /\ ticket' \in [Ticket -> Row]
        /\ \A u \in Ticket \ {t} : ticket'[u] = ticket[u]
    BY <1>1, <2>5, <2>6 DEF TypeOK
  <2>8. /\ watch' \in [Ticket -> [Target -> Watch]]
        /\ WatchesKeepTime' /\ StopwatchIsTrue'
    <3>1. CASE s = c.seen.status
      <4>1. watch' = watch
        BY <3>1, <2>6
      <4>2. \A u \in Ticket : ticket'[u].status = ticket[u].status
        BY <3>1, <2>2, <2>4, <2>7
      <4> QED BY <4>1, <4>2, <1>1, <1>2, WatchesStay DEF TypeOK
    <3>2. CASE s # c.seen.status
      <4>1. watch' = Watches(t, s)
        BY <3>2, <2>6
      <4>2. ticket'[t].status = s
        BY <2>4, <2>7
      <4> QED BY <4>1, <4>2, <2>7, <1>2, WatchesFollow
    <3> QED BY <3>1, <3>2
  <2>9. BreachStaysShown'
    <3>1. \A u \in Ticket \ {t} : breach'[u] = breach[u]
      BY <1>1, <2>6 DEF TypeOK
    <3>2. breach'[t] = (breach[t] /\ ~TakesFlagBack(c.action) /\ ticket[t].flag = c.seen.flag)
      BY <1>1, <2>6 DEF TypeOK
    <3>3. ASSUME breach'[t] PROVE ticket'[t].flag = "breach"
      <4>1. breach[t] /\ ~TakesFlagBack(c.action) /\ ticket[t].flag = c.seen.flag
        BY <3>2, <3>3, Zenon
      <4>2. ticket[t].flag = "breach"
        BY <4>1 DEF LevelsInv, BreachStaysShown
      <4> QED BY <4>1, <4>2, <2>4, <2>7
    <3> QED BY <3>1, <3>3, <2>7 DEF LevelsInv, BreachStaysShown
  <2>10. /\ asked' \in [Ticket -> Nat] /\ spell' \in [Ticket -> Nat]
         /\ restored' \subseteq Ticket
         /\ \A u \in Ticket \ {t} : /\ asked'[u] = asked[u] /\ spell'[u] = spell[u]
                                    /\ u \in restored' <=> u \in restored
    BY <1>1, <2>6 DEF TypeOK
  <2>11. FollowupsWereAsked'
    <3>1. \A u \in Ticket \ {t}, sp \in Nat, f \in Nat :
            NoMoreThanAsked(u, sp, f) => NoMoreThanAsked(u, sp, f)'
      BY <2>10 DEF NoMoreThanAsked
    <3>2. \A sp \in Nat, f \in Nat : NoMoreThanAsked(t, sp, f) => NoMoreThanAsked(t, sp, f)'
      <4> SUFFICES ASSUME NEW sp \in Nat, NEW f \in Nat, NoMoreThanAsked(t, sp, f)
          PROVE  /\ sp <= spell'[t]
                 /\ sp = spell'[t] /\ t \notin restored' => f <= asked'[t]
        BY DEF NoMoreThanAsked
      <4>1. spell[t] \in Nat /\ asked[t] \in Nat
        BY <1>1 DEF TypeOK
      <4>2. CASE c.action = "pend"
        <5>1. spell'[t] = spell[t] + 1
          BY <4>2, <2>6, <1>1 DEF TypeOK
        <5> QED BY <4>1, <5>1 DEF NoMoreThanAsked
      <4>3. CASE c.action # "pend"
        <5>1. spell'[t] = spell[t] /\ asked'[t] = asked[t] /\ (t \in restored => t \in restored')
          BY <4>3, <2>6, <1>1 DEF TypeOK
        <5> QED BY <4>1, <5>1 DEF NoMoreThanAsked
      <4> QED BY <4>2, <4>3
    <3>3. NoMoreThanAsked(t, spell[t], ticket[t].followups)'
      <4> SUFFICES t \notin restored' => ticket'[t].followups <= asked'[t]
        BY <2>10 DEF NoMoreThanAsked
      <4>1. CASE c.action = "pend"
        <5>1. asked'[t] = 0 /\ row.followups = 0
          BY <4>1, <2>4, <2>6, <1>1 DEF TypeOK
        <5> QED BY <5>1, <2>7
      <4>2. CASE c.action # "pend" /\ c.spell # spell[t]
        BY <4>2, <2>6
      <4>3. CASE c.action # "pend" /\ c.spell = spell[t]
        <5>1. NoMoreThanAsked(t, spell[t], c.seen.followups)
          BY <4>3, <2>1 DEF LevelsInv, FollowupsWereAsked
        <5>2. asked'[t] = asked[t] /\ restored' = restored /\ row.followups = c.seen.followups
          BY <4>3, <2>4, <2>6, <1>1 DEF TypeOK
        <5> QED BY <5>1, <5>2, <2>7 DEF NoMoreThanAsked
      <4> QED BY <4>1, <4>2, <4>3
    <3>4. \A u \in Ticket : NoMoreThanAsked(u, spell[u], ticket[u].followups)'
      <4> SUFFICES ASSUME NEW u \in Ticket, u # t
          PROVE  NoMoreThanAsked(u, spell[u], ticket[u].followups)'
        BY <3>3
      <4> QED BY <2>7, <2>10 DEF LevelsInv, FollowupsWereAsked, NoMoreThanAsked
    <3>5. \A d \in call : d \in Calls /\ d.ticket \in Ticket /\ d.spell \in Nat /\ d.seen.followups \in Nat
      BY <1>1, Bounds DEF TypeOK, Calls, Row
    <3>6. \A p \in chasing : p.ticket \in Ticket /\ p.spell \in Nat /\ p.seen.followups \in Nat
      BY <1>1, Bounds DEF TypeOK, Chases, Row
    <3>7. \A d \in call : NoMoreThanAsked(d.ticket, d.spell, d.seen.followups)'
      BY <3>1, <3>2, <3>5 DEF LevelsInv, FollowupsWereAsked
    <3>8. \A p \in chasing : NoMoreThanAsked(p.ticket, p.spell, p.seen.followups)'
      BY <3>1, <3>2, <3>6 DEF LevelsInv, FollowupsWereAsked
    <3> QED BY <1>2, <3>4, <3>7, <3>8 DEF FollowupsWereAsked, NoMoreThanAsked
  <2>12. breach' \in [Ticket -> BOOLEAN]
    BY <1>1, <2>6 DEF TypeOK
  <2>13. TypeOK'
    BY <1>1, <1>2, <2>7, <2>8, <2>10, <2>12 DEF TypeOK
  <2> QED BY <1>3, <2>8, <2>9, <2>11, <2>13 DEF LevelsInv
<1> QED BY <1>4, <1>5

\* The row of a ticket, and no other, takes a status and perhaps another date.
RowMoves(t, s) ==
  /\ ticket' \in [Ticket -> Row]
  /\ ticket'[t].status = s
  /\ ticket'[t].flag = ticket[t].flag /\ ticket'[t].followups = ticket[t].followups
  /\ \A u \in Ticket \ {t} : ticket'[u] = ticket[u]

\* A status, or a status and a date, put into a row.
LEMMA RowGetsStatus ==
  ASSUME TypeOK, NEW t \in Ticket, NEW s \in TicketStatus,
         \/ ticket' = [ticket EXCEPT ![t].status = s]
         \/ ticket' = [ticket EXCEPT ![t].status = s, ![t].due = NotDue]
  PROVE  RowMoves(t, s)
<1>1. ticket \in [Ticket -> Row] /\ ticket[t] \in Row
  BY DEF TypeOK
<1>2. CASE ticket' = [ticket EXCEPT ![t].status = s]
  <2>1. ticket' = [ticket EXCEPT ![t] = [ticket[t] EXCEPT !.status = s]]
    BY <1>2
  <2>2. [ticket[t] EXCEPT !.status = s] \in Row
    BY <1>1 DEF Row
  <2> QED BY <1>1, <2>1, <2>2 DEF RowMoves, Row
<1>3. CASE ticket' = [ticket EXCEPT ![t].status = s, ![t].due = NotDue]
  <2> DEFINE row == [ticket[t] EXCEPT !.status = s, !.due = NotDue]
  <2>1. ticket' = [ticket EXCEPT ![t] = row]
    BY <1>1, <1>3
  <2>2. row \in Row /\ row.status = s /\ row.flag = ticket[t].flag
        /\ row.followups = ticket[t].followups
    BY <1>1 DEF Row
  <2> HIDE DEF row
  <2> QED BY <1>1, <2>1, <2>2 DEF RowMoves
<1> QED BY <1>2, <1>3

\* One ticket moves and its stopwatches with it: the parts of the invariant.
LEMMA TicketMoves ==
  ASSUME LevelsInv, NEW t \in Ticket, NEW s, RowMoves(t, s), watch' = Watches(t, s),
         UNCHANGED <<clock, worked, asked, spell, restored, breach, astray>>,
         call' \subseteq call, chasing' \subseteq chasing
  PROVE  /\ watch' \in [Ticket -> [Target -> Watch]]
         /\ WatchesKeepTime' /\ CallsWereAllowed' /\ StopwatchIsTrue'
         /\ BreachStaysShown' /\ FollowupsWereAsked'
<1>1. \A u \in Ticket : ticket'[u].flag = ticket[u].flag
                        /\ ticket'[u].followups = ticket[u].followups
  BY DEF RowMoves
<1>2. ticket'[t].status = s /\ \A u \in Ticket \ {t} : ticket'[u].status = ticket[u].status
  BY DEF RowMoves
<1>3. watch' \in [Ticket -> [Target -> Watch]] /\ WatchesKeepTime' /\ StopwatchIsTrue'
  BY <1>2, WatchesFollow
<1> QED BY <1>1, <1>3, CallsStay, FlagsStay, FollowupsStay

\* The reporter's answer takes a ticket off hold and starts its stopwatches.
LEMMA ReporterAnswersKeeps ==
  ASSUME LevelsInv, NEW t \in Ticket, ReporterAnswers(t)
  PROVE  LevelsInv'
<1> DEFINE s == After(ticket[t].status, "unpend")
<1>1. TypeOK
  BY DEF LevelsInv
<1>2. s \in TicketStatus
  BY AfterIsStatus DEF ReporterAnswers
<1>3. ticket' = [ticket EXCEPT ![t].status = s, ![t].due = NotDue] /\ watch' = Watches(t, s)
  BY <1>1 DEF ReporterAnswers, TypeOK
<1>4. /\ UNCHANGED <<clock, fired, call, starting, marking, chasing, acts, runs>>
      /\ UNCHANGED <<worked, asked, spell, restored, breach, astray>>
  BY DEF ReporterAnswers, historyVars, boundVars
<1> HIDE DEF s
<1>5. RowMoves(t, s)
  BY <1>1, <1>2, <1>3, RowGetsStatus
<1>6. /\ watch' \in [Ticket -> [Target -> Watch]]
      /\ WatchesKeepTime' /\ CallsWereAllowed' /\ StopwatchIsTrue'
      /\ BreachStaysShown' /\ FollowupsWereAsked'
  BY <1>3, <1>4, <1>5, TicketMoves
<1>7. TypeOK'
  BY <1>1, <1>4, <1>5, <1>6 DEF TypeOK, RowMoves
<1> QED BY <1>6, <1>7 DEF LevelsInv

\* The agent moves the ticket it works on.
LEMMA AgentMovesKeeps ==
  ASSUME LevelsInv, NEW t \in Ticket, NEW a, AgentMoves(t, a)
  PROVE  LevelsInv'
<1> DEFINE s == After(ticket[t].status, a)
<1>1. TypeOK
  BY DEF LevelsInv
<1>2. s \in TicketStatus
  BY AfterIsStatus DEF AgentMoves
<1>3. ticket' = [ticket EXCEPT ![t].status = s] /\ watch' = Watches(t, s)
  BY DEF AgentMoves, Move
<1>4. /\ UNCHANGED <<clock, fired, call, starting, marking, chasing, acts, runs>>
      /\ UNCHANGED <<worked, asked, spell, restored, breach, astray>>
  BY DEF AgentMoves, historyVars, boundVars
<1> HIDE DEF s
<1>5. RowMoves(t, s)
  BY <1>1, <1>2, <1>3, RowGetsStatus
<1>6. /\ watch' \in [Ticket -> [Target -> Watch]]
      /\ WatchesKeepTime' /\ CallsWereAllowed' /\ StopwatchIsTrue'
      /\ BreachStaysShown' /\ FollowupsWereAsked'
  BY <1>3, <1>4, <1>5, TicketMoves
<1>7. TypeOK'
  BY <1>1, <1>4, <1>5, <1>6 DEF TypeOK, RowMoves
<1> QED BY <1>6, <1>7 DEF LevelsInv

\* The start of a run routes the ticket and keeps the status it came from.
LEMMA StartRunKeeps ==
  ASSUME LevelsInv, NEW t \in Ticket, StartRun(t)
  PROVE  LevelsInv'
<1> DEFINE s == After(ticket[t].status, "startRun")
<1>1. TypeOK
  BY DEF LevelsInv
<1>2. s \in TicketStatus
  BY AfterIsStatus DEF StartRun
<1>3. ticket' = [ticket EXCEPT ![t].status = s] /\ watch' = Watches(t, s)
  BY DEF StartRun, Move
<1>4. /\ UNCHANGED <<clock, fired, call, marking, chasing, acts>>
      /\ UNCHANGED <<worked, asked, spell, restored, breach, astray>>
      /\ runs < MaxRuns /\ runs' = runs + 1
      /\ starting' = [starting EXCEPT ![t] = ticket[t].status]
  BY DEF StartRun, historyVars
<1>5. ticket[t].status \in {"open", "escalated"}
  BY DEF StartRun, HasEdge, Transitions
<1> HIDE DEF s
<1>6. RowMoves(t, s)
  BY <1>1, <1>2, <1>3, RowGetsStatus
<1>7. /\ watch' \in [Ticket -> [Target -> Watch]]
      /\ WatchesKeepTime' /\ CallsWereAllowed' /\ StopwatchIsTrue'
      /\ BreachStaysShown' /\ FollowupsWereAsked'
  BY <1>3, <1>4, <1>6, TicketMoves
<1>8. starting' \in [Ticket -> {"no", "open", "escalated"}]
  BY <1>1, <1>4, <1>5 DEF TypeOK
<1>9. runs' \in 0 .. MaxRuns
  BY <1>1, <1>4, Bounds DEF TypeOK
<1>10. TypeOK'
  BY <1>1, <1>4, <1>6, <1>7, <1>8, <1>9 DEF TypeOK, RowMoves
<1> QED BY <1>7, <1>10 DEF LevelsInv

\* A dispatch that went through moves nothing.
LEMMA DispatchedKeeps ==
  ASSUME LevelsInv, NEW t \in Ticket, Dispatched(t)
  PROVE  LevelsInv'
<1>1. /\ UNCHANGED <<clock, ticket, watch, fired, call, marking, chasing, acts, runs>>
      /\ UNCHANGED <<worked, asked, spell, restored, breach, astray>>
      /\ starting' = [starting EXCEPT ![t] = "no"]
  BY DEF Dispatched, historyVars, boundVars
<1>2. TypeOK'
  BY <1>1 DEF LevelsInv, TypeOK
<1> QED BY <1>1, <1>2, WatchesStay, FlagsStay, FollowupsStay, CallsStay DEF LevelsInv

\* A start that is undone puts the ticket back, or else leads it astray.
LEMMA DispatchFailsKeeps ==
  ASSUME LevelsInv, NEW t \in Ticket, DispatchFails(t)
  PROVE  LevelsInv'
<1> DEFINE s == starting[t]
<1>1. TypeOK /\ WatchesKeepTime /\ StopwatchIsTrue
  BY DEF LevelsInv
<1>2. s \in TicketStatus
  BY <1>1 DEF DispatchFails, TypeOK, TicketStatus
<1>3. /\ UNCHANGED <<clock, fired, call, marking, chasing, acts, runs>>
      /\ UNCHANGED <<asked, spell, restored, breach>>
      /\ starting' = [starting EXCEPT ![t] = "no"]
      /\ ticket' = [ticket EXCEPT ![t].status =
                      IF ticket[t].status = "routing" THEN s ELSE ticket[t].status]
      /\ watch' = Watches(t, s)
  BY <1>1 DEF DispatchFails, TypeOK, boundVars
<1> HIDE DEF s
<1>4. CASE ticket[t].status = "routing"
  <2>1. UNCHANGED <<worked, astray>> /\ ticket' = [ticket EXCEPT ![t].status = s]
    BY <1>3, <1>4 DEF DispatchFails
  <2>2. RowMoves(t, s)
    BY <1>1, <1>2, <2>1, RowGetsStatus
  <2>3. /\ watch' \in [Ticket -> [Target -> Watch]]
        /\ WatchesKeepTime' /\ CallsWereAllowed' /\ StopwatchIsTrue'
        /\ BreachStaysShown' /\ FollowupsWereAsked'
    BY <1>3, <2>1, <2>2, TicketMoves
  <2>4. TypeOK'
    BY <1>1, <1>3, <2>1, <2>2, <2>3 DEF TypeOK, RowMoves
  <2> QED BY <2>3, <2>4 DEF LevelsInv
<1>5. CASE ticket[t].status # "routing"
  <2>1. /\ astray' = astray \cup {t}
        /\ worked' = [worked EXCEPT ![t] = [g \in Target |-> 0]]
        /\ ticket' = [ticket EXCEPT ![t].status = ticket[t].status]
    BY <1>3, <1>5 DEF DispatchFails
  <2>2. ticket' = ticket
    BY <1>1, <2>1 DEF TypeOK, Row
  <2>3. /\ watch' \in [Ticket -> [Target -> Watch]]
        /\ WatchesKeepTime'
        /\ \A u \in Ticket \ {t} : watch'[u] = watch[u]
    BY <1>1, <1>3, WatchesMove
  <2>4. StopwatchIsTrue'
    <3>1. \A u \in Ticket \ {t} : worked'[u] = worked[u]
      BY <1>1, <2>1 DEF TypeOK
    <3> QED BY <1>1, <1>3, <2>1, <2>2, <2>3, <3>1 DEF StopwatchIsTrue, Elapsed
  <2>5. worked' \in [Ticket -> [Target -> Nat]]
    <3>1. [g \in Target |-> 0] \in [Target -> Nat]
      OBVIOUS
    <3> QED BY <1>1, <2>1, <3>1 DEF TypeOK
  <2>6. TypeOK'
    BY <1>1, <1>3, <2>1, <2>2, <2>3, <2>5 DEF TypeOK
  <2> QED BY <1>3, <2>2, <2>3, <2>4, <2>6, CallsStay, FlagsStay, FollowupsStay DEF LevelsInv
<1> QED BY <1>4, <1>5

\* The sweep of the stopwatches reads a batch.
LEMMA SelectWatchesKeeps ==
  ASSUME LevelsInv, SelectWatches
  PROVE  LevelsInv'
<1>1. TypeOK
  BY DEF LevelsInv
<1>2. /\ UNCHANGED <<clock, ticket, watch, fired, call, starting, chasing, acts, runs>>
      /\ UNCHANGED <<worked, asked, spell, restored, breach, astray>>
  BY DEF SelectWatches, historyVars, boundVars
<1>3. marking' \subseteq Markable
  BY DEF SelectWatches, Oldest, Started
<1>4. Markable \subseteq Marks
  BY <1>1 DEF TypeOK, Markable, RunningWatches, Marks
<1>5. TypeOK'
  BY <1>1, <1>2, <1>3, <1>4 DEF TypeOK
<1> QED BY <1>2, <1>5, WatchesStay, FlagsStay, FollowupsStay, CallsStay DEF LevelsInv

\* A mark never takes a breach off the ticket.
LEMMA MarkWatchKeeps ==
  ASSUME LevelsInv, NEW w \in marking, MarkWatch(w)
  PROVE  LevelsInv'
<1>1. TypeOK /\ BreachStaysShown
  BY DEF LevelsInv
<1>2. /\ UNCHANGED <<clock, watch, call, starting, chasing, worked, asked, spell, restored,
                     astray, acts, runs>>
      /\ marking' \subseteq marking
  BY DEF MarkWatch, boundVars
<1>3. w.ticket \in Ticket /\ w.target \in Target
  BY <1>1 DEF TypeOK, Marks
<1>4. CASE UNCHANGED <<fired, ticket, breach>>
  <2>1. TypeOK'
    BY <1>1, <1>2, <1>4 DEF TypeOK
  <2> QED BY <1>2, <1>4, <2>1, WatchesStay, FlagsStay, FollowupsStay, CallsStay DEF LevelsInv
<1>5. ASSUME NEW r \in Rule,
             fired' = fired \cup {<<w.ticket, w.target, r>>},
             ticket' = [ticket EXCEPT ![w.ticket].flag = Flagged(@, r)],
             breach' = [breach EXCEPT ![w.ticket] = @ \/ r = "breach"]
      PROVE  LevelsInv'
  <2>1. PICK t \in Ticket : t = w.ticket
    BY <1>3
  <2> DEFINE flag == Flagged(ticket[t].flag, r)
             row == [ticket[t] EXCEPT !.flag = flag]
  <2>2. flag \in Rule \cup {"none"} /\ (flag = r \/ (flag = ticket[t].flag /\ flag = "breach"))
    BY <1>1 DEF TypeOK, Row, Flagged
  <2>3. /\ row \in Row /\ row.flag = flag /\ row.status = ticket[t].status
        /\ row.followups = ticket[t].followups
    <3> HIDE DEF flag
    <3> QED BY <1>1, <2>2 DEF TypeOK, Row
  <2>4. ticket' = [ticket EXCEPT ![t] = row]
    BY <1>1, <1>5, <2>1 DEF TypeOK
  <2> HIDE DEF row
  <2>5. /\ ticket' \in [Ticket -> Row] /\ ticket'[t] = row
        /\ \A u \in Ticket \ {t} : ticket'[u] = ticket[u]
    BY <1>1, <2>3, <2>4 DEF TypeOK
  <2>6. \A u \in Ticket : /\ ticket'[u].status = ticket[u].status
                          /\ ticket'[u].followups = ticket[u].followups
    BY <2>3, <2>5
  <2>7. BreachStaysShown'
    <3>1. breach'[t] = (breach[t] \/ r = "breach") /\ \A u \in Ticket \ {t} : breach'[u] = breach[u]
      BY <1>1, <1>5, <2>1 DEF TypeOK
    <3>2. ASSUME breach'[t] PROVE ticket'[t].flag = "breach"
      <4>1. breach[t] \/ r = "breach"
        BY <3>1, <3>2
      <4>2. breach[t] => ticket[t].flag = "breach"
        BY <1>1 DEF BreachStaysShown
      <4>3. flag = "breach"
        BY <4>1, <4>2, <2>2 DEF Flagged
      <4> QED BY <4>3, <2>3, <2>5
    <3> QED BY <1>1, <3>1, <3>2, <2>5 DEF BreachStaysShown
  <2>8. fired' \subseteq Ticket \X Target \X Rule
    BY <1>1, <1>3, <1>5 DEF TypeOK
  <2>9. breach' \in [Ticket -> BOOLEAN]
    BY <1>1, <1>5, <2>1 DEF TypeOK
  <2>10. TypeOK'
    BY <1>1, <1>2, <2>5, <2>8, <2>9 DEF TypeOK
  <2> QED BY <1>2, <2>6, <2>7, <2>10, WatchesStay, FollowupsStay, CallsStay DEF LevelsInv
<1>6. HighestCrossed(w) \subseteq Rule
  BY DEF HighestCrossed, Crossed
<1> QED BY <1>4, <1>5, <1>6 DEF MarkWatch

\* The sweep of the tickets on hold reads a batch: no row of it shows more
\* follow-ups than were sent.
LEMMA SelectPendingKeeps ==
  ASSUME LevelsInv, SelectPending
  PROVE  LevelsInv'
<1>1. TypeOK /\ FollowupsWereAsked
  BY DEF LevelsInv
<1>2. /\ UNCHANGED <<clock, ticket, watch, fired, call, starting, marking, acts, runs>>
      /\ UNCHANGED <<worked, asked, spell, restored, breach, astray>>
  BY DEF SelectPending, historyVars, boundVars
<1>3. chasing' \subseteq Waiting
  BY DEF SelectPending, Oldest, Due
<1>4. \A p \in Waiting : p \in Chases /\ NoMoreThanAsked(p.ticket, p.spell, p.seen.followups)
  <2> SUFFICES ASSUME NEW t \in Ticket,
                      NEW p, p = [ticket |-> t, seen |-> ticket[t], now |-> clock, spell |-> spell[t]]
      PROVE  p \in Chases /\ NoMoreThanAsked(p.ticket, p.spell, p.seen.followups)
    BY DEF Waiting
  <2>1. p \in Chases
    BY <1>1 DEF TypeOK, Chases
  <2>2. NoMoreThanAsked(t, spell[t], ticket[t].followups)
    BY <1>1 DEF FollowupsWereAsked
  <2> QED BY <2>1, <2>2
<1>5. TypeOK'
  BY <1>1, <1>2, <1>3, <1>4 DEF TypeOK
<1>6. FollowupsWereAsked'
  BY <1>1, <1>2, <1>3, <1>4 DEF FollowupsWereAsked, NoMoreThanAsked
<1> QED BY <1>2, <1>5, <1>6, WatchesStay, FlagsStay, CallsStay DEF LevelsInv

\* The sweep resolves a ticket that is still on hold.
LEMMA AutoResolveKeeps ==
  ASSUME LevelsInv, NEW p \in chasing, AutoResolve(p)
  PROVE  LevelsInv'
<1> DEFINE s == After("pending", "resolve")
<1>1. TypeOK
  BY DEF LevelsInv
<1>2. /\ UNCHANGED <<clock, fired, call, starting, marking, acts, runs>>
      /\ UNCHANGED <<worked, asked, spell, restored, breach, astray>>
      /\ chasing' \subseteq chasing
  BY DEF AutoResolve, historyVars, boundVars
<1>3. CASE ~StillPending(p)
  <2>1. UNCHANGED <<ticket, watch>>
    BY <1>3 DEF AutoResolve
  <2>2. TypeOK'
    BY <1>1, <1>2, <2>1 DEF TypeOK
  <2> QED BY <1>2, <2>1, <2>2, WatchesStay, FlagsStay, FollowupsStay, CallsStay DEF LevelsInv
<1>4. CASE StillPending(p)
  <2>1. PICK t \in Ticket : t = p.ticket
    BY <1>1 DEF TypeOK, Chases
  <2>2. s \in TicketStatus
    <3>1. HasEdge("pending", "resolve")
      BY DEF HasEdge, Transitions
    <3> QED BY <3>1, AfterIsStatus
  <2>3. ticket' = [ticket EXCEPT ![t].status = s, ![t].due = NotDue] /\ watch' = Watches(t, s)
    BY <1>4, <2>1 DEF AutoResolve
  <2> HIDE DEF s
  <2>4. RowMoves(t, s)
    BY <1>1, <2>2, <2>3, RowGetsStatus
  <2>5. /\ watch' \in [Ticket -> [Target -> Watch]]
        /\ WatchesKeepTime' /\ CallsWereAllowed' /\ StopwatchIsTrue'
        /\ BreachStaysShown' /\ FollowupsWereAsked'
    BY <1>2, <2>3, <2>4, TicketMoves
  <2>6. TypeOK'
    BY <1>1, <1>2, <2>4, <2>5 DEF TypeOK, RowMoves
  <2> QED BY <2>5, <2>6 DEF LevelsInv
<1> QED BY <1>3, <1>4

\* A follow-up that is counted on the ticket was sent.
LEMMA FollowUpKeeps ==
  ASSUME LevelsInv, NEW p \in chasing, FollowUp(p)
  PROVE  LevelsInv'
<1>1. TypeOK /\ FollowupsWereAsked
  BY DEF LevelsInv
<1>2. /\ UNCHANGED <<clock, watch, fired, call, starting, marking, worked, spell, restored,
                     breach, astray, acts, runs>>
      /\ chasing' = chasing \ {p}
  BY DEF FollowUp, boundVars
<1>3. CASE ~StillWaiting(p)
  <2>1. UNCHANGED <<ticket, asked>>
    BY <1>3 DEF FollowUp
  <2>2. TypeOK'
    BY <1>1, <1>2, <2>1 DEF TypeOK
  <2> QED BY <1>2, <2>1, <2>2, WatchesStay, FlagsStay, FollowupsStay, CallsStay DEF LevelsInv
<1>4. CASE StillWaiting(p)
  <2>1. PICK t \in Ticket : t = p.ticket
    BY <1>1 DEF TypeOK, Chases
  <2>2. p \in Chases /\ ticket[t] \in Row /\ ticket[t].followups \in Nat
    BY <1>1, Bounds DEF TypeOK, Row
  <2> DEFINE k == ticket[t].followups + 1
             slot == NextSlot(p)
             row == [ticket[t] EXCEPT !.followups = k, !.due = slot]
  <2>3. k \in 0 .. Followups
    BY <1>4, <2>1, <2>2, Bounds DEF FollowUp, StillWaiting, AllAsked
  <2>4. slot \in 0 .. MaxTime + Frequency
    BY <2>2, SlotIsDue
  <2>5. ticket' = [ticket EXCEPT ![t] = row] /\ asked' = [asked EXCEPT ![t] = @ + 1]
    BY <1>1, <1>4, <2>1 DEF FollowUp, TypeOK
  <2>6. /\ row \in Row /\ row.status = ticket[t].status /\ row.flag = ticket[t].flag
        /\ row.followups = ticket[t].followups + 1
    <3>1. row.followups = k
      BY <2>2 DEF Row
    <3> HIDE DEF k, slot
    <3>2. row \in Row /\ row.status = ticket[t].status /\ row.flag = ticket[t].flag
      BY <2>2, <2>3, <2>4 DEF Row
    <3> QED BY <3>1, <3>2 DEF k
  <2> HIDE DEF k, slot, row
  <2>7. /\ ticket' \in [Ticket -> Row] /\ ticket'[t] = row
        /\ \A u \in Ticket \ {t} : ticket'[u] = ticket[u]
    BY <1>1, <2>5, <2>6 DEF TypeOK
  <2>8. /\ asked' \in [Ticket -> Nat] /\ asked'[t] = asked[t] + 1
        /\ \A u \in Ticket \ {t} : asked'[u] = asked[u]
    BY <1>1, <2>5 DEF TypeOK
  <2>9. \A u \in Ticket : /\ ticket'[u].status = ticket[u].status
                          /\ ticket'[u].flag = ticket[u].flag
    BY <2>6, <2>7
  <2>10. FollowupsWereAsked'
    <3>1. \A u \in Ticket, sp \in Nat, f \in Nat : NoMoreThanAsked(u, sp, f) => NoMoreThanAsked(u, sp, f)'
      BY <1>1, <1>2, <2>8 DEF NoMoreThanAsked, TypeOK
    <3>2. \A u \in Ticket : NoMoreThanAsked(u, spell[u], ticket[u].followups)'
      <4>1. NoMoreThanAsked(t, spell[t], ticket[t].followups)
        BY <1>1 DEF FollowupsWereAsked
      <4>2. NoMoreThanAsked(t, spell[t], ticket[t].followups)'
        BY <1>1, <1>2, <2>2, <2>6, <2>7, <2>8, <4>1 DEF NoMoreThanAsked, TypeOK
      <4>3. \A u \in Ticket \ {t} : NoMoreThanAsked(u, spell[u], ticket[u].followups)'
        BY <1>1, <1>2, <2>7, <2>8 DEF FollowupsWereAsked, NoMoreThanAsked
      <4> QED BY <4>2, <4>3
    <3>3. \A d \in call : d.ticket \in Ticket /\ d.spell \in Nat /\ d.seen.followups \in Nat
      BY <1>1, Bounds DEF TypeOK, Calls, Row
    <3>4. \A q \in chasing : q.ticket \in Ticket /\ q.spell \in Nat /\ q.seen.followups \in Nat
      BY <1>1, Bounds DEF TypeOK, Chases, Row
    <3>5. \A d \in call : NoMoreThanAsked(d.ticket, d.spell, d.seen.followups)'
      BY <1>1, <3>1, <3>3 DEF FollowupsWereAsked
    <3>6. \A q \in chasing : NoMoreThanAsked(q.ticket, q.spell, q.seen.followups)'
      BY <1>1, <3>1, <3>4 DEF FollowupsWereAsked
    <3> QED BY <1>2, <3>2, <3>5, <3>6 DEF FollowupsWereAsked, NoMoreThanAsked
  <2>11. TypeOK'
    BY <1>1, <1>2, <2>7, <2>8 DEF TypeOK
  <2> QED BY <1>2, <2>9, <2>10, <2>11, WatchesStay, FlagsStay, CallsStay DEF LevelsInv
<1> QED BY <1>3, <1>4

\* A tick is measured by the stopwatches whose target counts, and by no other.
LEMMA TimePassesKeeps ==
  ASSUME LevelsInv, TimePasses
  PROVE  LevelsInv'
<1>1. TypeOK /\ WatchesKeepTime /\ StopwatchIsTrue
  BY DEF LevelsInv
<1>2. /\ UNCHANGED <<ticket, watch, fired, call, starting, marking, chasing, acts, runs>>
      /\ UNCHANGED <<asked, spell, restored, breach, astray>>
      /\ clock < MaxTime /\ clock' = clock + 1
  BY DEF TimePasses, boundVars
<1>3. clock \in Nat /\ clock' \in Time
  BY <1>1, <1>2, Bounds DEF TypeOK, Time
<1>4. \A t \in Ticket, g \in Target : worked'[t][g] = worked[t][g]
        + (IF t \notin astray /\ Counts(ticket[t].status, g) THEN 1 ELSE 0)
  BY DEF TimePasses
<1>5. worked' \in [Ticket -> [Target -> Nat]]
  BY <1>1 DEF TimePasses, TypeOK
<1>6. \A t \in Ticket, g \in Target :
        /\ watch[t][g].running \in BOOLEAN
        /\ watch[t][g].started \in Int /\ watch[t][g].accumulated \in Int
        /\ watch[t][g].started <= clock /\ worked[t][g] \in Nat
        /\ watch[t][g].accumulated <= (IF watch[t][g].running THEN watch[t][g].started ELSE clock)
  BY <1>1, Bounds DEF TypeOK, WatchesKeepTime, Watch, Time
<1>7. WatchesKeepTime'
  BY <1>2, <1>3, <1>6 DEF WatchesKeepTime
<1>8. StopwatchIsTrue'
  <2> SUFFICES ASSUME NEW t \in Ticket \ astray, NEW g \in Target
      PROVE  /\ watch[t][g].running = Counts(ticket[t].status, g)
             /\ Elapsed(watch[t][g], clock') = worked'[t][g]
    BY <1>2 DEF StopwatchIsTrue, Elapsed
  <2>1. /\ watch[t][g].running = Counts(ticket[t].status, g)
        /\ Elapsed(watch[t][g], clock) = worked[t][g]
    BY <1>1 DEF StopwatchIsTrue
  <2>2. worked'[t][g] = worked[t][g] + (IF Counts(ticket[t].status, g) THEN 1 ELSE 0)
    BY <1>4
  <2>3. worked'[t][g] = worked[t][g] + (IF watch[t][g].running THEN 1 ELSE 0)
    BY <2>1, <2>2, Zenon
  <2>4. Elapsed(watch[t][g], clock') = Elapsed(watch[t][g], clock)
                                       + (IF watch[t][g].running THEN 1 ELSE 0)
    <3>1. CASE watch[t][g].running
      BY <1>2, <1>3, <1>6, <3>1 DEF Elapsed
    <3>2. CASE ~watch[t][g].running
      BY <1>2, <1>3, <1>6, <3>2 DEF Elapsed
    <3> QED BY <3>1, <3>2
  <2> QED BY <2>1, <2>3, <2>4, Zenon
<1>9. TypeOK'
  BY <1>1, <1>2, <1>3, <1>5 DEF TypeOK
<1> QED BY <1>2, <1>7, <1>8, <1>9, FlagsStay, FollowupsStay, CallsStay DEF LevelsInv

-----------------------------------------------------------------------------
(* The theorems.                                                            *)

\* The invariant is inductive.
LEMMA StepKeeps == LevelsInv /\ [Next]_vars => LevelsInv'
<1> SUFFICES ASSUME LevelsInv, [Next]_vars PROVE LevelsInv'
  OBVIOUS
<1>1. CASE UNCHANGED vars
  <2>1. TypeOK'
    BY <1>1 DEF LevelsInv, TypeOK, vars
  <2> QED BY <1>1, <2>1, WatchesStay, FlagsStay, FollowupsStay, CallsStay DEF LevelsInv, vars
<1>2. CASE Next
  BY <1>2, ReadForUpdateKeeps, CommitUpdateKeeps, ReporterAnswersKeeps, StartRunKeeps,
     DispatchedKeeps, DispatchFailsKeeps, AgentMovesKeeps, SelectWatchesKeeps, MarkWatchKeeps,
     SelectPendingKeeps, AutoResolveKeeps, FollowUpKeeps, TimePassesKeeps DEF Next
<1> QED BY <1>1, <1>2

\* Every reachable state has the invariant of the stopwatches, the breaches and
\* the follow-ups (pending.ts, sla/*.ts, updateTicket, startTicketRun).
THEOREM LevelsInvariant == Spec => []LevelsInv
BY InitHolds, StepKeeps, PTL DEF Spec

\* A stopwatch measures exactly the time its target counted, through every
\* hold, reopening, run and undone start that does not lead it astray
\* (transitionTicketStopwatches).
THEOREM StopwatchIsTrueHolds == Spec => []StopwatchIsTrue
<1>1. LevelsInv => StopwatchIsTrue
  BY DEF LevelsInv
<1> QED BY <1>1, LevelsInvariant, PTL

\* A marked breach stays on the ticket until a person takes it back or a call
\* writes back the flag it had read before (markWatch, updateTicket).
THEOREM BreachStaysShownHolds == Spec => []BreachStaysShown
<1>1. LevelsInv => BreachStaysShown
  BY DEF LevelsInv
<1> QED BY <1>1, LevelsInvariant, PTL

\* The row the sweep resolves was followed up often enough in this spell.
LEMMA StepAsks ==
  ASSUME LevelsInv, Next, NEW p \in chasing, p \notin chasing',
         ticket[p.ticket].status = "pending", ticket'[p.ticket].status = "resolved",
         p.spell = spell[p.ticket], p.ticket \notin restored
  PROVE  asked[p.ticket] >= Followups
<1>1. TypeOK
  BY DEF LevelsInv
<1>2. p \in Chases /\ p.ticket \in Ticket /\ p.seen.followups \in Nat
      /\ asked[p.ticket] \in Nat
  BY <1>1, Bounds DEF TypeOK, Chases, Row
<1>3. NoMoreThanAsked(p.ticket, p.spell, p.seen.followups)
  BY DEF LevelsInv, FollowupsWereAsked
<1>4. p.seen.followups <= asked[p.ticket]
  BY <1>3 DEF NoMoreThanAsked
<1>5. CASE \E q \in chasing : AutoResolve(q)
  <2>1. AutoResolve(p)
    BY <1>5 DEF AutoResolve
  <2> QED BY <2>1, <1>2, <1>4, Bounds DEF AutoResolve, AllAsked
<1>6. CASE \E q \in chasing : FollowUp(q)
  <2>1. PICK q \in chasing : FollowUp(q)
    BY <1>6
  <2>2. q.ticket \in Ticket
    BY <1>1 DEF TypeOK, Chases
  <2>3. ticket'[p.ticket].status = ticket[p.ticket].status
    <3>1. CASE UNCHANGED ticket
      BY <3>1
    <3>2. CASE ticket' = [ticket EXCEPT ![q.ticket].followups = @ + 1,
                                        ![q.ticket].due = NextSlot(q)]
      BY <1>1, <1>2, <2>2, <3>2 DEF TypeOK, Row
    <3> QED BY <2>1, <3>1, <3>2 DEF FollowUp
  <2> QED BY <2>3
<1>7. CASE SelectPending
  BY <1>7 DEF SelectPending
<1>8. CASE UNCHANGED chasing
  BY <1>8
<1> QED BY <1>5, <1>6, <1>7, <1>8
        DEF Next, ReadForUpdate, CommitUpdate, ReporterAnswers, StartRun, Dispatched,
            DispatchFails, AgentMoves, SelectWatches, MarkWatch, TimePasses

\* No ticket is resolved for its reporter's silence before the follow-ups of
\* this spell of waiting were sent, unless it was put back on hold meanwhile
\* (sweepPending).
THEOREM ResolvedAfterFollowupsHolds == Spec => ResolvedAfterFollowups
<1>1. LevelsInv /\ [Next]_vars =>
        [\A p \in chasing :
           /\ p \notin chasing' /\ ticket[p.ticket].status = "pending"
           /\ ticket'[p.ticket].status = "resolved"
           /\ p.spell = spell[p.ticket] /\ p.ticket \notin restored
           => asked[p.ticket] >= Followups]_vars
  BY StepAsks
<1> QED BY <1>1, LevelsInvariant, PTL DEF Spec, ResolvedAfterFollowups
=============================================================================
