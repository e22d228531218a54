----------------------------- MODULE TicketRuns -----------------------------
(***************************************************************************)
(* What the gateway promises about a ticket and its runs, without the      *)
(* worker, the streams, the leases or the windows between two awaits: a    *)
(* run and its ticket move in one step.                                    *)
(*   - a run starts once, and takes its ticket along;                      *)
(*   - while nobody disturbs the ticket, a run starts only when no other   *)
(*     is under way, and only the run started last concludes: its outcome  *)
(*     and the ticket's status are written together and for good;          *)
(*   - work on a ticket begins only for a run that is under way;           *)
(*   - a start that is withdrawn gives the ticket back.                    *)
(* A disturbed ticket is one that somebody else moved, or that the undo of *)
(* a start took back from a later run.  Of it only this is promised: what  *)
(* a run concludes is an edge of the status graph, and final.              *)
(***************************************************************************)
EXTENDS TicketLifecycle

CONSTANTS Run, Ticket, TicketOf

\* The action of the status graph each outcome stands for.
Outcome == {"resolved", "escalated", "exhausted", "failed"}
EdgeOf(v) == CASE v = "resolved"  -> "resolve"
               [] v = "failed"    -> "fail"
               [] v = "exhausted" -> "exhaust"
               [] v = "escalated" -> "escalate"

VARIABLES
  status,    \* of each ticket
  run,       \* "absent", "running" or an outcome
  latest,    \* the run of each ticket that was started last, if any
  disturbed  \* tickets that others than their runs have moved
promise == <<status, run, latest, disturbed>>

Free(t) == t \notin disturbed
UnderWay(t) == {r \in Run : TicketOf[r] = t /\ run[r] = "running"}

Init ==
  /\ status = [t \in Ticket |-> "open"]
  /\ run = [r \in Run |-> "absent"]
  /\ latest = [t \in Ticket |-> {}]
  /\ disturbed = {}

Move(t, a) ==
  /\ HasEdge(status[t], a)
  /\ status' = [status EXCEPT ![t] = After(@, a)]

Start(r) ==
  LET t == TicketOf[r] IN
  /\ run[r] = "absent" /\ run' = [run EXCEPT ![r] = "running"]
  /\ Free(t) => UnderWay(t) = {}
  /\ Move(t, "startRun")
  /\ latest' = [latest EXCEPT ![t] = {r}]
  /\ UNCHANGED disturbed

Work(t) ==
  /\ Free(t) => UnderWay(t) # {}
  /\ Move(t, "firstTool")
  /\ UNCHANGED <<run, latest, disturbed>>

Ends(r, v) == run[r] = "running" /\ run' = [run EXCEPT ![r] = v]

Conclude(r, v) ==
  LET t == TicketOf[r] IN
  /\ Ends(r, v)
  /\ Free(t) => UnderWay(t) = {r} /\ latest[t] = {r}
  /\ Move(t, EdgeOf(v))
  /\ UNCHANGED <<latest, disturbed>>

\* The start is undone: a ticket that is still routing is startable again.  One that
\* a late call of an earlier run took to resolving stays there.
Withdraw(r) ==
  LET t == TicketOf[r] IN
  /\ Ends(r, "failed")
  /\ Free(t) => UnderWay(t) = {r} /\ latest[t] = {r}
  /\ IF status[t] = "routing"
       THEN \E s \in TicketStatus : HasEdge(s, "startRun")
                                    /\ status' = [status EXCEPT ![t] = s]
       ELSE UNCHANGED status
  /\ UNCHANGED <<latest, disturbed>>

\* The ticket has moved on under the run.
Drop(r) ==
  /\ ~Free(TicketOf[r]) /\ Ends(r, "failed")
  /\ UNCHANGED <<status, latest, disturbed>>

\* The gateway restarts, and fails the runs S that nobody answers for; the
\* status graph has no "fail" for a ticket that is routing.
Restart(S) ==
  /\ \A r \in S : run[r] = "running"
  /\ run' = [r \in Run |-> IF r \in S THEN "failed" ELSE run[r]]
  /\ status' = [t \in Ticket |->
       IF (\E r \in S : TicketOf[r] = t) /\ HasEdge(status[t], "fail")
         THEN After(status[t], "fail") ELSE status[t]]
  /\ UNCHANGED <<latest, disturbed>>

Meddle(t) ==
  /\ \E s \in TicketStatus : status' = [status EXCEPT ![t] = s]
  /\ disturbed \cup {t} \subseteq disturbed' /\ disturbed' \subseteq Ticket
  /\ UNCHANGED <<run, latest>>

Next ==
  \/ \E r \in Run : \/ Start(r) \/ Withdraw(r) \/ Drop(r)
                    \/ \E v \in Outcome : Conclude(r, v)
  \/ \E t \in Ticket : Work(t) \/ Meddle(t)
  \/ \E S \in SUBSET Run : Restart(S)

Spec == Init /\ [][Next]_promise
=============================================================================
