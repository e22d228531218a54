--------------------------- MODULE CommandDelivery ---------------------------
(***************************************************************************)
(* What the gateway and one device promise about a command, without the    *)
(* streams, the outbox or the processes in between:                        *)
(*   - numbers are issued in increasing order and never reissued;          *)
(*   - a command runs at most once, after it was numbered, and in the      *)
(*     order of the numbers;                                               *)
(*   - its caller gets one answer, and the answer is "ok" only if the      *)
(*     command ran.                                                        *)
(* Nothing is promised about an answer that is not "ok": a command that    *)
(* timed out may have run, or may still run.                               *)
(***************************************************************************)
EXTENDS Naturals

CONSTANT Cmd

Answers == {"ok", "error", "timed_out", "lost"}

VARIABLES number, runs, answer
promise == <<number, runs, answer>>

Init ==
  /\ number = [c \in Cmd |-> 0]
  /\ runs = [c \in Cmd |-> 0]
  /\ answer = [c \in Cmd |-> "none"]

Issue(c) ==
  /\ number[c] = 0
  /\ DOMAIN number' = Cmd /\ number'[c] > 0
  /\ \A d \in Cmd \ {c} : number'[c] > number[d] /\ number'[d] = number[d]
  /\ UNCHANGED <<runs, answer>>

Run(c) ==
  /\ number[c] > 0 /\ runs[c] = 0
  /\ \A d \in Cmd : runs[d] > 0 => number[d] < number[c]
  /\ runs' = [runs EXCEPT ![c] = 1]
  /\ UNCHANGED <<number, answer>>

\* One caller is answered, or a dying gateway answers several at once.
Answer ==
  LET answered == {c \in Cmd : answer'[c] # answer[c]} IN
  /\ DOMAIN answer' = Cmd /\ answered # {}
  /\ \A c \in answered : answer[c] = "none" /\ answer'[c] \in Answers
  /\ \A c \in answered : answer'[c] = "ok" => runs[c] = 1
  /\ UNCHANGED <<number, runs>>

Next == Answer \/ \E c \in Cmd : Issue(c) \/ Run(c)

Spec == Init /\ [][Next]_promise
=============================================================================
