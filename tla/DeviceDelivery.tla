--------------------------- MODULE DeviceDelivery ---------------------------
(* DeviceChannel implements CommandDelivery. *)
EXTENDS DeviceChannel

\* The caller awaits the "dispatched" update before it awaits the promise, so it
\* has no answer while that update is outstanding.
AnswerOf(c) ==
  IF c \in marking \/ told[c] = "waiting" THEN "none" ELSE told[c]

Promise == INSTANCE CommandDelivery
  WITH number <- seqOf, runs <- ran, answer <- [c \in Cmd |-> AnswerOf(c)]

\* Numbering, at-most-once execution in order, and one honest answer per caller.
DeliversOnce == Promise!Spec
=============================================================================
