--------------------------- MODULE MCServiceLevels ---------------------------
(* ServiceLevels for TLC: the thresholds of both targets.                   *)
EXTENDS ServiceLevels

Warnings == [g \in Target |-> 1]
Breaches == [g \in Target |-> IF g = "response" THEN 1 ELSE 2]
=============================================================================
