---------------------------- MODULE MCConnector ----------------------------
(* Small instances of Connector for TLC. *)
EXTENDS Connector, TLC

\* Disturbances: the named ones once, the others never.
Once(S) == [d \in Disturbance |-> IF d \in S THEN 1 ELSE 0]
Anything == Once(Disturbance)

Symmetry == Permutations(Incident) \cup Permutations(Note)
=============================================================================
