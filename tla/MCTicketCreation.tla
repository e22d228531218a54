-------------------------- MODULE MCTicketCreation --------------------------
(* A small instance of Recurrences, with the other sources of TicketCreation, for TLC. *)
EXTENDS Recurrences, TLC

Symmetry == Permutations(Call) \cup Permutations(Doc) \cup Permutations(Sweeper)
=============================================================================
