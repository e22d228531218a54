---------------------------- MODULE MCWorkflows ----------------------------
(* A small instance of Workflows for TLC: one execution delivers its webhooks
   itself, the other leaves them to the sweep. *)
EXTENDS Workflows

CONSTANTS e1, e2
=============================================================================
