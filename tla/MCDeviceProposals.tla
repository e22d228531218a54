------------------------- MODULE MCDeviceProposals -------------------------
(* A small instance of DeviceProposals for TLC. *)
EXTENDS DeviceProposals, TLC

EachOnce == [d \in Disturbance |-> 1]
=============================================================================
