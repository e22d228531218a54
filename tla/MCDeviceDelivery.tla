-------------------------- MODULE MCDeviceDelivery --------------------------
(* Small instances of DeviceDelivery for TLC. *)
EXTENDS DeviceDelivery, TLC

Symmetry == Permutations(Timed) \cup Permutations(Cmd \ Timed)
=============================================================================
