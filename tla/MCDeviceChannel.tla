-------------------------- MODULE MCDeviceChannel --------------------------
(* Small instances of DeviceChannel for TLC. *)
EXTENDS DeviceChannel, TLC

Symmetry == Permutations(Timed) \cup Permutations(Cmd \ Timed)
=============================================================================
