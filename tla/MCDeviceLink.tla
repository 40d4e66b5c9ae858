----------------------------- MODULE MCDeviceLink -----------------------------
(* Small instances of DeviceLink for TLC. *)
EXTENDS DeviceLink, TLC

Symmetry == Permutations(Conns) \cup Permutations(Msgs) \cup Permutations(Devices)
=============================================================================
