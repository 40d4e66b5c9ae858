------------------------------- MODULE MCCenter -------------------------------
(* A phone with two device ids and two links, for TLC. *)
EXTENDS Center, TLC

MCOps == AllOps
MCSends == {"sms", "call.incoming", "unpair"}
MCSymmetry == Permutations(Handlers) \cup Permutations(Requests) \cup Permutations(Devices)
===============================================================================
