------------------------------- MODULE MCViewers -------------------------------
(* Two displays and a console, for TLC. *)
EXTENDS Viewers, TLC

MCEmitted ==
    {[kind |-> "notification.received", package |-> p, category |-> c] :
        p \in {"own", "other"}, c \in {"transient", "other"}}
    \cup {[kind |-> "sms.received", package |-> "own", category |-> "other"]}

MCRequested ==
    {[kind |-> k, complete |-> TRUE, dev |-> d] : k \in Kinds, d \in Devices}
    \cup {[kind |-> "sms.reply", complete |-> FALSE, dev |-> d] : d \in Devices}

MCSymmetry == Permutations(Displays)
===============================================================================
