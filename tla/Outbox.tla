-------------------------------- MODULE Outbox --------------------------------
(***************************************************************************)
(* What the channel between the desktop and a phone promises, without      *)
(* tasks, registry and sockets: per connection a bounded first-in          *)
(* first-out queue that begins with the hello. An envelope is accepted at  *)
(* most once, by one connection; what was accepted arrives in that order   *)
(* while the connection lives, and nothing else does. Only the end of the  *)
(* connection loses envelopes, those that are still queued, and then it    *)
(* loses them all.                                                         *)
(*                                                                         *)
(* DeviceLink implements this (DeviceLink.ImplementsOutbox).               *)
(***************************************************************************)
EXTENDS Naturals, Sequences

CONSTANTS Conns,   \* connections
          Msgs,    \* envelopes that are accepted or refused, once
          Notes,   \* envelopes the desktop sends as often as it likes
          First,   \* the envelope every connection begins with
          Cap      \* how many envelopes may wait

VARIABLES phase,   \* of each connection: new, live, over
          queue,   \* accepted and not yet arrived
          got,     \* arrived
          taken    \* the envelopes of Msgs that were accepted

vars == <<phase, queue, got, taken>>

Init ==
    /\ phase = [c \in Conns |-> "new"]
    /\ queue = [c \in Conns |-> <<>>]
    /\ got = [c \in Conns |-> <<>>]
    /\ taken = {}

Open(c) ==
    /\ phase[c] = "new"
    /\ phase' = [phase EXCEPT ![c] = "live"]
    /\ queue' = [queue EXCEPT ![c] = <<First>>]
    /\ UNCHANGED <<got, taken>>

\* An envelope enters the queue.
Enter(c, e) ==
    /\ phase[c] = "live" /\ Len(queue[c]) < Cap
    /\ queue' = [queue EXCEPT ![c] = Append(@, e)]
    /\ UNCHANGED <<phase, got>>

Note(c) == \E e \in Notes : Enter(c, e) /\ UNCHANGED taken

Accept(c) == \E m \in Msgs \ taken : Enter(c, m) /\ taken' = taken \cup {m}

\* The end of the connection has not been noticed yet.
AcceptTooLate ==
    /\ \E c \in Conns : phase[c] = "over"
    /\ \E m \in Msgs \ taken : taken' = taken \cup {m}
    /\ UNCHANGED <<phase, queue, got>>

Arrive(c) ==
    /\ phase[c] = "live" /\ queue[c] # <<>>
    /\ got' = [got EXCEPT ![c] = Append(@, Head(queue[c]))]
    /\ queue' = [queue EXCEPT ![c] = Tail(@)]
    /\ UNCHANGED <<phase, taken>>

End(c) ==
    /\ phase[c] = "live"
    /\ phase' = [phase EXCEPT ![c] = "over"]
    /\ queue' = [queue EXCEPT ![c] = <<>>]
    /\ UNCHANGED <<got, taken>>

Next ==
    \/ \E c \in Conns : Open(c) \/ Note(c) \/ Accept(c) \/ Arrive(c) \/ End(c)
    \/ AcceptTooLate

Spec == Init /\ [][Next]_vars
===============================================================================
