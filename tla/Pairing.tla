-------------------------------- MODULE Pairing --------------------------------
(***************************************************************************)
(* Pairing of one phone with the desktop, end to end:                      *)
(*   - the desktop's PairingMap entry and PendingIncomingMap entry of that *)
(*     phone, the pair.* cases of ws_handler.rs dispatch(), and the REST   *)
(*     handlers that start, accept, reject and remove a pairing;           *)
(*   - the phone's PairingMachine and the buttons that drive it;           *)
(*   - the connection between them, which drops and comes back while the   *)
(*     handler of the old connection still works off what it has received. *)
(*                                                                         *)
(* dispatch() and pair_start are not atomic: a session is taken out of the *)
(* map under the lock and put back under another lock, and pair.request is *)
(* on its way before the Initiator is in the map. Both windows are states  *)
(* here (taken, starting).                                                 *)
(*                                                                         *)
(* Attempts are numbered for the properties only: a message carries the    *)
(* number of the pair_start it stems from (0: phone-initiated), and no     *)
(* guard reads it, as the code correlates nothing.                         *)
(***************************************************************************)
EXTENDS Naturals, Sequences

CONSTANTS MaxStarts,   \* bound: pair_start requests
          MaxInits,    \* bound: pairings started on the phone
          MaxFaults    \* bound: disconnections, restarts, device removals

ASSUME BoundsAssumption == MaxStarts \in Nat /\ MaxInits \in Nat /\ MaxFaults \in Nat

\* The WebSocket handler of the phone's connection, and the one of the
\* connection before it (bound: two handlers per phone).
Handlers == {"cur", "old"}

VARIABLES
    session,     \* PairingMap entry: kind, and the attempt of an Initiator
    taken,       \* per handler, what dispatch() holds between two lock sections
    pending,     \* PendingIncomingMap has an entry
    starting,    \* attempts whose pair.request is sent, Initiator not inserted
    registered,  \* DeviceRegistry entry: none, of "cur", of a dead connection
    said,        \* per handler: device_id_holder is set
    closing,     \* the old handler ends on a Close frame, not on a read error
    link,        \* the WebSocket is up
    down,        \* envelopes on their way to the phone
    up,          \* per handler, envelopes on their way to its dispatch()
    phone,       \* PairingMachine: state, and the attempt it is about
    expired,     \* the 30 s of the code on display are over
    starts, inits, faults,   \* counters of the bounds
    clicks,      \* history: attempts the phone's user pressed Accept for
    grants,      \* history: phone-initiated requests accepted on the desktop
    completes    \* history: pair.complete envelopes the desktop has sent

deskVars  == <<session, taken, pending, starting>>
linkVars  == <<registered, said, closing, link>>
phoneVars == <<phone, expired>>
histVars  == <<clicks, grants, completes>>
vars == <<deskVars, linkVars, down, up, phoneVars, starts, inits, faults, histVars>>

Attempts == 0..MaxStarts
Types    == {"hello", "request", "challenge", "confirm", "complete", "reject"}
Message  == [type : Types, att : Attempts, ok : BOOLEAN]
Msg(t, a, o) == [type |-> t, att |-> a, ok |-> o]

\* Only an Initiator stems from a pair_start, and only it is taken out of the
\* map and becomes a paired session.
Started   == 1..MaxStarts
Session   == [kind : {"none", "responder"}, att : {0}] \cup
             [kind : {"initiator", "paired"}, att : Started]
NoSession == [kind |-> "none", att |-> 0]
Held      == [what : {"nothing", "hello"}, att : {0}, ok : {FALSE}] \cup
             [what : {"challenge", "confirm", "complete"}, att : Started, ok : BOOLEAN]
Nothing   == [what |-> "nothing", att |-> 0, ok |-> FALSE]
HelloHeld == [what |-> "hello", att |-> 0, ok |-> FALSE]

PhoneStates == {"Idle", "Initiating", "ShowingCode", "Confirming", "Paired", "Failed"}

TypeOK ==
    /\ session \in Session
    /\ taken \in [Handlers -> Held]
    /\ pending \in BOOLEAN
    /\ starting \subseteq Started
    /\ registered \in {"no", "live", "stale"}
    /\ said \in [Handlers -> BOOLEAN]
    /\ closing \in BOOLEAN /\ link \in BOOLEAN
    /\ down \in Seq(Message) /\ up \in [Handlers -> Seq(Message)]
    /\ phone \in [st : PhoneStates, att : Attempts]
    /\ expired \in BOOLEAN
    /\ starts \in 0..MaxStarts /\ inits \in 0..MaxInits /\ faults \in 0..MaxFaults
    /\ clicks \in Seq(Attempts)
    /\ grants \in Nat /\ completes \in Nat

Init ==
    /\ session = NoSession
    /\ taken = [h \in Handlers |-> Nothing]
    /\ pending = FALSE
    /\ starting = {}
    /\ registered = "no"
    /\ said = [h \in Handlers |-> FALSE]
    /\ closing = FALSE /\ link = FALSE
    /\ down = <<>> /\ up = [h \in Handlers |-> <<>>]
    /\ phone = [st |-> "Idle", att |-> 0]
    /\ expired = FALSE
    /\ starts = 0 /\ inits = 0 /\ faults = 0
    /\ clicks = <<>> /\ grants = 0 /\ completes = 0

\* What dispatch() returns goes into the handler's own channel: it is lost
\* when the connection is.
ReplyToPhone(h, m) == down' = IF h = "cur" /\ link THEN Append(down, m) ELSE down

\* What a REST handler sends goes where the registry leads: a stale entry is
\* the channel of a dead connection.
PushToPhone(m) == down' = IF registered = "live" THEN Append(down, m) ELSE down

\* BridgeClient.send: the outgoing Channel survives disconnections.
ToDesktop(m) == up' = [up EXCEPT !["cur"] = Append(@, m)]

-----------------------------------------------------------------------------
(***************************************************************************)
(* Desktop: dispatch() of one envelope by handler h, in order of arrival.  *)
(***************************************************************************)

Arrives(h, t) ==
    /\ h = "cur" => link
    /\ taken[h] = Nothing
    /\ up[h] # <<>>
    /\ Head(up[h]).type = t
    /\ up' = [up EXCEPT ![h] = Tail(@)]

\* device.hello registers the connection; with no session in the map a
\* Responder is made (a certificate is generated) and then inserted.
RecvHello(h) ==
    /\ Arrives(h, "hello")
    /\ registered' = IF h = "cur" THEN "live" ELSE "stale"
    /\ said' = [said EXCEPT ![h] = TRUE]
    /\ taken' = IF session.kind = "none"
                THEN [taken EXCEPT ![h] = HelloHeld] ELSE taken
    /\ UNCHANGED <<session, pending, starting, closing, link, down, phoneVars,
                   starts, inits, faults, histVars>>

InsertResponder(h) ==
    /\ taken[h].what = "hello"
    /\ session' = [kind |-> "responder", att |-> 0]
    /\ taken' = [taken EXCEPT ![h] = Nothing]
    /\ UNCHANGED <<pending, starting, linkVars, down, up, phoneVars, starts, inits,
                   faults, histVars>>

\* A phone-initiated pair.request is parked for the web console.
RecvRequest(h) ==
    /\ Arrives(h, "request")
    /\ pending' = TRUE
    /\ UNCHANGED <<session, taken, starting, linkVars, down, phoneVars, starts, inits,
                   faults, histVars>>

\* Mutant: what is not an Initiator is not put back.
TakeWhateverThereIs(h, t) ==
    /\ Arrives(h, t)
    /\ taken' = IF session.kind = "initiator"
                THEN [taken EXCEPT ![h] = [what |-> t, att |-> session.att, ok |-> Head(up[h]).ok]]
                ELSE taken
    /\ session' = NoSession
    /\ UNCHANGED <<pending, starting, linkVars, down, phoneVars, starts, inits,
                   faults, histVars>>

\* take_unpaired_initiator on a challenge or a confirm; any other session is
\* left alone and the envelope ignored.
TakeInitiator(h, t) ==
    /\ Arrives(h, t)
    /\ IF session.kind = "initiator"
       THEN /\ taken' = [taken EXCEPT ![h] = [what |-> t, att |-> session.att, ok |-> Head(up[h]).ok]]
            /\ session' = NoSession
       ELSE UNCHANGED <<taken, session>>
    /\ UNCHANGED <<pending, starting, linkVars, down, phoneVars, starts, inits,
                   faults, histVars>>

RecvChallenge(h) == TakeInitiator(h, "challenge")
RecvConfirm(h)   == TakeInitiator(h, "confirm")

PutBack(h) == session' = [kind |-> "initiator", att |-> taken[h].att]

\* Mutant: the Initiator is not stashed back.
FinishChallengeDropping(h) ==
    /\ taken[h].what = "challenge"
    /\ taken' = [taken EXCEPT ![h] = Nothing]
    /\ \/ UNCHANGED down
       \/ ReplyToPhone(h, Msg("reject", taken[h].att, FALSE))
    /\ UNCHANGED <<session, pending, starting, linkVars, up, phoneVars, starts, inits,
                   faults, histVars>>

\* The Initiator goes back; when the desktop's clock is past the phone's
\* expiry time (two clocks: either may happen) a pair.reject goes out.
FinishChallenge(h) ==
    /\ taken[h].what = "challenge"
    /\ PutBack(h)
    /\ taken' = [taken EXCEPT ![h] = Nothing]
    /\ \/ UNCHANGED down
       \/ ReplyToPhone(h, Msg("reject", taken[h].att, FALSE))
    /\ UNCHANGED <<pending, starting, linkVars, up, phoneVars, starts, inits,
                   faults, histVars>>

\* Mutant: the user's answer is not looked at.
FinishConfirmAnyway(h) ==
    /\ taken[h].what = "confirm"
    /\ PutBack(h)
    /\ ReplyToPhone(h, Msg("complete", taken[h].att, TRUE))
    /\ completes' = completes + 1
    /\ taken' = [taken EXCEPT ![h] = Nothing]
    /\ UNCHANGED <<pending, starting, linkVars, up, phoneVars, starts, inits,
                   faults, clicks, grants>>

\* Accepted on the phone: our certificate goes out and the Initiator waits
\* for the phone's. Rejected: the Initiator is dropped.
FinishConfirm(h) ==
    /\ taken[h].what = "confirm"
    /\ IF taken[h].ok
       THEN /\ PutBack(h)
            /\ ReplyToPhone(h, Msg("complete", taken[h].att, TRUE))
            /\ completes' = completes + 1
       ELSE UNCHANGED <<session, down, completes>>
    /\ taken' = [taken EXCEPT ![h] = Nothing]
    /\ UNCHANGED <<pending, starting, linkVars, up, phoneVars, starts, inits,
                   faults, clicks, grants>>

\* Mutant: a Responder is completed whether or not it has accepted.
RecvCompleteUnasked(h) ==
    /\ Arrives(h, "complete")
    /\ CASE session.kind = "initiator" ->
              /\ taken' = [taken EXCEPT ![h] = [what |-> "complete", att |-> session.att, ok |-> TRUE]]
              /\ session' = NoSession
         [] session.kind = "responder" ->
              /\ session' = [session EXCEPT !.kind = "paired"]
              /\ UNCHANGED taken
         [] OTHER -> UNCHANGED <<taken, session>>
    /\ UNCHANGED <<pending, starting, linkVars, down, phoneVars, starts, inits,
                   faults, histVars>>

\* pair.complete is tried on an Initiator first, then on a Responder. The
\* Responder's `accepted` is never set on the desktop, so its on_complete
\* fails and it is dropped.
RecvComplete(h) ==
    /\ Arrives(h, "complete")
    /\ CASE session.kind = "initiator" ->
              /\ taken' = [taken EXCEPT ![h] = [what |-> "complete", att |-> session.att, ok |-> TRUE]]
              /\ session' = NoSession
         [] session.kind = "responder" ->
              /\ session' = NoSession
              /\ UNCHANGED taken
         [] OTHER -> UNCHANGED <<taken, session>>
    /\ UNCHANGED <<pending, starting, linkVars, down, phoneVars, starts, inits,
                   faults, histVars>>

FinishComplete(h) ==
    /\ taken[h].what = "complete"
    /\ session' = [kind |-> "paired", att |-> taken[h].att]
    /\ taken' = [taken EXCEPT ![h] = Nothing]
    /\ UNCHANGED <<pending, starting, linkVars, down, up, phoneVars, starts, inits,
                   faults, histVars>>

-----------------------------------------------------------------------------
(***************************************************************************)
(* Desktop: REST handlers. pair/accept and pair/reject are not here: both  *)
(* look for an Initiator with PairingMap::get, whose copy of an unpaired   *)
(* session is always a Responder, and answer 409 without changing anything.*)
(***************************************************************************)

\* POST pair/start: the request goes out first ... (a channel that refuses
\* it ends the handler with nothing changed)
PairStart ==
    /\ starts < MaxStarts
    /\ registered # "no"
    /\ starts' = starts + 1
    /\ starting' = starting \cup {starts'}
    /\ PushToPhone(Msg("request", starts', TRUE))
    /\ UNCHANGED <<session, taken, pending, linkVars, up, phoneVars, inits, faults, histVars>>

\* ... then the Initiator replaces whatever session there is.
InsertInitiator(n) ==
    /\ n \in starting
    /\ starting' = starting \ {n}
    /\ session' = [kind |-> "initiator", att |-> n]
    /\ UNCHANGED <<taken, pending, linkVars, down, up, phoneVars, starts, inits,
                   faults, histVars>>

\* POST pair/incoming-accept and incoming-reject: the entry is dropped first;
\* the confirm is sent if the phone is registered and its channel takes it.
Decide(accept) ==
    /\ pending
    /\ pending' = FALSE
    /\ \/ registered # "no" /\ PushToPhone(Msg("confirm", 0, accept))
       \/ UNCHANGED down
    /\ grants' = IF accept THEN grants + 1 ELSE grants
    /\ UNCHANGED <<session, taken, starting, linkVars, up, phoneVars, starts, inits,
                   faults, clicks, completes>>

\* DELETE devices/{id}.
RemoveDevice ==
    /\ faults < MaxFaults
    /\ faults' = faults + 1
    /\ session' = NoSession
    /\ registered' = "no"
    /\ UNCHANGED <<taken, pending, starting, said, closing, link, down, up, phoneVars,
                   starts, inits, histVars>>

-----------------------------------------------------------------------------
(***************************************************************************)
(* Phone: BridgeService.handleIncoming and the PairingMachine.             *)
(***************************************************************************)

Delivered(t) ==
    /\ link
    /\ down # <<>>
    /\ Head(down).type = t
    /\ down' = Tail(down)

PhoneOnly == UNCHANGED <<deskVars, linkVars, starts, inits, faults, histVars>>

\* The desktop's hello: when it changes the desktop name on record, the
\* status observer runs again and sends another hello of the phone.
OnHello ==
    /\ Delivered("hello")
    /\ ToDesktop(Msg("hello", 0, TRUE)) \/ UNCHANGED up
    /\ UNCHANGED phoneVars
    /\ PhoneOnly

\* onRequest: from any state, a new code for 30 s.
OnRequest ==
    /\ Delivered("request")
    /\ phone' = [st |-> "ShowingCode", att |-> Head(down).att]
    /\ expired' = FALSE
    /\ ToDesktop(Msg("challenge", Head(down).att, TRUE))
    /\ PhoneOnly

\* onInitiatorConfirm: only while Initiating.
OnConfirm ==
    /\ Delivered("confirm")
    /\ IF phone.st = "Initiating"
       THEN IF Head(down).ok
            THEN /\ phone' = [st |-> "Confirming", att |-> 0]
                 /\ ToDesktop(Msg("complete", 0, TRUE))
            ELSE /\ phone' = [st |-> "Failed", att |-> 0]
                 /\ UNCHANGED up
       ELSE UNCHANGED <<phone, up>>
    /\ UNCHANGED expired
    /\ PhoneOnly

\* Mutant: the phone keeps its own certificate to itself.
OnCompleteSilently ==
    /\ Delivered("complete")
    /\ phone' = [phone EXCEPT !.st = "Paired"]
    /\ UNCHANGED <<up, expired>>
    /\ PhoneOnly

\* onComplete: from any state; our own certificate goes back.
OnComplete ==
    /\ Delivered("complete")
    /\ phone' = [phone EXCEPT !.st = "Paired"]
    /\ ToDesktop(Msg("complete", Head(down).att, TRUE))
    /\ UNCHANGED expired
    /\ PhoneOnly

\* onReject: from any state.
OnReject ==
    /\ Delivered("reject")
    /\ phone' = [phone EXCEPT !.st = "Failed"]
    /\ UNCHANGED <<up, expired>>
    /\ PhoneOnly

Expire ==
    /\ phone.st = "ShowingCode"
    /\ ~expired
    /\ expired' = TRUE
    /\ UNCHANGED <<phone, down, up>>
    /\ PhoneOnly

\* userAccepts: too late, the attempt fails without a word to the desktop.
UserAccepts ==
    /\ phone.st = "ShowingCode"
    /\ IF expired
       THEN /\ phone' = [phone EXCEPT !.st = "Failed"]
            /\ UNCHANGED <<up, clicks>>
       ELSE /\ phone' = [phone EXCEPT !.st = "Confirming"]
            /\ ToDesktop(Msg("confirm", phone.att, TRUE))
            /\ clicks' = Append(clicks, phone.att)
    /\ UNCHANGED <<deskVars, linkVars, down, expired, starts, inits, faults, grants, completes>>

UserRejects ==
    /\ phone.st = "ShowingCode"
    /\ phone' = [phone EXCEPT !.st = "Failed"]
    /\ ToDesktop(Msg("confirm", phone.att, FALSE))
    /\ UNCHANGED <<down, expired>>
    /\ PhoneOnly

\* reset: offered on the Initiating and the Failed screens.
UserResets ==
    /\ phone.st \in {"Initiating", "Failed"}
    /\ phone' = [st |-> "Idle", att |-> 0]
    /\ UNCHANGED <<down, up, expired>>
    /\ PhoneOnly

\* initiate: only when Idle.
UserInitiates ==
    /\ phone.st = "Idle"
    /\ inits < MaxInits
    /\ inits' = inits + 1
    /\ phone' = [st |-> "Initiating", att |-> 0]
    /\ ToDesktop(Msg("request", 0, TRUE))
    /\ UNCHANGED <<deskVars, linkVars, down, expired, starts, faults, histVars>>

-----------------------------------------------------------------------------
(***************************************************************************)
(* Connection, crashes and restarts.                                       *)
(***************************************************************************)

OldIdle == up["old"] = <<>> /\ taken["old"] = Nothing

\* runOnce connects; sendHello queues behind what is already waiting. The
\* desktop's handler says hello first.
Reconnect ==
    /\ ~link
    /\ link' = TRUE
    /\ down' = <<Msg("hello", 0, TRUE)>>
    /\ ToDesktop(Msg("hello", 0, TRUE))
    /\ UNCHANGED <<deskVars, registered, said, closing, phoneVars, starts, inits,
                   faults, histVars>>

\* The connection is lost, and with it what was written in either direction;
\* the first j frames have reached the server and stay with the old handler,
\* those after the k-th are still in the phone's outgoing Channel.
Disconnect(j, k) ==
    /\ link
    /\ OldIdle /\ ~closing
    /\ link' = FALSE
    /\ closing' \in BOOLEAN
    /\ registered' = IF registered = "live" THEN "stale" ELSE registered
    /\ said' = [said EXCEPT !["cur"] = FALSE, !["old"] = said["cur"]]
    /\ taken' = [taken EXCEPT !["cur"] = Nothing, !["old"] = taken["cur"]]
    /\ down' = <<>>
    /\ up' = [up EXCEPT !["cur"] = SubSeq(@, k + 1, Len(@)), !["old"] = SubSeq(up["cur"], 1, j)]

Drop ==
    /\ faults < MaxFaults
    /\ faults' = faults + 1
    /\ \E k \in 0..Len(up["cur"]) : \E j \in 0..k : Disconnect(j, k)
    /\ UNCHANGED <<session, pending, starting, phoneVars, starts, inits, histVars>>

\* The old handler reads the Close frame and cleans up: unregister goes by
\* device id, whoever the entry belongs to.
Unregister ==
    /\ closing
    /\ OldIdle
    /\ closing' = FALSE
    /\ registered' = IF said["old"] THEN "no" ELSE registered
    /\ UNCHANGED <<deskVars, said, link, down, up, phoneVars, starts, inits, faults, histVars>>

\* Nothing of the desktop's pairing state is stored.
DesktopRestarts ==
    /\ faults < MaxFaults
    /\ faults' = faults + 1
    /\ session' = NoSession
    /\ taken' = [h \in Handlers |-> Nothing]
    /\ pending' = FALSE /\ starting' = {}
    /\ registered' = "no"
    /\ said' = [h \in Handlers |-> FALSE]
    /\ closing' = FALSE /\ link' = FALSE
    /\ down' = <<>>
    /\ \E k \in 0..Len(up["cur"]) :
          up' = [up EXCEPT !["cur"] = SubSeq(@, k + 1, Len(@)), !["old"] = <<>>]
    /\ UNCHANGED <<phoneVars, starts, inits, histVars>>

\* The app's process is killed, connected or not: the PairingMachine starts over
\* as Idle and the outgoing Channel is gone.
PhoneRestarts ==
    /\ faults < MaxFaults
    /\ faults' = faults + 1
    /\ phone' = [st |-> "Idle", att |-> 0]
    /\ expired' = FALSE
    /\ \/ \E j \in 0..Len(up["cur"]) : Disconnect(j, Len(up["cur"]))
       \/ /\ ~link
          /\ up' = [up EXCEPT !["cur"] = <<>>]
          /\ UNCHANGED <<taken, linkVars, down>>
    /\ UNCHANGED <<session, pending, starting, starts, inits, histVars>>

-----------------------------------------------------------------------------
Dispatch(h) ==
    \/ RecvHello(h) \/ InsertResponder(h) \/ RecvRequest(h)
    \/ RecvChallenge(h) \/ FinishChallenge(h)
    \/ RecvConfirm(h) \/ FinishConfirm(h)
    \/ RecvComplete(h) \/ FinishComplete(h)

PhoneHandles == OnHello \/ OnRequest \/ OnConfirm \/ OnComplete \/ OnReject

User ==
    \/ PairStart \/ Decide(TRUE) \/ Decide(FALSE)
    \/ UserAccepts \/ UserRejects \/ UserResets \/ UserInitiates

Fault == RemoveDevice \/ Drop \/ DesktopRestarts \/ PhoneRestarts

Next ==
    \/ \E h \in Handlers : Dispatch(h)
    \/ \E n \in Attempts : InsertInitiator(n)
    \/ PhoneHandles
    \/ User
    \/ Expire
    \/ Reconnect
    \/ Unregister
    \/ Fault

\* Ready tasks on either side are scheduled, and an envelope on a connection
\* that is up arrives. Users and faults are free, and a lost connection need
\* not come back.
Fairness ==
    /\ \A h \in Handlers : WF_vars(Dispatch(h))
    /\ WF_vars(PhoneHandles)
    /\ \A n \in Attempts : WF_vars(InsertInitiator(n))

Spec == Init /\ [][Next]_vars
FairSpec == Spec /\ Fairness

-----------------------------------------------------------------------------
(***************************************************************************)
(* Properties.                                                             *)
(***************************************************************************)

\* Neither side ends up paired without a user: the phone is Paired only after
\* its user pressed Accept on a code, the desktop only after that or after
\* both users agreed to a phone-initiated pairing, across any drops, restarts,
\* repeated attempts and both windows.
ConsentBeforePaired ==
    /\ phone.st = "Paired" => clicks # <<>>
    /\ session.kind = "paired" => clicks # <<>> \/ (inits > 0 /\ grants > 0)

\* One press of Accept lets the desktop send its certificate once at most.
OneCompletePerClick == completes <= Len(clicks)

\* One attempt, started on the desktop, and nothing goes wrong around it.
Calm == starts <= 1 /\ inits = 0 /\ faults = 0

\* An undisturbed attempt that has come to rest leaves the two sides agreed.
CalmAgreement ==
    Calm /\ up["cur"] = <<>> /\ down = <<>> /\ taken["cur"] = Nothing =>
        (session.kind = "paired" <=> phone.st = "Paired")

\* Paired is left only for a new pair_start, by removal or by a restart: no
\* late envelope of an old attempt takes a paired session apart. (After a
\* disconnection two handlers may overlap, and one that looked at the map
\* before the other completed the pairing may still overwrite it.)
PairedIsStable ==
    [][session.kind = "paired" /\ session'.kind # "paired" =>
          \/ session'.kind = "initiator" /\ starting' # starting
          \/ faults' > faults
          \/ faults > 0 /\ \E h \in Handlers : taken[h] # Nothing /\ taken'[h] = Nothing]_vars

\* The user's Accept completes on both sides, if it is still on its way when
\* the desktop's Initiator is in the map and no hello is about to replace it.
AcceptCompletes ==
    (/\ Calm
     /\ session.kind = "initiator" /\ taken["cur"].what # "hello"
     /\ \E i \in DOMAIN up["cur"] : up["cur"][i] = Msg("confirm", 1, TRUE))
        ~> (~Calm \/ (phone.st = "Paired" /\ session.kind = "paired"))

\* rest.rs, pair_start: "Persist the Initiator in the shared PairingMap so the
\* WS handler can drive it when the device sends back pair.challenge": on an
\* undisturbed attempt, the challenge finds the Initiator.
ChallengeFindsInitiator ==
    [][Calm /\ RecvChallenge("cur") => session.kind = "initiator"]_vars

\* ws_handler.rs, phone-initiated pair.request: "After Accept, when the phone
\* replies with `device.pair.complete`, the existing dispatcher handles the
\* cert exchange."
IncomingAcceptCompletes ==
    (phone.st = "Confirming" /\ phone.att = 0) ~> session.kind = "paired"

\* ws_handler.rs, pair.challenge: "the user's click on the phone [...] is the
\* canonical confirmation": the desktop hands out the certificate of an
\* attempt only after the user accepted that attempt's code.
ConfirmedInThisAttempt ==
    \A i \in DOMAIN down :
        down[i].type = "complete" => \E j \in DOMAIN clicks : clicks[j] = down[i].att
=============================================================================
