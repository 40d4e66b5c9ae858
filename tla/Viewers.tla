-------------------------------- MODULE Viewers --------------------------------
(***************************************************************************)
(* The live viewers of the message-center:                                 *)
(*   - DisplayBus and ConsoleBus (display_bus.rs, console_bus.rs): tokio   *)
(*     broadcast channels, rings that overwrite their oldest event, each   *)
(*     subscriber with a position of its own;                              *)
(*   - /ws/display (display_ws.rs, display_auth.rs): the upgrade, and per  *)
(*     connection the bridge from the bus to a bounded queue, the writer   *)
(*     from the queue to the socket and the reader with its actions;       *)
(*   - /ws/console (ws.rs): one loop that forwards the bus and reads;      *)
(*   - the noise filter in front of the DisplayBus (noise_filter.rs).      *)
(* CenterSink and the phones are as much as they need: events that are     *)
(* published, and a registry that says who is connected.                   *)
(*                                                                         *)
(* An event is a number, its position in its bus; what it says is kept     *)
(* only for the events the display's reader publishes itself. A send on a  *)
(* bus and the look at subscriber_count before it are one step: whoever    *)
(* subscribes between them was not owed the event.                         *)
(***************************************************************************)
EXTENDS Integers, FiniteSets, Sequences

CONSTANTS Displays,    \* connections of display endpoints
          Consoles,    \* connections of web consoles
          Devices,     \* phones
          BusCap,      \* capacity of a bus (1024 in the code)
          QueueCap,    \* capacity of a display's queue (64 in the code)
          Emitted,     \* bound: what CenterSink publishes, among Payloads
          Requested,   \* bound: actions the displays send (a subset of Actions)
          MaxViewers,  \* bound: connections, of displays and consoles
          MaxMoves     \* bound: calls of CenterSink, lines sent, phones that come or go

ASSUME ViewersAssumption ==
    /\ IsFiniteSet(Displays) /\ Displays \cap Consoles = {}
    /\ BusCap \in Nat \ {0} /\ QueueCap \in Nat \ {0}
    /\ MaxViewers \in Nat /\ MaxMoves \in Nat

VARIABLES
    stage,     \* of each connection
    log,       \* what was sent on each bus
    count,     \* DisplayBus::subscriber_count
    sub,       \* connections whose subscription is alive
    from,      \* history: the first event a subscription is owed
    cur,       \* the next event it will receive
    hold,      \* what the bridge, or the console's loop, has received
    queue,     \* the channel between bridge and writer
    writer,    \* displays whose writer runs
    writing,   \* what the writer has taken
    seen,      \* what reached the client, while its connection works
    lines,     \* what the client sent and the reader has not read
    act,       \* the action the reader is at
    done,      \* history: the actions finished, with the result published
    accepted,  \* history: envelopes a phone's channel accepted, <<display, action>>
    online,    \* phones in the registry
    moves      \* steps of the environment: calls of CenterSink, lines, phones

busVars    == <<log, count, sub, from, cur>>
pipeVars   == <<hold, queue, writer, writing, seen>>
readerVars == <<lines, act, done, accepted>>
envVars    == <<online, moves>>
vars       == <<stage, busVars, pipeVars, readerVars, envVars>>

-----------------------------------------------------------------------------
Viewers  == Displays \cup Consoles
Buses    == {"display", "console"}
BusOf(v) == IF v \in Displays THEN "display" ELSE "console"
Last(b)  == Len(log[b])

\* DisplayEvents: those of CenterSink, and those the reader publishes itself.
SinkEvent == [kind |-> "sink"]
Events    == {SinkEvent} \cup [kind : {"phone.offline"}, by : Displays, n : Nat]
                         \cup [kind : {"action.result"}, by : Displays, n : Nat, ok : BOOLEAN]

\* DisplayAction. `complete' says whether sms.reply has its address and text;
\* a line that does not parse is "garbage".
ToPhone == {"sms.reply", "notification.dismiss", "call.answer", "call.end"}
Kinds   == ToPhone \cup {"notification.read", "unknown", "garbage"}
Actions == [kind : Kinds, complete : BOOLEAN, dev : Devices]
ASSUME RequestedAssumption == Requested \subseteq Actions

NoAction == [at |-> "none"]

Init ==
    /\ stage = [v \in Viewers |-> "new"]
    /\ log = [b \in Buses |-> <<>>] /\ count = 0
    /\ sub = {} /\ from = [v \in Viewers |-> 1] /\ cur = [v \in Viewers |-> 1]
    /\ hold = [v \in Viewers |-> <<>>] /\ queue = [v \in Displays |-> <<>>]
    /\ writer = {} /\ writing = [v \in Displays |-> <<>>]
    /\ seen = [v \in Viewers |-> <<>>]
    /\ lines = [v \in Displays |-> <<>>] /\ act = [v \in Displays |-> NoAction]
    /\ done = [v \in Displays |-> <<>>] /\ accepted = {}
    /\ online \in SUBSET Devices /\ moves = 0

-----------------------------------------------------------------------------
(***************************************************************************)
(* The buses.                                                              *)
(***************************************************************************)
\* The oldest event a ring still holds.
Oldest(b) == IF Last(b) > BusCap THEN Last(b) - BusCap + 1 ELSE 1

\* DisplayBus::publish: nothing is sent when nobody has subscribed.
Publish(e) == log' = IF count = 0 THEN log ELSE [log EXCEPT !["display"] = Append(@, e)]

\* Both buses' subscribe: from the next event on.
Subscribe(v) ==
    /\ sub' = sub \cup {v}
    /\ from' = [from EXCEPT ![v] = Last(BusOf(v)) + 1]
    /\ cur' = [cur EXCEPT ![v] = Last(BusOf(v)) + 1]
    /\ count' = IF v \in Displays THEN count + 1 ELSE count

\* Drop of a subscriber that is still there.
DropSub(v) ==
    /\ sub' = sub \ {v}
    /\ from' = [from EXCEPT ![v] = 1] /\ cur' = [cur EXCEPT ![v] = 1]
    /\ count' = IF v \in sub \cap Displays /\ count > 0 THEN count - 1 ELSE count

\* Mutant: a subscriber that fell behind goes on from the newest event.
AfterLagNewest(b) == Last(b) + 1

\* RecvError::Lagged: it goes on from the oldest event that is left.
AfterLag(b) == Oldest(b)

\* Receiver::recv.
Recv(v) ==
    /\ v \in sub /\ hold[v] = <<>> /\ cur[v] <= Last(BusOf(v))
    /\ IF cur[v] < Oldest(BusOf(v))
       THEN cur' = [cur EXCEPT ![v] = AfterLag(BusOf(v))] /\ UNCHANGED hold
       ELSE cur' = [cur EXCEPT ![v] = @ + 1] /\ hold' = [hold EXCEPT ![v] = <<cur[v]>>]

-----------------------------------------------------------------------------
(***************************************************************************)
(* CenterSink publishes; the noise filter decides about the display.       *)
(***************************************************************************)
SinkKinds == {"notification.received", "notification.dismissed", "sms.received", "sms.send.result",
              "sms.list.result", "call.state", "call.incoming", "device.hello"}
Payloads  == [kind : SinkKinds, package : {"own", "system", "other"}, category : {"transient", "other"}]

\* The predicates on the kind alone; CenterSink publishes none of these kinds.
KindNoise(e) == e.kind \in {"device.heartbeat", "device.pair.request", "device.info.update",
                            "device.unpair"}

\* is_own_pkg and is_sys_noise, is_transient_cat.
PackageNoise(e)  == e.kind = "notification.received" /\ e.package \in {"own", "system"}
CategoryNoise(e) == e.kind = "notification.received" /\ e.category = "transient"

ShouldFilter(e) == KindNoise(e) \/ PackageNoise(e) \/ CategoryNoise(e)

\* publish_console, and publish_display behind the filter.
Emit(e) ==
    /\ moves < MaxMoves /\ moves' = moves + 1
    /\ log' = [b \in Buses |->
                  IF \/ b = "console" /\ sub \cap Consoles # {}
                     \/ b = "display" /\ ~ShouldFilter(e) /\ count > 0
                  THEN Append(log[b], SinkEvent) ELSE log[b]]
    /\ UNCHANGED <<stage, count, sub, from, cur, pipeVars, readerVars, online>>

-----------------------------------------------------------------------------
(***************************************************************************)
(* /ws/display.                                                            *)
(***************************************************************************)
Peers == [from : {"loopback", "interface", "elsewhere"}, token : {"missing", "wrong", "right"}]

\* get_local_addrs lists the addresses of the interfaces, or fails.
LocalAddrs == {{"interface"}, {}}

IsSameHost(p, addrs) == p.from = "loopback" \/ p.from \in addrs

\* DisplayAuth::verify, against the token the server has in memory.
Verify(p) == p.token = "right"

\* A query without `token' is refused before the handler runs, also on the same
\* host; any token does there.
Admitted(p, addrs) == p.token # "missing" /\ (IsSameHost(p, addrs) \/ Verify(p))

MayConnect(v) == stage[v] = "new" /\ Cardinality({u \in Viewers : stage[u] # "new"}) < MaxViewers

\* ws_display_upgrade, and the start of handle_display_socket.
Upgrade(v) ==
    /\ MayConnect(v)
    /\ \E p \in Peers, addrs \in LocalAddrs :
           IF Admitted(p, addrs)
           THEN /\ stage' = [stage EXCEPT ![v] = "up"] /\ writer' = writer \cup {v}
                /\ Subscribe(v)
           ELSE /\ stage' = [stage EXCEPT ![v] = "done"]
                /\ UNCHANGED <<sub, from, cur, count, writer>>
    /\ UNCHANGED <<log, hold, queue, writing, seen, readerVars, envVars>>

\* The bridge: recv, then send into the queue, which waits for room; it ends
\* when the writer has gone, and with it the subscription.
BridgeRecv(v) ==
    /\ Recv(v)
    /\ UNCHANGED <<stage, log, count, sub, from, queue, writer, writing, seen, readerVars, envVars>>

\* Mutant: the queue has no bound.
BridgeSendUnbounded(v) ==
    /\ hold[v] # <<>> /\ v \in writer
    /\ queue' = [queue EXCEPT ![v] = @ \o hold[v]]
    /\ hold' = [hold EXCEPT ![v] = <<>>]
    /\ UNCHANGED <<stage, busVars, writer, writing, seen, readerVars, envVars>>

BridgeSend(v) ==
    /\ hold[v] # <<>> /\ v \in writer /\ Len(queue[v]) < QueueCap
    /\ queue' = [queue EXCEPT ![v] = @ \o hold[v]]
    /\ hold' = [hold EXCEPT ![v] = <<>>]
    /\ UNCHANGED <<stage, busVars, writer, writing, seen, readerVars, envVars>>

BridgeEnds(v) ==
    /\ hold[v] # <<>> /\ v \notin writer
    /\ hold' = [hold EXCEPT ![v] = <<>>] /\ DropSub(v)
    /\ UNCHANGED <<stage, log, queue, writer, writing, seen, readerVars, envVars>>

\* The writer: an event at a time; a send that fails ends it.
WriterTake(v) ==
    /\ v \in writer /\ writing[v] = <<>> /\ queue[v] # <<>>
    /\ writing' = [writing EXCEPT ![v] = <<Head(queue[v])>>]
    /\ queue' = [queue EXCEPT ![v] = Tail(@)]
    /\ UNCHANGED <<stage, busVars, hold, writer, seen, readerVars, envVars>>

WriterSent(v) ==
    /\ v \in writer /\ writing[v] # <<>>
    /\ seen' = [seen EXCEPT ![v] = @ \o writing[v]]
    /\ writing' = [writing EXCEPT ![v] = <<>>]
    /\ UNCHANGED <<stage, busVars, hold, queue, writer, readerVars, envVars>>

WriterFails(v) ==
    /\ v \in writer /\ writing[v] # <<>>
    /\ writer' = writer \ {v}
    /\ writing' = [writing EXCEPT ![v] = <<>>] /\ queue' = [queue EXCEPT ![v] = <<>>]
    /\ seen' = [seen EXCEPT ![v] = <<>>]
    /\ UNCHANGED <<stage, busVars, hold, readerVars, envVars>>

-----------------------------------------------------------------------------
(***************************************************************************)
(* The reader and its actions.                                             *)
(***************************************************************************)
\* The client sends a line, at any time; what it says is chosen when it is read.
SendLine(v) ==
    /\ stage[v] = "up" /\ moves < MaxMoves /\ moves' = moves + 1
    /\ lines' = [lines EXCEPT ![v] = Append(@, moves + 1)]
    /\ UNCHANGED <<stage, busVars, pipeVars, act, done, accepted, online>>

At(v, step)   == act[v].at = step
Goto(v, rec)  == act' = [act EXCEPT ![v] = rec]

\* On to publish_action_result; `asked' unless no phone was to be asked.
Finish(v, ok) == Goto(v, [at |-> "result", id |-> act[v].id, ok |-> ok,
                          asked |-> ~At(v, "notification.read")])

\* handle_display_action: parse, then ask the registry, then the kind.
ReadLine(v, a) ==
    /\ stage[v] = "up" /\ At(v, "none") /\ lines[v] # <<>>
    /\ lines' = [lines EXCEPT ![v] = Tail(@)]
    /\ IF a.kind = "garbage" THEN UNCHANGED act
       ELSE Goto(v, [at |-> IF a.dev \notin online THEN "offline" ELSE a.kind,
                     id |-> Head(lines[v]), dev |-> a.dev, complete |-> a.complete])
    /\ UNCHANGED <<stage, busVars, pipeVars, done, accepted, envVars>>

\* The kind is none of the five.
Unknown(v) ==
    /\ At(v, "unknown") /\ Finish(v, FALSE)
    /\ UNCHANGED <<stage, busVars, pipeVars, lines, done, accepted, envVars>>

\* publish_phone_offline; its result is next.
PhoneOffline(v) ==
    /\ At(v, "offline")
    /\ Publish([kind |-> "phone.offline", by |-> v, n |-> act[v].id])
    /\ Finish(v, FALSE)
    /\ UNCHANGED <<stage, count, sub, from, cur, pipeVars, lines, done, accepted, envVars>>

\* Mutant: the phone's refusal is not looked at.
TrySendAnyway(v) ==
    /\ Finish(v, TRUE)
    /\ accepted' \in {accepted, accepted \cup {<<v, act[v].id>>}}

\* registry.try_send: refused if the phone has gone since ReadLine asked for it,
\* or its channel is full or closed. A sender that was cloned before the phone
\* went (at once after ReadLine, at the earliest) may still accept.
TrySend(v) ==
    \/ Finish(v, FALSE) /\ UNCHANGED accepted
    \/ Finish(v, TRUE) /\ accepted' = accepted \cup {<<v, act[v].id>>}

\* do_sms_reply.
SmsReply(v) ==
    /\ At(v, "sms.reply")
    /\ IF act[v].complete THEN TrySend(v) ELSE Finish(v, FALSE) /\ UNCHANGED accepted
    /\ UNCHANGED <<stage, busVars, pipeVars, lines, done, envVars>>

\* do_notification_read: an UPDATE of the row whose id is the envelope's, and
\* rows have the notification's: it changes none, and fails if it is locked out.
NotificationRead(v) ==
    /\ At(v, "notification.read")
    /\ \E ok \in BOOLEAN : Finish(v, ok)
    /\ UNCHANGED <<stage, busVars, pipeVars, lines, done, accepted, envVars>>

\* do_notification_dismiss: the phone is sent the envelope's id, too, and the
\* same UPDATE comes after.
NotificationDismiss(v) ==
    /\ At(v, "notification.dismiss") /\ TrySend(v)
    /\ UNCHANGED <<stage, busVars, pipeVars, lines, done, envVars>>

\* do_call_answer.
CallAnswer(v) ==
    /\ At(v, "call.answer") /\ TrySend(v)
    /\ UNCHANGED <<stage, busVars, pipeVars, lines, done, envVars>>

\* do_call_end.
CallEnd(v) ==
    /\ At(v, "call.end") /\ TrySend(v)
    /\ UNCHANGED <<stage, busVars, pipeVars, lines, done, envVars>>

\* publish_action_result: to every display.
ActionResult(v) ==
    /\ At(v, "result")
    /\ Publish([kind |-> "action.result", by |-> v, n |-> act[v].id, ok |-> act[v].ok])
    /\ done' = [done EXCEPT ![v] = Append(@, [id |-> act[v].id, ok |-> act[v].ok, asked |-> act[v].asked])]
    /\ Goto(v, NoAction)
    /\ UNCHANGED <<stage, count, sub, from, cur, pipeVars, lines, accepted, envVars>>

\* The reader finds the socket closed, or its stream broken, when it is at no
\* action. What it has not read is lost.
ReaderEnds(v) ==
    /\ stage[v] = "up" /\ At(v, "none")
    /\ stage' = [stage EXCEPT ![v] = "ending"]
    /\ lines' = [lines EXCEPT ![v] = <<>>]
    /\ UNCHANGED <<busVars, pipeVars, act, done, accepted, envVars>>

\* writer.abort() and bus_bridge.abort() take effect; until then both go on.
Abort(v) ==
    /\ stage[v] = "ending"
    /\ stage' = [stage EXCEPT ![v] = "done"]
    /\ DropSub(v)
    /\ writer' = writer \ {v}
    /\ hold' = [hold EXCEPT ![v] = <<>>] /\ queue' = [queue EXCEPT ![v] = <<>>]
    /\ writing' = [writing EXCEPT ![v] = <<>>] /\ seen' = [seen EXCEPT ![v] = <<>>]
    /\ UNCHANGED <<log, readerVars, envVars>>

Display(v) ==
    \/ Upgrade(v)
    \/ BridgeRecv(v) \/ BridgeSend(v) \/ BridgeEnds(v)
    \/ WriterTake(v) \/ WriterSent(v) \/ WriterFails(v)
    \/ SendLine(v) \/ (\E a \in Requested : ReadLine(v, a))
    \/ Unknown(v) \/ PhoneOffline(v) \/ SmsReply(v) \/ NotificationRead(v)
    \/ NotificationDismiss(v) \/ CallAnswer(v) \/ CallEnd(v) \/ ActionResult(v)
    \/ ReaderEnds(v) \/ Abort(v)

-----------------------------------------------------------------------------
(***************************************************************************)
(* /ws/console.                                                            *)
(***************************************************************************)
\* ws_console_upgrade: no token. It subscribes before it says hello.
ConsoleUpgrade(v) ==
    /\ MayConnect(v)
    /\ stage' = [stage EXCEPT ![v] = "hello"] /\ Subscribe(v)
    /\ UNCHANGED <<log, pipeVars, readerVars, envVars>>

ConsoleHello(v) ==
    /\ stage[v] = "hello"
    /\ stage' = [stage EXCEPT ![v] = "up"]
    /\ UNCHANGED <<busVars, pipeVars, readerVars, envVars>>

\* The loop receives, and sends before it receives again.
ConsoleRecv(v) ==
    /\ stage[v] = "up" /\ Recv(v)
    /\ UNCHANGED <<stage, log, count, sub, from, queue, writer, writing, seen, readerVars, envVars>>

ConsoleSend(v) ==
    /\ hold[v] # <<>>
    /\ seen' = [seen EXCEPT ![v] = @ \o hold[v]] /\ hold' = [hold EXCEPT ![v] = <<>>]
    /\ UNCHANGED <<stage, busVars, queue, writer, writing, readerVars, envVars>>

\* A send fails, the hello's too, or the client has gone.
ConsoleEnds(v) ==
    /\ stage[v] \in {"hello", "up"}
    /\ stage' = [stage EXCEPT ![v] = "done"] /\ DropSub(v)
    /\ hold' = [hold EXCEPT ![v] = <<>>] /\ seen' = [seen EXCEPT ![v] = <<>>]
    /\ UNCHANGED <<log, queue, writer, writing, readerVars, envVars>>

Console(v) ==
    ConsoleUpgrade(v) \/ ConsoleHello(v) \/ ConsoleRecv(v) \/ ConsoleSend(v) \/ ConsoleEnds(v)

-----------------------------------------------------------------------------
\* A phone registers or leaves the registry (DeviceLink).
Registry ==
    /\ moves < MaxMoves /\ moves' = moves + 1
    /\ \E d \in Devices : online' = IF d \in online THEN online \ {d} ELSE online \cup {d}
    /\ UNCHANGED <<stage, busVars, pipeVars, readerVars>>

Next ==
    \/ \E e \in Emitted : Emit(e)
    \/ \E v \in Displays : Display(v)
    \/ \E v \in Consoles : Console(v)
    \/ Registry

Spec == Init /\ [][Next]_vars

-----------------------------------------------------------------------------
(***************************************************************************)
(* Properties.                                                             *)
(***************************************************************************)
\* Type of every variable.
TypeOK ==
    /\ stage \in [Viewers -> {"new", "hello", "up", "ending", "done"}]
    /\ log \in [Buses -> Seq(Events)] /\ count \in Nat
    /\ sub \subseteq Viewers /\ from \in [Viewers -> Nat] /\ cur \in [Viewers -> Nat]
    /\ hold \in [Viewers -> Seq(Nat)] /\ queue \in [Displays -> Seq(Nat)]
    /\ \A v \in Displays : Len(queue[v]) <= QueueCap
    /\ writer \subseteq Displays /\ writing \in [Displays -> Seq(Nat)]
    /\ seen \in [Viewers -> Seq(Nat)]
    /\ lines \in [Displays -> Seq(Nat)]
    /\ act \in [Displays -> {NoAction}
                   \cup [at : (Kinds \ {"garbage"}) \cup {"offline"}, id : Nat,
                         dev : Devices, complete : BOOLEAN]
                   \cup [at : {"result"}, id : Nat, ok : BOOLEAN, asked : BOOLEAN]]
    /\ done \in [Displays -> Seq([id : Nat, ok : BOOLEAN, asked : BOOLEAN])]
    /\ accepted \subseteq Displays \X Nat
    /\ online \subseteq Devices /\ moves \in Nat

\* The events on their way to a client, those it has seen first.
Way(v) == seen[v] \o (IF v \in Displays THEN writing[v] \o queue[v] ELSE <<>>) \o hold[v]

\* A viewer sees its bus in order and without repetition. While its
\* subscription lives, an event it was owed and will not see is one its bus has
\* overwritten since: the last BusCap events never get lost on the way, however
\* slow the client, whoever else comes and goes (display_ws.rs:145-166 "Slow
\* consumer; we dropped `n` events", display_bus.rs:80-90, ws.rs:113-131).
NoSilentGap ==
    \A v \in Viewers :
        /\ \A i, j \in DOMAIN Way(v) : i < j => Way(v)[i] < Way(v)[j]
        /\ v \in sub /\ (v \in Displays => v \in writer) =>
               \A e \in from[v] .. Last(BusOf(v)) :
                   \/ e >= cur[v]
                   \/ \E i \in DOMAIN Way(v) : Way(v)[i] = e
                   \/ e < Oldest(BusOf(v))
        /\ v \in sub \cap Displays => count > 0

Results(v) == {i \in 1 .. Last("display") :
                  log["display"][i].kind = "action.result" /\ log["display"][i].by = v}

\* The actions of a display that parse are answered in the order they came, each
\* by one result, which is ok just if a phone's channel accepted the envelope
\* (or, for notification.read, if the statement succeeded). "phone.offline" comes
\* before its failed result, and never of an action whose envelope was accepted
\* (display_ws.rs:200-245 "an action.result with ok=false", 501-560).
OneResultPerAction ==
    \A v \in Displays :
        /\ \A m, n \in DOMAIN done[v] : m < n => done[v][m].id < done[v][n].id
        /\ \A n \in DOMAIN done[v] :
               done[v][n].asked => (done[v][n].ok <=> <<v, done[v][n].id>> \in accepted)
        /\ \A i \in Results(v) : LET e == log["display"][i] IN
               /\ \E n \in DOMAIN done[v] : done[v][n].id = e.n /\ done[v][n].ok = e.ok
               /\ \A j \in Results(v) : i < j => e.n < log["display"][j].n
        /\ \A i \in 1 .. Last("display") : LET e == log["display"][i] IN
               e.kind = "phone.offline" /\ e.by = v =>
                   /\ <<v, e.n>> \notin accepted
                   /\ \A j \in Results(v) : log["display"][j].n = e.n => i < j
===============================================================================
