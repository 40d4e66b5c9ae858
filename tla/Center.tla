--------------------------------- MODULE Center ---------------------------------
(***************************************************************************)
(* The message-center's store and everybody who writes to it:              *)
(*   - CenterSink (center_sink.rs), called by one connection handler per   *)
(*     socket of the phone: each DB statement and the publication after it *)
(*     is a step, so two handlers, or a handler and a request, interleave; *)
(*   - Db (pool.rs): devices, notifications, sms_messages, calls, with     *)
(*     foreign keys on and ON DELETE CASCADE;                              *)
(*   - the REST requests (rest.rs) that read or change the store, or send  *)
(*     to the phone, one step per await.                                   *)
(* The phone is as much as they need: its shade of notifications, the      *)
(* coroutines that relay its changes, the client's queue, one live link.   *)
(*                                                                         *)
(* Left out: names, texts and times (and with them touch_device, which     *)
(* writes last_seen only), the column paired, which no code sets, and the  *)
(* audit log, which nothing but its own listing reads.                     *)
(***************************************************************************)
EXTENDS Integers, FiniteSets, Sequences, FiniteSetsExt

CONSTANTS Devices,    \* device ids the phone has, one after the other
          Keys,       \* keys of notifications
          Handlers,   \* connection handlers, each for one link of the phone
          Requests,   \* REST requests
          Ops,        \* bound: what the requests ask
          Sends,      \* bound: the phone's other messages
          MaxMoves,   \* bound: changes of the shade, other messages, requests,
                      \* reinstalls and statements that fail, together
          PackageField, \* what the phone calls the package of a notification: "package"
                      \* in the protocol (docs/protocol-v1.md, the scripts), but
                      \* "package_name" in the app (Payloads.kt)
          StatsCap,   \* rows notifications_stats counts (10000 in the code)
          OutboxCap,  \* capacity of a link's channel (32 in the code)
          None

ASSUME CenterAssumption ==
    /\ PackageField \in {"package", "package_name"}
    /\ MaxMoves \in Nat /\ StatsCap \in Nat /\ OutboxCap \in Nat
    /\ None \notin Devices \cup Keys \cup Handlers

VARIABLES
    phone,     \* the phone: its device id, its hardware id, its link
    shade,     \* the notifications it shows
    relays,    \* changes whose coroutine has not reached the client's queue
    outgoing,  \* the client's queue
    moves,     \* what happened so far of what MaxMoves bounds; ids of messages
    conn,      \* the handlers
    inbox,     \* frames a handler has not read
    outbox,    \* frames for the phone on its link
    registry,  \* DeviceRegistry
    rows,      \* table devices: row id, device id, hardware id
    lastRow,   \* its AUTOINCREMENT
    notes,     \* table notifications, by <<device id, key>>
    sms,       \* table sms_messages
    calls,     \* table calls, the number of rows of each kind
    told,      \* the last event about a notification published on the buses
    req,       \* the requests
    excused,   \* history: keys a change of which was lost, late or overtaken
    gone,      \* history: devices removed that have not said hello since
    raced,     \* history: hellos under two device ids overlapped, or one overtook
               \* a later one
    unowed     \* history: links whose hello failed in the store, or whose phone
               \* was removed since

phoneVars == <<phone, shade, relays, outgoing>>
linkVars  == <<conn, inbox, outbox, registry>>
dbVars    == <<rows, lastRow, notes, sms, calls>>
histVars  == <<excused, gone, raced, unowed>>
vars      == <<phoneVars, linkVars, dbVars, told, req, moves, histVars>>

-----------------------------------------------------------------------------
Shaded   == {"received", "dismissed"}
Others   == {"sms", "sms.list", "sms.result", "call.state", "call.incoming", "call.history", "unpair"}
Messages == [type : Shaded, dev : Devices, key : Keys, hw : {"hw", None}, n : Nat] \cup
            [type : Others \cup {"hello"}, dev : Devices, key : {None}, hw : {"hw", None}, n : Nat]
Msg(t, k, n) == [type |-> t, dev |-> phone.id, key |-> k, hw |-> phone.hw, n |-> n]
NoMsg    == [type |-> "none"]
ASSUME SendsAssumption == Sends \subseteq Others

Stages   == {"new", "idle", "write", "publish", "done"}
Marks    == {"none", "unread", "read"}
Kinds    == {"ringing", "idle", "missed"}
AllOps   == {"mark", "dismiss", "markAll", "sms", "dial", "remove", "stats", "dashboard"}
Slots    == Devices \X Keys

At(stage, holder, found, msg) == [stage |-> stage, holder |-> holder, found |-> found, msg |-> msg]
NoConn == At("new", None, 0, NoMsg)
NewRequest == [op |-> None, dev |-> None, key |-> None, stage |-> "new", todo |-> {},
               got |-> <<>>]

\* An empty store; the first id the phone had may have been an older app's,
\* which sends no hardware id.
Init ==
    /\ \E d \in Devices, hw \in {"hw", None} : phone = [id |-> d, hw |-> hw, link |-> None]
    /\ shade = {} /\ relays = {} /\ outgoing = <<>> /\ moves = 0
    /\ conn = [h \in Handlers |-> NoConn]
    /\ inbox = [h \in Handlers |-> <<>>] /\ outbox = <<>>
    /\ registry = [d \in Devices |-> None]
    /\ rows = {} /\ lastRow = 0 /\ notes = [s \in Slots |-> "none"] /\ sms = {}
    /\ calls = [s \in Devices \X Kinds |-> 0]
    /\ told = [s \in Slots |-> "none"]
    /\ req = [r \in Requests |-> NewRequest]
    /\ excused = {} /\ gone = {} /\ raced = FALSE /\ unowed = {}

-----------------------------------------------------------------------------
(***************************************************************************)
(* The phone.                                                              *)
(***************************************************************************)
Move == moves < MaxMoves /\ moves' = moves + 1

Relay(t, k) == relays' = relays \cup {Msg(t, k, moves + 1)}

\* NotificationRelayService.onNotificationPosted: a new notification, or a new
\* version of one that is there. Each change is sent by a coroutine of its own.
Post(k) ==
    /\ Move /\ shade' = shade \cup {k} /\ Relay("received", k)
    /\ UNCHANGED <<phone, outgoing, linkVars, dbVars, told, req, histVars>>

\* onNotificationRemoved: by the user, or by its app.
Swipe(k) ==
    /\ k \in shade /\ Move /\ shade' = shade \ {k} /\ Relay("dismissed", k)
    /\ UNCHANGED <<phone, outgoing, linkVars, dbVars, told, req, histVars>>

\* BridgeClient.send: the message goes out at once, or waits for a link.
Send(m) ==
    IF phone.link = None
    THEN outgoing' = Append(outgoing, m) /\ UNCHANGED inbox
    ELSE inbox' = [inbox EXCEPT ![phone.link] = Append(@, m)] /\ UNCHANGED outgoing

\* A coroutine hands its message to the client. Two changes of a notification
\* may do so in the wrong order.
Enter(m) ==
    /\ m \in relays
    /\ relays' = relays \ {m} /\ Send([m EXCEPT !.n = 0])
    /\ excused' = IF \E e \in relays : e.key = m.key /\ e.n < m.n
                  THEN excused \cup {m.key} ELSE excused
    /\ UNCHANGED <<phone, shade, moves, conn, outbox, registry, dbVars, told, req, gone, raced, unowed>>

\* SmsReceiver, CallController, and what the phone answers or lists.
Other(t) ==
    /\ Move /\ Send(Msg(t, None, moves + 1))
    /\ UNCHANGED <<phone, shade, relays, conn, outbox, registry, dbVars, told, req, histVars>>

\* BridgeClient connects, says hello and sends what has waited.
Connect(h) ==
    /\ phone.link = None /\ conn[h].stage = "new"
    /\ phone' = [phone EXCEPT !.link = h]
    /\ conn' = [conn EXCEPT ![h].stage = "idle"]
    /\ inbox' = [inbox EXCEPT ![h] = <<Msg("hello", None, 0)>> \o outgoing] /\ outgoing' = <<>>
    /\ UNCHANGED <<shade, relays, moves, outbox, registry, dbVars, told, req, histVars>>

KeysIn(h) == {inbox[h][i].key : i \in DOMAIN inbox[h]} \cup
             (IF conn[h].msg.type \in Shaded THEN {conn[h].msg.key} ELSE {})

\* The link ends. The handler may still read what has reached it, or not.
LinkEnds ==
    /\ phone.link # None
    /\ phone' = [phone EXCEPT !.link = None] /\ outbox' = <<>>
    /\ excused' = excused \cup (KeysIn(phone.link) \ {None})
    /\ UNCHANGED <<shade, relays, outgoing, moves, conn, inbox, registry, dbVars, told, req, gone, raced, unowed>>

\* The app's data is cleared: the keystore goes, and with it the device id; the
\* hardware id stays. An update of the app brings the hardware id.
Reinstall(d) ==
    /\ Move /\ phone.link = None /\ d # phone.id /\ registry[d] = None
    /\ \A h \in Handlers : conn[h].holder # d
    /\ phone' = [id |-> d, hw |-> "hw", link |-> None]
    /\ relays' = {} /\ outgoing' = <<>> /\ excused' = Keys
    /\ UNCHANGED <<shade, linkVars, dbVars, told, req, gone, raced, unowed>>

\* handleIncoming: only a dismissal means anything to the phone; it cancels the
\* notification, whichever version is there by now.
Receive ==
    /\ outbox # <<>> /\ outbox' = Tail(outbox)
    /\ LET m == Head(outbox) IN
       IF m \in shade
       THEN shade' = shade \ {m} /\ Relay("dismissed", m) /\ moves' = moves + 1
       ELSE UNCHANGED <<shade, relays, moves>>
    /\ UNCHANGED <<phone, outgoing, conn, inbox, registry, dbVars, told, req, histVars>>

-----------------------------------------------------------------------------
(***************************************************************************)
(* Db, the statements. Each is one transaction.                            *)
(***************************************************************************)
HasRow(d) == \E row \in rows : row.dev = d
Children(d) == \/ \E k \in Keys : notes[<<d, k>>] # "none"
               \/ \E s \in sms : s.dev = d
               \/ \E c \in Kinds : calls[<<d, c>>] > 0

\* A statement fails when the database stays locked (SQLITE_BUSY).
Busy == Move
Fine == UNCHANGED moves

\* Rows come or go while requests are served: what an answer begun before says
\* is owed nothing, and as its queries change nothing they are followed no more.
Torn == [r \in Requests |-> IF req[r].stage = "reading" THEN NewRequest ELSE req[r]]

\* insert_notification: INSERT OR REPLACE, unread.
InsertNotification(d, k) == notes' = [notes EXCEPT ![<<d, k>>] = "unread"]

\* Mutant: UPDATE ... WHERE id = the phone's key, which no row has.
MarkNoRow(d, k) == notes' = notes

\* mark_notification_read: UPDATE.
MarkRead(d, k) == notes' = [notes EXCEPT ![<<d, k>>] = IF @ = "none" THEN @ ELSE "read"]

\* Mutant: foreign keys are off.
InsertSmsAnyway(d, id, peer) == sms' = sms \cup {[dev |-> d, id |-> id, peer |-> peer]}

\* insert_sms: INSERT OR REPLACE; refused without the row of its device.
InsertSms(d, id, peer) ==
    sms' = IF HasRow(d) THEN sms \cup {[dev |-> d, id |-> id, peer |-> peer]} ELSE sms

\* insert_call: always a new row.
InsertCall(d, c) == calls' = IF HasRow(d) THEN [calls EXCEPT ![<<d, c>>] = @ + 1] ELSE calls

\* remove_device: DELETE, which takes the device's other rows with it.
DeleteDevice(d) ==
    /\ rows' = {row \in rows : row.dev # d}
    /\ notes' = [s \in Slots |-> IF s[1] = d THEN "none" ELSE notes[s]]
    /\ sms' = {s \in sms : s.dev # d}
    /\ calls' = [s \in Devices \X Kinds |-> IF s[1] = d THEN 0 ELSE calls[s]]

\* History: nothing of d is owed to anyone, and no row to links that have begun
\* to say hello.
Forget(d) ==
    /\ gone' = gone \cup {d} /\ excused' = Keys
    /\ unowed' = IF ~HasRow(d) THEN unowed
                 ELSE unowed \cup {h \in Handlers : conn[h].stage = "write" \/ conn[h].holder # None}

\* upsert_device, first pass: the row with this hardware id.
RowOf(m) == IF m.hw = None THEN {} ELSE {row \in rows : row.hw = m.hw}

\* Mutant: the UPDATE does not set the device id.
UpdateDeviceKeepsId(id, m) ==
    LET old == {row \in rows : row.id = id}
        new == {[id |-> row.id, dev |-> row.dev, hw |-> m.hw] : row \in old} IN
    rows' = (rows \ old) \cup new /\ UNCHANGED lastRow

\* Second pass. A row that was found is given the new device id: an error if it
\* has rows of other tables, whose foreign keys do not follow (no ON UPDATE), or
\* if another row has that device id; nothing if the row has gone since.
UpdateDevice(id, m) ==
    LET old == {row \in rows : row.id = id}
        new == {[id |-> row.id, dev |-> m.dev, hw |-> m.hw] : row \in old} IN
    IF \E row \in old : row.dev # m.dev /\ (Children(row.dev) \/ HasRow(m.dev))
    THEN UNCHANGED <<rows, lastRow>>
    ELSE rows' = (rows \ old) \cup new /\ UNCHANGED lastRow

\* Mutant: no ON CONFLICT and no unique index.
InsertDeviceAlways(m) ==
    rows' = rows \cup {[id |-> lastRow + 1, dev |-> m.dev, hw |-> m.hw]} /\ lastRow' = lastRow + 1

\* No row was found: INSERT ... ON CONFLICT(device_id) DO UPDATE, where the
\* hardware id is kept if the message has none.
InsertDevice(m) ==
    IF HasRow(m.dev)
    THEN /\ rows' = {IF row.dev = m.dev /\ m.hw # None THEN [row EXCEPT !.hw = m.hw] ELSE row :
                     row \in rows}
         /\ UNCHANGED lastRow
    ELSE /\ rows' = rows \cup {[id |-> lastRow + 1, dev |-> m.dev, hw |-> m.hw]}
         /\ lastRow' = lastRow + 1

-----------------------------------------------------------------------------
(***************************************************************************)
(* CenterSink, as a handler calls it. A statement's error is logged and    *)
(* the event published all the same.                                       *)
(***************************************************************************)
Reading(h, types) == conn[h].stage = "idle" /\ inbox[h] # <<>> /\ Head(inbox[h]).type \in types

\* The handler takes a frame. What it publishes afterwards is a step of its own
\* where `told' is about it.
Take(h) ==
    /\ inbox' = [inbox EXCEPT ![h] = Tail(@)]
    /\ conn' = IF Head(inbox[h]).type \in Shaded
               THEN [conn EXCEPT ![h] = At("publish", @.holder, 0, Head(inbox[h]))] ELSE conn

\* on_hello: upsert_device's first pass. Of several rows SQLite may find any.
Found(m) == IF RowOf(m) = {} THEN {0} ELSE {row.id : row \in RowOf(m)}

\* A hello under another device id is between the passes, or one of the phone
\* as it is now has been handled before this one.
Overlaps(h, m) ==
    \E g \in Handlers \ {h} : \/ /\ conn[g].stage = "write"
                               /\ conn[g].msg.dev # m.dev
                            \/ /\ conn[g].holder = phone.id
                               /\ phone.id # m.dev

ReadHello(h) ==
    /\ Reading(h, {"hello"})
    /\ LET m == Head(inbox[h]) IN
       /\ \E found \in Found(m) : conn' = [conn EXCEPT ![h] = At("write", @.holder, found, m)]
       /\ raced' = (raced \/ Overlaps(h, m))
    /\ inbox' = [inbox EXCEPT ![h] = Tail(@)]
    /\ UNCHANGED <<phoneVars, moves, outbox, registry, dbVars, told, req, excused, gone, unowed>>

\* ... and its second, touch_device and the buses; then the handler registers
\* its link, whatever came of the statements.
EnterDevice(h) ==
    /\ conn[h].stage = "write"
    /\ \/ /\ IF conn[h].found # 0 THEN UpdateDevice(conn[h].found, conn[h].msg)
                                  ELSE InsertDevice(conn[h].msg)
          /\ gone' = gone \ {row.dev : row \in rows'} /\ Fine /\ UNCHANGED unowed
       \/ Busy /\ unowed' = unowed \cup {h} /\ UNCHANGED <<rows, lastRow, gone>>
    /\ registry' = [registry EXCEPT ![conn[h].msg.dev] = h]
    /\ conn' = [conn EXCEPT ![h] = At("idle", @.msg.dev, 0, NoMsg)]
    /\ UNCHANGED <<phoneVars, inbox, outbox, notes, sms, calls, told, req, excused, raced>>

\* NotificationReceived requires the field `package'. A payload that does not
\* parse is passed over without a word.
Parses(m) == m.type = "received" => PackageField = "package"

\* on_notification, on_notification_dismissed: the statement.
StoreNotification(h) ==
    /\ Reading(h, Shaded)
    /\ LET m == Head(inbox[h]) IN
       IF ~Parses(m)
       THEN /\ inbox' = [inbox EXCEPT ![h] = Tail(@)]
            /\ UNCHANGED <<conn, notes, req, moves, excused>>
       ELSE /\ Take(h)
            /\ \/ /\ m.type = "received" /\ HasRow(m.dev)
                  /\ InsertNotification(m.dev, m.key) /\ req' = Torn
                  /\ Fine /\ UNCHANGED excused
               \/ /\ m.type = "dismissed" /\ MarkRead(m.dev, m.key)
                  /\ Fine /\ UNCHANGED <<excused, req>>
               \/ /\ m.type = "received" /\ ~HasRow(m.dev)
                  /\ Fine /\ excused' = excused \cup {m.key} /\ UNCHANGED <<notes, req>>
               \/ Busy /\ excused' = excused \cup {m.key} /\ UNCHANGED <<notes, req>>
    /\ UNCHANGED <<phoneVars, outbox, registry, rows, lastRow, sms, calls, told, gone, raced, unowed>>

\* on_sms_received, and one entry of on_sms_list_result; on_sms_send_result
\* stores nothing.
StoreSms(h) ==
    /\ Reading(h, {"sms", "sms.list", "sms.result"}) /\ Take(h)
    /\ LET m == Head(inbox[h]) IN
       \/ /\ IF m.type = "sms.result" THEN UNCHANGED <<sms, req>>
             ELSE InsertSms(m.dev, m.n, "p") /\ req' = Torn
          /\ Fine
       \/ Busy /\ UNCHANGED <<sms, req>>
    /\ UNCHANGED <<phoneVars, outbox, registry, rows, lastRow, notes, calls, told, excused,
                   gone, raced, unowed>>

\* on_call_state, on_call_incoming, and one entry of on_call_history.
KindOf(t) == CASE t = "call.incoming" -> "ringing" [] t = "call.state" -> "idle"
               [] t = "call.history" -> "missed"

StoreCall(h) ==
    /\ Reading(h, {"call.state", "call.incoming", "call.history"}) /\ Take(h)
    /\ LET m == Head(inbox[h]) IN
       \/ InsertCall(m.dev, KindOf(m.type)) /\ Fine
       \/ Busy /\ UNCHANGED calls
    /\ UNCHANGED <<phoneVars, outbox, registry, rows, lastRow, notes, sms, told, req, excused,
                   gone, raced, unowed>>

\* on_unpair: the row goes, the link stays registered.
Unpair(h) ==
    /\ Reading(h, {"unpair"}) /\ Take(h)
    /\ LET d == Head(inbox[h]).dev IN
       \/ /\ DeleteDevice(d) /\ Forget(d) /\ Fine
          /\ req' = Torn
       \/ Busy /\ UNCHANGED <<rows, notes, sms, calls, gone, excused, unowed, req>>
    /\ UNCHANGED <<phoneVars, outbox, registry, lastRow, told, raced>>

\* publish_console and publish_display; the handler is free for the next frame.
Publish(h) ==
    /\ conn[h].stage = "publish"
    /\ LET m == conn[h].msg IN
       told' = [told EXCEPT ![<<m.dev, m.key>>] = m.type]
    /\ conn' = [conn EXCEPT ![h] = At("idle", @.holder, 0, NoMsg)]
    /\ UNCHANGED <<phoneVars, moves, inbox, outbox, registry, dbVars, req, histVars>>

\* The handler finds its link closed, at its end or before, and unregisters the
\* device it holds (on_disconnect writes last_seen and the audit log; that a
\* handler may die before it unregisters is DeviceLink's).
Close(h) ==
    /\ conn[h].stage = "idle" /\ phone.link # h
    /\ conn' = [conn EXCEPT ![h] = At("done", None, 0, NoMsg)]
    /\ inbox' = [inbox EXCEPT ![h] = <<>>]
    /\ registry' = IF conn[h].holder = None THEN registry
                   ELSE [registry EXCEPT ![conn[h].holder] = None]
    /\ UNCHANGED <<phoneVars, moves, outbox, dbVars, told, req, histVars>>

Handle(h) ==
    \/ ReadHello(h) \/ EnterDevice(h) \/ StoreNotification(h) \/ StoreSms(h)
    \/ StoreCall(h) \/ Unpair(h) \/ Publish(h) \/ Close(h)

-----------------------------------------------------------------------------
(***************************************************************************)
(* REST requests.                                                          *)
(***************************************************************************)
\* The queries. `d` is a device id, or None for all devices.
Listed(d, marks) == {s \in Slots : (d = None \/ s[1] = d) /\ notes[s] \in marks}
Unread(d)        == Cardinality(Listed(d, {"unread"}))
ByPackage(d)     == Cardinality(Listed(d, {"unread", "read"}))      \* the sum over the packages
SmsOf(d)         == {s \in sms : d = None \/ s.dev = d}

\* Mutant: only received messages are grouped.
ConversationsIn(d) == {s.peer : s \in {t \in SmsOf(d) : t.peer = "p"}}

Conversations(d) == {s.peer : s \in SmsOf(d)}
CallsOf(d, kinds) == MapThenSumSet(LAMBDA s : IF d = None \/ s[1] = d THEN calls[s] ELSE 0,
                                   Devices \X kinds)
Shortest(n, cap) == IF n < cap THEN n ELSE cap

\* A request arrives. Of a device nobody knows it would find nothing (a bound).
Asks(r, op, d) ==
    /\ Move
    /\ req[r].stage = "new" /\ op \in Ops
    /\ d # None => HasRow(d) \/ registry[d] # None

Asked(op, d, stage)    == [op |-> op, dev |-> d, key |-> None, stage |-> stage, todo |-> {}, got |-> <<>>]
To(r, rec)             == req' = [req EXCEPT ![r] = rec]
Answered               == NewRequest

\* mark_notification_read.
MarkOne(r, d, k) ==
    /\ Asks(r, "mark", d) /\ MarkRead(d, k) /\ To(r, Answered)
    /\ UNCHANGED <<phoneVars, linkVars, rows, lastRow, sms, calls, told, histVars>>

\* dismiss_notification: UPDATE ... RETURNING id, 404 if there is none; then
\* the phone is told.
Dismiss(r, d, k) ==
    /\ Asks(r, "dismiss", d) /\ MarkRead(d, k)
    /\ To(r, IF notes[<<d, k>>] = "none" THEN Answered
             ELSE [Asked("dismiss", d, "send") EXCEPT !.key = k])
    /\ UNCHANGED <<phoneVars, linkVars, rows, lastRow, sms, calls, told, histVars>>

\* mark_all_notifications_read: the unread ones are listed ...
ListUnread(r, d) ==
    /\ Asks(r, "markAll", d)
    /\ To(r, [Asked("markAll", d, "marking") EXCEPT !.todo = Listed(d, {"unread"})])
    /\ UNCHANGED <<phoneVars, linkVars, dbVars, told, histVars>>

\* ... and marked one by one.
MarkListed(r) ==
    /\ req[r].stage = "marking"
    /\ IF req[r].todo = {}
       THEN To(r, Answered) /\ UNCHANGED notes
       ELSE \E s \in req[r].todo : MarkRead(s[1], s[2]) /\ To(r, [req[r] EXCEPT !.todo = @ \ {s}])
    /\ UNCHANGED <<phoneVars, moves, linkVars, rows, lastRow, sms, calls, told, histVars>>

\* send_sms: 409 unless the device is connected.
SendSms(r, d) ==
    /\ Asks(r, "sms", d)
    /\ To(r, IF registry[d] = None THEN Answered ELSE Asked("sms", d, "send"))
    /\ UNCHANGED <<phoneVars, linkVars, dbVars, told, histVars>>

\* dial: the same, and nothing is kept of it but a line of the audit log.
Dial(r, d) ==
    /\ Asks(r, "dial", d)
    /\ To(r, IF registry[d] = None THEN Answered ELSE Asked("dial", d, "send"))
    /\ UNCHANGED <<phoneVars, linkVars, dbVars, told, histVars>>

\* registry.try_send. A full channel, or one whose writer is gone, refuses: 503,
\* or "broadcast": false for a dismissal. What is sent on a dead link is lost.
TrySend(r) ==
    /\ req[r].stage = "send"
    /\ LET h == registry[req[r].dev]
           sent == To(r, IF req[r].op = "sms" THEN [req[r] EXCEPT !.stage = "record"] ELSE Answered) IN
       \/ /\ h = None \/ h # phone.link \/ Len(outbox) >= OutboxCap
          /\ To(r, Answered) /\ UNCHANGED outbox
       \/ /\ h # None /\ h = phone.link /\ Len(outbox) < OutboxCap
          /\ outbox' = Append(outbox, req[r].key) /\ sent
       \/ h # None /\ h # phone.link /\ UNCHANGED outbox /\ sent
    /\ UNCHANGED <<phoneVars, moves, conn, inbox, registry, dbVars, told, histVars>>

\* send_sms keeps the message it has sent; an error is not looked at.
RecordSms(r) ==
    /\ req[r].stage = "record"
    /\ InsertSms(req[r].dev, r, "q")
    /\ req' = [Torn EXCEPT ![r] = Answered]
    /\ UNCHANGED <<phoneVars, moves, linkVars, rows, lastRow, notes, calls, told, histVars>>

\* remove_device: the registry first; the link itself goes on.
Unregister(r, d) ==
    /\ Asks(r, "remove", d)
    /\ registry' = [registry EXCEPT ![d] = None] /\ To(r, Asked("remove", d, "delete"))
    /\ UNCHANGED <<phoneVars, conn, inbox, outbox, dbVars, told, histVars>>

Delete(r) ==
    /\ req[r].stage = "delete"
    /\ DeleteDevice(req[r].dev) /\ Forget(req[r].dev)
    /\ req' = [Torn EXCEPT ![r] = Answered]
    /\ UNCHANGED <<phoneVars, moves, linkVars, lastRow, told, raced>>

\* What notifications_stats and dashboard read, one query after the other. No
\* query fails here (one of notifications_stats that fails would count as 0).
Stats(d) == <<Shortest(Cardinality(Listed(d, {"unread", "read"})), StatsCap), Unread(d), ByPackage(d)>>

Dashboard(d) ==
    <<Cardinality(Listed(d, {"unread", "read"})), Unread(d),
      Cardinality(SmsOf(d)), Cardinality(Conversations(d)),
      <<CallsOf(d, Kinds), CallsOf(d, {"missed"}), CallsOf(d, {"ringing"})>>>>

Queries(op, d) == IF op = "stats" THEN Stats(d) ELSE Dashboard(d)

FirstQuery(r, op, d) ==
    /\ op \in {"stats", "dashboard"} /\ Asks(r, op, d)
    /\ \A q \in Requests : req[q].stage # "reading"     \* a bound: readers do not disturb readers
    /\ \E c \in Devices : Children(c)                   \* a bound: of an empty store all numbers are 0
    /\ To(r, [Asked(op, d, "reading") EXCEPT !.got = <<Queries(op, d)[1]>>])
    /\ UNCHANGED <<phoneVars, linkVars, dbVars, told, histVars>>

\* The answer goes out with the last query.
NextQuery(r) ==
    /\ req[r].stage = "reading"
    /\ LET all == Queries(req[r].op, req[r].dev)
           n == Len(req[r].got) + 1 IN
       To(r, IF n = Len(all) THEN Answered ELSE [req[r] EXCEPT !.got = Append(@, all[n])])
    /\ UNCHANGED <<phoneVars, moves, linkVars, dbVars, told, histVars>>

Ask(r, d) ==
    \/ \E k \in Keys : d # None /\ (MarkOne(r, d, k) \/ Dismiss(r, d, k))
    \/ ListUnread(r, d)
    \/ d # None /\ (Unregister(r, d) \/ SendSms(r, d) \/ Dial(r, d))
    \/ \E op \in AllOps : FirstQuery(r, op, d)

Serve(r) == MarkListed(r) \/ TrySend(r) \/ RecordSms(r) \/ Delete(r) \/ NextQuery(r)

Next ==
    \/ \E k \in Keys : Post(k) \/ Swipe(k)
    \/ \E m \in relays : Enter(m)
    \/ \E t \in Sends : Other(t)
    \/ \E h \in Handlers : Connect(h) \/ Handle(h)
    \/ Receive \/ LinkEnds
    \/ \E d \in Devices : Reinstall(d)
    \/ \E r \in Requests : Serve(r) \/ \E d \in Devices \cup {None} : Ask(r, d)

Spec == Init /\ [][Next]_vars

-----------------------------------------------------------------------------
(***************************************************************************)
(* Properties.                                                             *)
(***************************************************************************)
\* Type of every variable; row ids and device ids are unique in devices.
TypeOK ==
    /\ phone \in [id : Devices, hw : {"hw", None}, link : Handlers \cup {None}]
    /\ shade \subseteq Keys /\ relays \subseteq Messages
    /\ outgoing \in Seq(Messages) /\ inbox \in [Handlers -> Seq(Messages)]
    /\ outbox \in Seq(Keys \cup {None}) /\ Len(outbox) <= OutboxCap
    /\ conn \in [Handlers -> [stage : Stages, holder : Devices \cup {None}, found : Nat,
                              msg : Messages \cup {NoMsg}]]
    /\ \A h \in Handlers : conn[h].found <= lastRow
    /\ registry \in [Devices -> Handlers \cup {None}]
    /\ rows \subseteq [id : 1 .. lastRow, dev : Devices, hw : {"hw", None}] /\ lastRow \in Nat
    /\ \A a, b \in rows : a.id = b.id \/ a.dev = b.dev => a = b
    /\ notes \in [Slots -> Marks] /\ told \in [Slots -> Shaded \cup {"none"}]
    /\ \A s \in sms : s.dev \in Devices
    /\ calls \in [Devices \X Kinds -> Nat]
    /\ \A r \in Requests : req[r].todo \subseteq Slots
    /\ excused \subseteq Keys /\ gone \subseteq Devices /\ unowed \subseteq Handlers
    /\ raced \in BOOLEAN /\ moves \in Nat

\* A row of a phone that has a hardware id, and rows of other tables hang on it:
\* its device id cannot be changed any more.
Stuck == \E row \in rows : row.hw # None /\ Children(row.dev)

\* What upsert_device does achieve (pool.rs:97-160), whatever hellos, frames and
\* removals do between its passes: a phone that keeps its hardware id has one row
\* at most, and a link of the phone as it is now, once its hello has been handled,
\* finds a row under the phone's present device id, or else the row that the
\* foreign keys hold under an older one. It is not said of hellos under two
\* device ids that overlap (the row is found in one statement and written in
\* another), of a failed statement, or of a phone removed meanwhile.
OneRowPerPhone ==
    ~raced =>
        /\ \A a, b \in rows : a.hw # None /\ a.hw = b.hw => a = b
        /\ \A h \in Handlers \ unowed :
               conn[h].holder = phone.id => HasRow(phone.id) \/ Stuck

\* "With the new `hardware_id` column in place, the daemon will now dedupe
\* reconnects correctly" (20260606090001_prune_duplicate_devices.sql), and "we
\* overwrite `device_id` with the freshly-minted UUID so all FK references in
\* notifications / sms_messages / calls / pairings stay consistent"
\* (pool.rs:107-111): the same without exceptions. The code does not do so.
ReconnectsDeduped ==
    /\ \A a, b \in rows : a.hw # None /\ a.hw = b.hw => a = b
    /\ \A h \in Handlers \ unowed : conn[h].holder = phone.id => HasRow(phone.id)

\* Of a device that was removed, or unpaired itself, nothing comes back before
\* its next hello, whatever its link or a request is still about to store
\* (pool.rs remove_device, ON DELETE CASCADE; rest.rs send_sms).
RemovedStaysGone == \A d \in gone : ~HasRow(d) /\ ~Children(d)

Settled ==
    /\ relays = {} /\ outgoing = <<>> /\ phone.link # None /\ outbox = <<>>
    /\ \A h \in Handlers : inbox[h] = <<>> /\ conn[h].stage \in {"new", "idle", "done"}
    /\ \A r \in Requests : req[r].stage = "new"

\* "Persist a `notification.received` envelope." (ws_handler.rs:276): once nothing
\* is on its way, what is in the phone's shade is in the table, and the last the
\* viewers were told of it is that it came; unless a change of it was lost, came
\* over two links or left the phone out of order.
NotificationsArrive ==
    Settled => \A k \in shade \ excused :
        notes[<<phone.id, k>>] # "none" /\ told[<<phone.id, k>>] = "received"

\* Of what does not parse nothing is ever kept or announced.
NothingArrives == \A s \in Slots : notes[s] = "none" /\ told[s] # "received"

\* ... and what the desktop has as unread is in the shade
\* (center_sink.rs:129-179, NotificationRelayService.kt:108,136): so it is with a
\* phone that speaks the protocol; with the app as it is the desktop stays empty.
MirrorSettles ==
    /\ IF PackageField = "package" THEN NotificationsArrive ELSE NothingArrives
    /\ Settled => \A k \in Keys \ excused : notes[<<phone.id, k>>] = "unread" => k \in shade

\* The numbers of one answer agree with each other although each comes from a
\* query of its own: unless rows came or went during the request, or there are
\* more than notifications_stats counts (rest.rs:850-885, 1351-1408).
NumbersAgree ==
    \A r \in Requests : LET got == req[r].got IN
        req[r].stage = "reading" =>
            /\ Len(got) >= 2 => got[2] <= got[1] \/ got[1] = StatsCap
            /\ Len(got) >= 4 => got[4] <= got[3] /\ (got[4] = 0 <=> got[3] = 0)
===============================================================================
