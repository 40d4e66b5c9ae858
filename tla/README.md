# MessageHub / PhoneBridge: TLA+ models

MessageHub is a desktop server (`message-center`, Rust) that phones (Android,
Kotlin) connect to over a WebSocket. Phones push notifications, SMS and calls;
the desktop stores them, shows them on a web console and on desk displays, and
sends commands back. This directory holds TLA+ models of the parts where
several tasks or two machines act on shared state, TLC runs that check them on
small instances, and TLAPS proofs of their main safety properties.

Sources are named relative to the repository root.

## 1. Inventory

| Part | State | Operations | Interacts with | Hard behaviour |
|---|---|---|---|---|
| Connection handler, `crates/phonebridge-net/src/ws_handler.rs` | per connection: reader task, writer task, `mpsc` channel of 32, `device_id_holder` | accept, hello, frames, reply, Close, read error, cleanup | registry, pairing map, sink, bus | two tasks per connection, blocking on its own channel, cleanup order, overlapping connections of one phone |
| `DeviceRegistry`, `registry.rs` | device id -> sending half | register, unregister, `try_send` | handlers, every REST command | the sender is used after the lock is released |
| Pairing on the desktop, `ws_handler.rs`, `pairing.rs`, `message-center/src/rest.rs` | `PairingMap`, `PendingIncomingMap` (memory only) | hello, `pair.*` envelopes, `pair/start`, `pair/incoming-accept`, `-reject`, device removal | handler, registry, phone | take / put-back windows, late and repeated envelopes, restart |
| `PairingMachine.kt` | one of six states, code and expiry | request, confirm, complete, reject, the user's buttons | `BridgeService`, UI | envelopes of older attempts, expiry on two clocks |
| `BridgeClient.kt`, `HeartbeatController.kt`, `BridgeService.kt` | loop job, `running`, outgoing Channel, missed beats | start, stop, forceReconnect, shutdown, send | all phone relays, stored settings | cancelled loops that run on, start racing forceReconnect, backoff |
| Relays, `NotificationRelayService.kt`, `SmsReceiver.kt`, `CallController.kt` | the phone's shade; coroutines on their way to the client | posted, removed, received | `BridgeClient`, dismissals from the desktop | one coroutine per change: changes overtake each other |
| Sink and storage, `center_sink.rs`, `phonebridge-storage/src/pool.rs` | SQLite: devices, notifications, SMS, calls, audit | upsert, insert, read, dismiss, remove | handler, REST, buses | read-then-write upserts, foreign keys, statements that fail, removal while links store |
| REST, `message-center/src/rest.rs` | none of its own | list, mark, dismiss, send, dial, remove, stats, dashboard | storage, registry, pairing | several awaits per request, no transaction around them |
| Live feeds, `console_bus.rs`, `display_bus.rs`, `ws.rs`, `display_ws.rs`, `noise_filter.rs` | broadcast rings, a subscriber count, a queue of 64 per display | publish, subscribe, lag, actions | sink, registry, displays, consoles | slow and broken clients, actions racing the phone's disconnection |
| Display token, `display_auth.rs` | token file, token in memory | load, generate, rotate, revoke, check | command line, display WebSocket | rotation by another process, two writers |
| Start-up, `main.rs`, `identity.rs`, `cert_loader.rs`, `mdns_service.rs` | files of the data directory, the mDNS handle | load or generate each file, advertise, bind | everything that has pinned the certificate | a crash between two writes, two servers started at once |
| DeskDisplay, `DeskDisplay/src` | configuration, backoff, toasts and their map, clicks, prompt | connect, present, act, close | display WebSocket, notification service | signals of two tasks racing `notify`, a prompt that blocks the clicks |
| Crypto, protocol types, in-process bus, UI | - | - | - | none that a state machine shows |

What makes each part correct:

* handler and registry: an envelope reaches the phone it is for, once; nothing
  waits for ever; after cleanup nothing leads to a dead channel; in sum, one
  bounded FIFO per connection (`Outbox`);
* pairing: nobody is paired without the user's consent; one click, one
  certificate; both sides agree in the end; a finished pairing is not undone by
  late traffic; an accepted pairing completes;
* client: a phone with network and settings is eventually connected;
* storage: one row per phone; nothing of a removed phone comes back; when
  nothing is under way, the unread notifications are those in the shade;
* feeds: a viewer that keeps up misses nothing and sees events in order; every
  action has one result, and it is the truth;
* start-up: whatever dies in between, phones know the server again and the next
  start succeeds;
* DeskDisplay: it reaches its daemon again after any failure; a click acts on
  the event whose toast it was made on.

## 2. Plan

All items of the plan are built, in this order:

1. `DeviceLink`: handler, registry, `try_send` (runs `link`, `link_live`;
   proofs in `DeviceLinkProofs`).
2. `Pairing`: both sides of pairing over a connection that drops (runs
   `pairing`, `pairing_live`, `pairing_incoming`; proofs in `PairingProofs`).
3. `PhoneClient`: `BridgeClient`, `HeartbeatController` and the life of
   `BridgeService` (runs `phone_client`, `client_forced`; proofs in
   `PhoneClientProofs`).
4. `Center`: the phone's relays, the handlers' calls of the sink, the tables and
   the REST requests over them (runs `center`, `center_notify`; proofs in
   `CenterProofs`).
5. `Viewers`: broadcast with lag, console and display feeds, display actions,
   the noise filter (run `viewers`; proofs in `ViewersProofs`).
6. `Outbox`, an abstract FIFO per connection, which `DeviceLink` implements
   (property `ImplementsOutbox` of run `link`; proof in `OutboxProofs`).
7. `Startup`: the files of the data directory over several starts, with the
   display token (run `startup`; proofs in `StartupProofs`).
8. `Desk`: DeskDisplay (run `desk`; proofs in `DeskProofs`).

Every invariant and every action property that a run checks, and the refinement,
is also proved for all values of the constants. What could be added: a
composition of `Center` and `Viewers`, in which a viewer that lags behind its
bus finds in the store what it missed.

## 3. Modules

### DeviceLink

One reader and one writer per connection. `conn[c]` is where the handler
`handle_axum_connection` is (`handle_connection` is the same code over a raw
stream): `open` at the head of the loop, `hello` while `on_hello` is awaited,
`replying` while `out_tx.send(reply)` is awaited, `leaving`, `disconnecting`,
`awaiting` in the cleanup, `done`, and `failed` when `frame?` returned.
`outbox[c]` is the channel; it is closed for senders when `writer[c]` has ended
and for the writer when `HasSender(c)` no longer holds, which counts the
reader's own sender, the registry's and the clones requests hold. A REST
request is two steps (`Lookup`, `TrySend`), as the lock is released in between.
`sock[c]` is what the phone and the network have done: a closed socket yields a
Close frame after the frames before it, a lost one a read error at any time or
never. Frames are reduced to a hello and a frame that is answered; frames that
are not answered change nothing here.

### Pairing

One phone and the desktop. `session` and `pending` are the phone's entries in
the two maps. `taken[h]` is what the handler `h` holds between taking a session
and inserting the next one; `starting` are the `pair_start` handlers between
`try_send` and `insert`. After a disconnection the old handler (`"old"`) may
still work off frames it has received, next to the new one (`"cur"`); more than
two at a time are not modelled. `registered` distinguishes an entry of the
present connection from one of a dead connection. `up["cur"]` includes the
phone's outgoing Channel, which survives a disconnection: what had been taken
from it is lost or with the old handler, the rest goes out after reconnecting,
before the new hello. A phone's process may be killed at any time
(`PhoneRestarts`), connected or not. `OnHello` may send a second hello, as the phone's status
observer does when the desktop's name changes. The code's capacity limits on
the outgoing Channel are left out.

Every message carries the number of the attempt it stems from. No guard reads
it: the code correlates nothing, and the number only lets properties say which
attempt a click was for. Keys, codes and certificates are abstracted; whether
the desktop's clock finds a challenge expired is a free choice.
`pair/accept` and `pair/reject` are absent because they can only answer 409:
`PairingMap::get` copies every unpaired session as a Responder, and both look
for an Initiator.

### PhoneClient

The loops of `BridgeClient` by number, each with its place in `runLoop`
(`at[j]`) and whether its Job has been cancelled. Cancellation in Kotlin is
cooperative: it makes the next suspension throw, and `runLoop` catches every
`Throwable` around `runOnce`. A cancelled loop therefore goes on through
`caught` to the backoff, whose `delay` is outside the `try` and ends it, and
until then it publishes statuses next to the loop that follows it.

`start` and `forceReconnect` are two steps each, because they change `running`
and the job one after the other on different threads: the settings' collector
in `BridgeService` (`Start`, `Launch`) and the heartbeat (`ForceReconnect`,
`Rearm`). `stop`, the Disconnect button of `FloatingConsoleService`, runs on the
main thread like `start` and is one step (`Stop`). `offered` is the value of the
stored settings that the collector has yet to handle; DataStore emits again
after any setting changes, so that a change of the theme restarts a client whose
`running` was cleared (`OtherSetting`).

`hb` follows `HeartbeatController.runLoop`. A beat that is queued is never
answered with its own id, since the desktop's `dispatch` makes a new envelope,
and so it always times out; a beat that finds the Channel full is a miss as
well. `EchoTimesOut` may happen with the connection up or down, because
`sendOne` does not look at the status. The waits for a connection and the
30-second interval after it are one wait.

`Destroy` is `onDestroy`, which cancels the scope of the singleton; it waits for
a `forceReconnect` under way, whose two halves are adjacent statements: the
second would only repeat what `shutdown` does to `running`. `Kill` starts a new
process; `Create` is its service, whether Android (START_STICKY), `BootReceiver` or the
user starts it. The values of delays are abstracted, and of the settings only
the desktop is kept; the pinned fingerprint is left out.

### Outbox

What `DeviceLink` promises: per connection a queue of at most `Cap` envelopes
that begins with the hello, is appended to and delivered in order, and ends with
the connection; an envelope of a request is accepted at most once.
`DeviceLink!ImplementsOutbox` instantiates it with this mapping: `phase` is
whether the socket is not yet, now, or no longer up; `queue` is the channel
while the socket is up and empty after; `got` is what was delivered; `taken` are
the requests `try_send` answered with Ok. `AcceptTooLate` is what the code does
and one would not expect: a request can be accepted by a channel whose socket is
gone, since Ok only means queued. Registry, cloned senders and the tasks have no
counterpart; that is the point.

### Center

The store and everybody who writes to it. The phone has a shade of
notifications; each change of it is carried by a coroutine of its own (`relays`),
so that changes reach the client's queue in any order. `conn[h]` is the handler
of one link, between two awaits: a statement and the publication after it are
two steps (`told` is what the buses were told last), and `EnterDevice` is the
second pass of `upsert_device`, with what the first pass found in `found`.
`rows` are devices with their AUTOINCREMENT id; `notes`, `sms` and `calls` refer
to a device by id, and a statement for a device without a row fails on the
foreign key, as it may when the database stays locked (`Busy`). Publications
follow whether or not the statement succeeded.

Requests are one step per await: `mark`, `dismiss`, `mark_all` (list, then mark
one by one), removal (registry, then rows), `send_sms` (check, `try_send`, row),
`dial`, stats and dashboard (query by query; an answer during which rows come
or go is owed nothing and followed no further). `Reinstall` is the phone coming
back with another device id and the same hardware id. `raced` and `unowed` are
the hellos `OneRowPerPhone` is not about: those of two device ids that overlap,
and those the store refused or a removal made void. `excused` are the keys a
change of which was lost, came over two links or left the phone out of order:
for these the code promises nothing.

What was met on the way, beyond the runs: after a reinstall (or `pm clear`) the
UPDATE of `device_id` fails on the foreign key if the row has children (the
comment at `pool.rs:107-111` expects the opposite), `on_hello` only logs it, and
all the phone then sends fails on the foreign key although the events are
published; `OneRowPerPhone` names this case (`Stuck`), `ReconnectsDeduped` states
what the comment and the migration promise and fails, and theorem
`HeldRowKeepsItsId` says that a held row never takes the new id; `paired` is never set, so the dashboard's `paired_devices` is 0; a hello that
races a removal leaves a connected phone without a row; the phone handles neither
`sms.send.request` nor `call.dial` although REST answers 202, and nothing is
persisted by `on_sms_send_result` although `rest.rs:1185` says so; counts made
from failed queries are 0; `mark_all` marks a notification that was re-posted
after the listing.

### Viewers

Two rings (`log`, of which `BusCap` events are left to receive), each subscriber
with its own position `cur`. A display is a bridge (`hold`), a bounded queue and
a writer (`writing`), beside a reader that works off actions one at a time
(`act`: look-up, `try_send`, perhaps `phone.offline`, result); a console is one
loop. `Emit` is the sink's publication, behind the noise filter for displays.
A client may stop reading or break at any point; a broken one ends its writer
and leaves its reader running, as in the code. When the reader ends, the bridge
and the writer go on until their abortion takes effect (`ReaderEnds`, `Abort`).
An upgrade without a token is refused even from the same host, because the query
does not parse (`Admitted`). `TrySend` holds a sender that was cloned while the
phone was registered, and so may still succeed after the phone has left.
`MaxViewers` bounds how many connections a behaviour has.

Met on the way: a display names a notification by the envelope's id while rows
and phone know it by its key, though `display_ws.rs:354` says they are the same,
so that read and dismiss from a display change nothing and are reported ok; a
result goes to all displays; the indicator for missed events that
`display_ws.rs:154-157` speaks of does not exist; `KindNoise` never applies to
what the sink publishes.

### Startup

Processes of the server's binary, servers or token commands, over one data
directory. `stage[p]` is where `main()` is; `std::fs::write` is two steps, since
opening truncates, and a process may die between any two. Contents are reduced
to the number of the start that generated them, so that two files hold halves of
one pair iff they hold one number. The bind address is the
configuration's or `--bind`'s, and moves from 8443 to 8080 under `--no-tls` only
where nobody said it (`Port`); of all the addresses one can give, `--bind` has
the default one and the configuration another. `collided` says that a process
started while another was starting: the code has no lock, and for these the properties are
not claimed.

Met on the way: the mDNS handle is dropped at once (`DropMdns`, against
`main.rs:191`); mDNS and `/cert` show the fingerprint of `device_cert.pem` while
TLS serves `daemon.cert.pem`; a running server never learns of a rotation
(against `main.rs:58-60`); a death between truncation and write of the device id
on the very first start wedges all later ones; a missing key makes the server
overwrite the operator's certificate.

### Desk

`setup` is what the configuration files hold, every branch of `load_from` and
`ws_url`; `proc` is where `main` and the client's loop are. A toast is presented
in two steps, `notify` and the entry into `map`; clicks and closings are queues
(`invoked`, `closed`) consumed by two tasks, which begin to listen some time
after the start. A reply waits in `prompt`, and with it the task that consumes
the clicks. `MockPresent` is the mock backend's translation, which the tests
trust as the reference for the real one. `pending` is the table of buttons of
the Windows backend.

Met on the way: `main.rs:110` binds a sink of its own and no backend's
(`bound` never holds "backend"), so that no button has an effect, against
`client.rs:13-15` ("Send the local action-sink channel to the backend so the
D-Bus signal handler (or its macOS / Windows equivalent) can enqueue outgoing
`DisplayAction`s"); a cancelled zenity is followed by kdialog; a session that
ends cleanly is followed by the next without any delay.

### Proof modules

`DeviceLinkProofs`, `OutboxProofs`, `PairingProofs`, `PhoneClientProofs`,
`CenterProofs`, `ViewersProofs`, `StartupProofs` and `DeskProofs`, see
section 6. `MCDeviceLink`, `MCCenter`, `MCViewers`,
`MCStartup` and `MCDesk` add symmetry sets and bounds for TLC; `Pairing` and
`PhoneClient` are checked directly.

## 4. Runs

| Run | Bounds | Shows |
|---|---|---|
| `link` | 2 phones, 2 connections, 1 request, channel of 2, 2 frames per connection | `TypeOK`, `RoutedToOwner`, `AcceptedExactlyOnce`, `HelloFirst`, `CleanExitForgets` hold, and `ImplementsOutbox` |
| `link_live` | 1 phone, 2 connections, 1 request, channel of 1, 1 frame | `HandlerReturns`, `BlockedReaderResumes`, `AcceptedIsDelivered` hold under fairness |
| `pairing` | 2 `pair_start`, 1 fault | `TypeOK`, `ConsentBeforePaired`, `OneCompletePerClick`, `PairedIsStable` hold |
| `pairing_live` | 1 `pair_start`, 1 pairing started on the phone, 1 fault | `ConsentBeforePaired`, `CalmAgreement`, `AcceptCompletes` hold under fairness |
| `pairing_incoming` | 1 phone-initiated pairing, no faults | violated: after Accept on the desktop the phone stays Confirming and the desktop never has a paired session |
| `phone_client` | 1 desktop, 2 loops per process, Channel of 1, limit of 2 misses, 2 acts of the user, 1 fault | `TypeOK`, `OneLiveLoop`, `NeverWedged` hold, `LoopRetries`, `CancelledLoopEnds` hold under fairness |
| `client_forced` | 1 desktop, limit of 3 misses, nobody touches the settings, no faults | violated: after a forced reconnection the phone stays offline |
| `center` | 2 device ids, 1 key, 2 handlers, 2 requests, 3 moves (changes of the shade, other messages, requests, reinstalls, failed statements), channel of 1, stats count to 1 | `TypeOK`, `OneRowPerPhone`, `RemovedStaysGone`, `MirrorSettles`, `NumbersAgree` hold |
| `center_notify` | the same with 1 move, the field named as the app names it | violated: a posted notification is neither stored nor published |
| `viewers` | 2 displays and 1 console of which any 2 connect, 1 phone, rings of 1, queue of 1, 2 moves (events, actions, comings and goings of the phone) | `TypeOK`, `NoSilentGap`, `OneResultPerAction` hold |
| `startup` | 2 processes at a time, 3 starts (2 if they overlap), 1 crash, each command, flag and configuration | `TypeOK`, `IdentityKept`, `StaysStartable`, `TokenInStep` hold |
| `desk` | one event of each kind and one pair, 2 clicks, 1 ended session, 2 failures, delays 2..3 | `TypeOK`, `DialsDaemon`, `BackoffShape`, `ActionMatchesToast`, `InClickOrder`, `StaleEntriesExplained` hold, `Reconnects` holds under fairness |

Six more properties are defined in the modules and fail, each at a place listed
under "hazards" in `PROJECT.json`. They are kept as statements of what the code
does not do:

* `DeviceLink!RemovedWhenClosed`: a read error returns through `frame?`
  (`ws_handler.rs:624`) and leaves the registry entry behind;
* `DeviceLink!LiveEntryStays`: the cleanup of an old connection
  (`ws_handler.rs:708`) removes the entry of a phone that has reconnected;
* `Pairing!ChallengeFindsInitiator`: `pair_start` sends before it inserts the
  Initiator (`rest.rs:351`);
* `Pairing!ConfirmedInThisAttempt`: a click on the first code confirms the second
  attempt (`ws_handler.rs:813`);
* `PhoneClient!SavedIsDialed`: a desktop saved while the client runs is not
  dialled (`BridgeClient.kt:126`);
* `Center!ReconnectsDeduped`: a phone that reconnects has one row, under the
  device id it says now (`pool.rs:107-111` and the migration
  `20260606090001_prune_duplicate_devices.sql`). A reinstall violates it as soon
  as a notification, message or call hangs on the old id, and so do two hellos
  that overlap under two ids (`pool.rs:97`).

Why the bounds are enough for the cases that matter. Two connections are what
an overlap of old and new needs, two phones what misrouting needs; a channel of
one is full after the hello, so that a reader blocks, one of two is full with
the hello and one more envelope and still lets a reply and a request compete;
two frames let a phone say hello and then be answered, or say hello twice. In
`Pairing`, two starts give the overlapping attempts, and one fault puts a drop,
restart or removal at every point of an attempt. Larger combinations (two
starts, one phone-initiated pairing and a fault) exceed what can be enumerated
in minutes and are covered by the proofs for the properties proved.
In `PhoneClient`, two loops are an old one and its
successor, and all races are between those two; two acts of the user give a
Disconnect and a later change of the settings; a Channel of one is full or
empty. Two misses instead of three in `phone_client` keep it small; the
theorems hold for any number. In `client_forced` a second loop could be launched
(`MaxLoops` is 2), so it is not the bound that keeps the phone offline.

In `Center`, two device ids are a phone before and after a reinstall, two
handlers an old and a new link, two requests a removal and what races it; three
moves are a notification that is posted, a change of it and a request (or
a failing statement), which is what the counterexamples of the mutants and of the
history variables need. One key is enough because no statement relates two keys;
the theorems hold for any number of everything. In `Viewers`, rings and queue of
one overflow at the second event, and two moves give two events for a slow
display, or an action and the phone's departure. Two connections at a time are two
displays that act beside each other or a display beside a console; with all
three connected TLC found no error either, in four times the time. In `Startup`, three starts
are a first server, one that dies, and the next that must start; overlapping
starts are limited to two. In `Desk`, two events are two toasts whose buttons
and numbers can be mixed up, two clicks an order; delays 2..3 are one doubling
and the cap.

Symmetry over interchangeable values is used in `link`, `center`, `viewers` and
`startup`. In `link` the values are the members of sets the refined
specification treats alike as well, and neither specification states fairness;
the other three have no temporal property. Deadlock is not checked: all phones may be
gone and all bounds used up, and the system then rests.

## 5. Fairness

* `DeviceLink`: the tokio runtime schedules every ready task, so readers,
  writers and requests that hold a sender are weakly fair. A write on a live
  socket is taken to finish. Phones, users and the network are free; a read
  error on a lost socket is not promised, since a half-open connection is
  silent.
* `Pairing`: dispatch of received envelopes, the phone's handling of received
  envelopes and the second half of `pair_start` are weakly fair. Users, the
  expiry, faults and reconnection are free.

* `PhoneClient`: coroutines that can go on are resumed, timers go off, and the
  collector of the settings and the heartbeat run: weakly fair. The connection
  opens if the desktop can be reached. The user, the desktop's Close, the
  relays, the sender draining the Channel, faults, their end and the
  re-creation of the service are free.
* `Desk`: the steps of `main`, of the client's loop and of the backend are
  weakly fair, and so is the task that consumes closings. `ConnectOk` is strongly
  fair: a daemon that is up again and again between failures is reached in the
  end. The user, the server's events and the ends of sessions are free.
* `Center`, `Viewers` and `Startup` are checked for safety only and state no
  fairness.

## 6. Proofs

`DeviceLinkProofs`, for any sets of phones, connections and requests and any
capacity (`ConstantsAssumption`): the inductive invariant `LinkInv` adds to
`TypeOK` what the safety properties rest on: a registered connection belongs to
the phone it is registered under; a sender a request holds belongs to the phone
the request is for; a connection that has said hello holds its owner's id and
only such a connection is registered; the hello is at the head of the channel
until it has been delivered. `RoutedToOwner` is not inductive without the first
two, since the envelope follows the cloned sender and not the registry;
`CleanExitForgets` needs the third, since unregister goes by the held id.
Theorems `TypeCorrect`, `Routing`, `CleanExit`, `HelloIsFirst` follow from
`LinkInvariant`.

`PairingProofs`, for any bounds (`BoundsAssumption`): `TypeOK` says of every
session and of what a handler holds which attempts it may stem from: only an
Initiator comes from a `pair_start`, and only it becomes a paired session (lemma
`Shapes`). `PairInv` adds to `TypeOK` the predicate `ConsentAhead`: every message in flight, everything a
handler holds and every state on either side that can still lead to a pairing
already has its consent recorded. `ConsentBeforePaired` alone is not inductive:
a `pair.complete` on its way pairs the phone from any state. `OneHandler` says
that before the first fault there is no old handler and that the map has no
paired session while the only handler holds one, which `PairedIsStable` needs.
Theorems `PairingTypes`, `Consent`, `PairedStays` follow from
`PairingInvariant`.

Two more invariants stand beside it. `OneCompletePerClick` counts certificates
against clicks, and neither number changes with the other: `ClicksCounted` adds
the presses of Accept on their way to a handler or with it, so that every press
is in one place, answered or lost. A queue that is cut or consumed loses presses
and gains none (lemmas `YesTail`, `YesAppend`, `YesCut`, which count positions
by `FiniteSetTheorems`). `CalmAgreement` is about one attempt that no fault, no
second start and no pairing begun on the phone disturbs; `Orderly` says that such an
attempt is at one of ten stages, each of which fixes both sides, both queues and
what the handler holds, and that nothing has begun before the phone first
connects. Theorems `OneCertificatePerClick`, `SidesAgree`.

`PhoneClientProofs`, for any desktops, capacity, limit of misses and bounds
(`ClientAssumption`): `OneLiveLoop` and `NeverWedged` are inductive together.
`Launch` cancels `loopJob` only, so that there is no second live loop because
every live loop is `loopJob`; and a loop leaves its `while` only when it is
cancelled or `running` is false, so that a running client keeps its loop
(lemma `MoveKeeps`, once for all steps of a loop). `BeatOrder` is needed for the
types and for `Create`: the misses are below the limit wherever another can be
counted, and without the service there is no heartbeat in the middle of a
`forceReconnect`. Theorems `ClientTypes`, `SingleLoop`, `RunningHasLoop` follow
from `ClientInvariant`.

`OutboxProofs`, from the same assumption as `DeviceLinkProofs`. `OnceInv` adds to
`LinkInv` that no envelope is twice on the way of a connection (`OnTheWayOnce`)
and that what was accepted is on its way while the socket is up
(`StillCarried`); `AcceptedExactlyOnce` is not inductive alone, since an envelope
moves from the channel to the delivered ones. Theorem `ExactlyOnce`. Theorem
`LinkImplementsOutbox` is the step simulation: every action of `DeviceLink` is an
action of `Outbox` under the mapping of section 3 or leaves its variables alone,
which needs `LinkInv` for the connection a request's sender leads to and for the
bound of the channel.

`CenterProofs`, for any sets and bounds (`CenterAssumption`, `SendsAssumption`).
`CenterTypes` is `TypeOK` in parts, each of which is preserved by what concerns it
(`PhoneOK`, `LinksOK`, `StoreOK`, `FoundOK`, `HistoryOK`, `RequestsOK`); `FoundOK`
is the part that is not about types alone: what the first pass of
`upsert_device` found is a row id that has been given out. `RemovedStaysGone` is
inductive with it, by one lemma used for every statement (`NothingStored`: a
statement for a device without a row stores nothing). `OneRowPerPhone` needs
`OneRowInv`: while no hellos under two device ids have overlapped, the handlers
between the passes of `upsert_device` bring one device id (`OneId`), what each
has found is still right and, but for removals, still there (`StillRight`,
`StillThere`), no hello under an older id takes the row from a link of the
present one (`Undisputed`), and each link has its row or one that is held
(`Served`); rows of other tables go only with their device (`ChildrenStay`), so
that a held row stays held. Theorems `CenterTypeCorrect`, `RemovalIsFinal`,
`OnePhoneOneRow`, and `HeldRowKeepsItsId`, an action lemma that says what the
code does not achieve.

`NumbersAgree` is about an answer put together query by query. `Counts` adds what
each query has told so far in terms of the present tables, since a request that
rows come or go under is followed no further, and that the tables are finite,
which is inductive and no assumption: every row was stored by a step. Lemma
`Counted` finds no more conversations than messages, by mapping the messages
onto them. Theorem `AnswersAgree`.

`MirrorSettles` speaks of a system at rest, so all of the work is in saying what
holds before it rests. `MirrorInv` follows, for each key that is not excused, its
newest change: through the coroutines of the relay, then the queue of the client
and the link, then the handler's hand. While it is on its way it says what the
shade shows; once none is on its way, the table and what the viewers were told
last agree with the shade. It needs that only the link in use carries changes of such
keys and that no change is newer than the last (`OneLink`, `InTurn`).
Theorem `ShadeIsMirrored` assumes nothing about the name of the package field.
With the protocol's name the table mirrors the shade as above. With any other,
and the app at this commit uses another, no posted notification parses, and the
theorem says that nothing is ever kept or announced (`NothingArrives`), which the
run `center_notify` shows from the other side.

`ViewersProofs`, for any finite set of displays, any consoles, phones and actions
and any capacities but zero (`ViewersAssumption`, `RequestedAssumption`).
`NoSilentGap` is about what a viewer has seen; `FlowInv` is about everything on
the way to it, in the bridge, the queue and the writer: it is in ascending order
and before the subscription's position, every event owed is seen, on its way, yet
to be received or overwritten, and a connection without a subscription has
nothing on its way. The subscriber count is part of it (`Counted`), because the
sink publishes to the displays only when the count is not zero. By lemma
`ViewersMoveOneByOne` a step concerns one viewer or none, so that the proof has
one case per action and not one per pair of viewers. `OneResultPerAction` relates
what a reader did to what the bus says. `ActionInv` orders a client's lines,
ties what the phone's channel accepted to what was answered with ok, and finds
every result on the bus among the actions done. Theorems `ViewersTypeCorrect`,
`NoGapIsSilent`, `ActionsAreAnswered`.

`StartupProofs`, for any processes, command lines and bounds (`StartupAssumption`,
`OfferedAssumption`). The three properties speak of the files; they are not
inductive, because a process acts on what it has read or generated before.
`StartupInv` says, unless two processes were starting at once (`collided`): one
process at most is starting (`Alone`); what phones were shown is on the disk,
the id unless the operator has once given another on the command line
(`ShownKept`); the token file is never torn; and
what each process has in memory is what the files it has passed say, and the file
it has open is one it may write (`Local`). With one process starting, a write
concerns nobody else's memory (lemma `OthersKeep`), and the cases of that process
go by its stage (`AloneKeeps`). Theorems `StartupTypeCorrect`, `IdentityIsKept`,
`NextStartSucceeds`, `TokenStaysInStep`.

`DeskProofs`, for any configuration files, traffic, number of clicks, sessions
and failures and any delays (`DeskAssumption`, `SetupsAssumption`,
`TrafficAssumption`). `PowersAssumption` is arithmetic and true: it states
`2^0 = 1`, `2^(n+1) = 2 * 2^n` and that these are numbers for the exponents that
occur, because no prover used here knows exponentiation; TLC evaluates it.
`DialsDaemon` follows from the configuration that was accepted (`Configured`) by
a table of the paths `ws_url` distinguishes (lemma `PathTable`); `BackoffShape`
from `Delayed`, the delay as a function of the failures since the last success.
For the toasts, `DeskInv` says that whatever is on the screen, filed, pressed or
pending belongs to the event it names (`OfItsEvent`), that an entry of the map
has its toast on the screen, its closing on the way, or was closed before it was
entered (`NoLeak`), and, for the order, that there are increasing maps from the
tries and from the unconsumed signals into the clicks, with the prompt between
them (`InOrder`). `InClickOrder` alone is not inductive, since it does not
say that the waiting clicks are later than those acted on. The two tables from
events to toasts and from buttons to actions are lemmas (`ToastTable`,
`ActionTable`). Theorems `DeskTypeCorrect`, `EndpointIsDialled`,
`BackoffDoubles`, `ActionsMatchToasts`, `ClicksActInOrder`,
`MapLeaksNoOtherWay`.

`MirrorInv`, `ClicksCounted` and `Orderly` were checked by TLC on the instances
of the runs before they were proved.

Checked by TLC only: the liveness properties (`HandlerReturns`,
`BlockedReaderResumes`, `AcceptedIsDelivered`, `AcceptCompletes`, `LoopRetries`,
`CancelledLoopEnds`, `Reconnects`), as liveness under fairness is outside the
prover's reach. Every other property of the runs that pass is a theorem. The
properties of the runs that expect a violation are false of the code, and
there is nothing to prove.

## 7. Not modelled

* Cryptography and TLS pinning: computation by libraries; `tls_pinning.rs` is not
  called by the server.
* `phonebridge-bus`: handlers publish into it, nobody subscribes.
* Serialisation: by a library. What parses and what does not is in `Center` for
  the one payload where the two sides differ, and in `Viewers` for actions.
* The audit table, `last_seen`, filters and paging of single queries, static
  files, the OpenAPI document, the dictionary: no state, or state that nothing
  else reads.
* Rendering of toasts, the notification service, zenity and kdialog, the
  Android UI and the web frontend: device I/O.
* Android's content providers, permission checks and discovery: calls into other
  software. The service's restart is in `PhoneClient`.

Hazards that no property covers are listed with a note in `PROJECT.json`, and so
is what a property exempts because the code does nothing against it.
