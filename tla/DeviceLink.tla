------------------------------ MODULE DeviceLink ------------------------------
(***************************************************************************)
(* The WebSocket side of the message-center: the connection handler        *)
(* (ws_handler.rs, handle_axum_connection; handle_connection is the same   *)
(* code over a raw tungstenite stream) and the DeviceRegistry through      *)
(* which every REST handler reaches a phone.                               *)
(*                                                                         *)
(* Per connection there are two tasks: the reader (the handler itself) and *)
(* the writer, which owns the receiving half of a bounded mpsc channel.    *)
(* Sending halves are held by the reader, by the registry and, for the     *)
(* time of one try_send, by a REST request. The channel is closed for the  *)
(* writer when the last of them is gone, and for the senders when the      *)
(* writer returns.                                                         *)
(*                                                                         *)
(* A phone has one live socket at a time, but the server may still be      *)
(* serving the previous one: it learns of its end only by reading a Close  *)
(* frame, a read error, or a failing write.                                *)
(***************************************************************************)
EXTENDS Naturals, Sequences, FiniteSets

CONSTANTS Devices,    \* device ids of the phones
          Conns,      \* accepted WebSocket connections
          Msgs,       \* envelopes the REST handlers send, one per request
          OutboxCap,  \* capacity of the mpsc channel (32 in the code)
          MaxFrames,  \* bound: frames a phone sends on one connection
          NoDev, NoConn

Hello == "device.hello"        \* the desktop's own hello
Reply == "reply"               \* any envelope dispatch() returns

ASSUME ConstantsAssumption ==
    /\ OutboxCap \in Nat \ {0}
    /\ MaxFrames \in Nat
    /\ NoDev \notin Devices
    /\ NoConn \notin Conns
    /\ Hello \notin Msgs
    /\ Reply \notin Msgs

VARIABLES
    conn,       \* reader task of c: where the handler is
    sock,       \* socket of c as the phone left it
    owner,      \* the phone at the other end of c
    frames,     \* frames the phone has sent on c
    inbox,      \* frames sent on c and not yet read
    holder,     \* device_id_holder of c
    writer,     \* writer task of c
    outbox,     \* contents of the mpsc channel of c
    delivered,  \* what the phone has received on c, in order
    registry,   \* DeviceRegistry: device id -> sending half of a connection
    req,        \* REST request carrying m: progress and result
    to,         \* the device m is addressed to
    target      \* connection whose sending half the request of m cloned

connVars == <<conn, sock, owner, frames, inbox, holder>>
chanVars == <<writer, outbox, delivered>>
reqVars  == <<req, to, target>>
vars     == <<connVars, chanVars, registry, reqVars>>

ConnStates == {"none", "open", "hello", "replying", "leaving",
               "disconnecting", "awaiting", "done", "failed"}
SockStates == {"none", "up", "closed", "lost"}
Frames     == {"hello", "beat"}
Items      == Msgs \cup {Hello, Reply}
ReqStates  == {"new", "holding", "ok", "queue_full", "not_connected"}

(***************************************************************************)
(* The type invariant.                                                     *)
(***************************************************************************)
TypeOK ==
    /\ conn \in [Conns -> ConnStates]
    /\ sock \in [Conns -> SockStates]
    /\ owner \in [Conns -> Devices \cup {NoDev}]
    /\ frames \in [Conns -> 0..MaxFrames]
    /\ inbox \in [Conns -> Seq(Frames)]
    /\ holder \in [Conns -> Devices \cup {NoDev}]
    /\ writer \in [Conns -> {"none", "running", "ended"}]
    /\ outbox \in [Conns -> Seq(Items)]
    /\ \A c \in Conns : Len(outbox[c]) <= OutboxCap
    /\ delivered \in [Conns -> Seq(Items)]
    /\ registry \in [Devices -> Conns \cup {NoConn}]
    /\ req \in [Msgs -> ReqStates]
    /\ to \in [Msgs -> Devices \cup {NoDev}]
    /\ target \in [Msgs -> Conns \cup {NoConn}]

Init ==
    /\ conn = [c \in Conns |-> "none"]
    /\ sock = [c \in Conns |-> "none"]
    /\ owner = [c \in Conns |-> NoDev]
    /\ frames = [c \in Conns |-> 0]
    /\ inbox = [c \in Conns |-> <<>>]
    /\ holder = [c \in Conns |-> NoDev]
    /\ writer = [c \in Conns |-> "none"]
    /\ outbox = [c \in Conns |-> <<>>]
    /\ delivered = [c \in Conns |-> <<>>]
    /\ registry = [d \in Devices |-> NoConn]
    /\ req = [m \in Msgs |-> "new"]
    /\ to = [m \in Msgs |-> NoDev]
    /\ target = [m \in Msgs |-> NoConn]

-----------------------------------------------------------------------------
(***************************************************************************)
(* The phone and the network.                                              *)
(***************************************************************************)

\* Mutant: the hello is left to later.
ConnectWithoutHello(c, d) ==
    /\ conn[c] = "none"
    /\ \A e \in Conns : owner[e] = d => sock[e] # "up"
    /\ conn' = [conn EXCEPT ![c] = "open"]
    /\ sock' = [sock EXCEPT ![c] = "up"]
    /\ owner' = [owner EXCEPT ![c] = d]
    /\ writer' = [writer EXCEPT ![c] = "running"]
    /\ UNCHANGED <<frames, inbox, holder, outbox, delivered, registry, reqVars>>

\* The handler starts: its first envelope is the desktop's hello, queued
\* before the writer is spawned and before the first frame is read.
Connect(c, d) ==
    /\ conn[c] = "none"
    /\ \A e \in Conns : owner[e] = d => sock[e] # "up"
    /\ conn' = [conn EXCEPT ![c] = "open"]
    /\ sock' = [sock EXCEPT ![c] = "up"]
    /\ owner' = [owner EXCEPT ![c] = d]
    /\ writer' = [writer EXCEPT ![c] = "running"]
    /\ outbox' = [outbox EXCEPT ![c] = <<Hello>>]
    /\ UNCHANGED <<frames, inbox, holder, delivered, registry, reqVars>>

PhoneSend(c, f) ==
    /\ sock[c] = "up"
    /\ frames[c] < MaxFrames
    /\ frames' = [frames EXCEPT ![c] = @ + 1]
    /\ inbox' = [inbox EXCEPT ![c] = Append(@, f)]
    /\ UNCHANGED <<conn, sock, owner, holder, chanVars, registry, reqVars>>

\* The phone closes the socket with a Close frame, behind what it sent.
PhoneClose(c) ==
    /\ sock[c] = "up"
    /\ sock' = [sock EXCEPT ![c] = "closed"]
    /\ UNCHANGED <<conn, owner, frames, inbox, holder, chanVars, registry, reqVars>>

\* The network goes away: frames in flight are lost from the tail on.
NetDrop(c) ==
    /\ sock[c] = "up"
    /\ sock' = [sock EXCEPT ![c] = "lost"]
    /\ \E k \in 0..Len(inbox[c]) :
          inbox' = [inbox EXCEPT ![c] = SubSeq(@, 1, k)]
    /\ UNCHANGED <<conn, owner, frames, holder, chanVars, registry, reqVars>>

-----------------------------------------------------------------------------
(***************************************************************************)
(* The reader task.                                                        *)
(***************************************************************************)

NextFrame(c, f) ==
    /\ conn[c] = "open"
    /\ inbox[c] # <<>>
    /\ Head(inbox[c]) = f
    /\ inbox' = [inbox EXCEPT ![c] = Tail(@)]

\* A hello frame: sink.on_hello is awaited (database) before registration.
ReadHello(c) ==
    /\ NextFrame(c, "hello")
    /\ conn' = [conn EXCEPT ![c] = "hello"]
    /\ UNCHANGED <<sock, owner, frames, holder, chanVars, registry, reqVars>>

\* on_hello returned: remember the id and put our sending half into the
\* registry, replacing whatever was there.
Register(c) ==
    /\ conn[c] = "hello"
    /\ conn' = [conn EXCEPT ![c] = "open"]
    /\ holder' = [holder EXCEPT ![c] = owner[c]]
    /\ registry' = [registry EXCEPT ![owner[c]] = c]
    /\ UNCHANGED <<sock, owner, frames, inbox, chanVars, reqVars>>

\* A frame that dispatch() answers, e.g. a heartbeat.
ReadBeat(c) ==
    /\ NextFrame(c, "beat")
    /\ conn' = [conn EXCEPT ![c] = "replying"]
    /\ UNCHANGED <<sock, owner, frames, holder, chanVars, registry, reqVars>>

\* Mutant: one envelope too many.
HasRoomOffByOne(c) == writer[c] = "running" /\ Len(outbox[c]) <= OutboxCap

\* The mpsc channel takes another envelope: not closed, not full.
HasRoom(c) == writer[c] = "running" /\ Len(outbox[c]) < OutboxCap

\* Mutant: the reply is sent only when there is room, also after the writer
\* has gone.
ReplyOnlyWithRoom(c) ==
    /\ conn[c] = "replying"
    /\ HasRoom(c)
    /\ conn' = [conn EXCEPT ![c] = "open"]
    /\ outbox' = [outbox EXCEPT ![c] = Append(@, Reply)]
    /\ UNCHANGED <<sock, owner, frames, inbox, holder, writer, delivered, registry, reqVars>>

\* out_tx.send(reply).await: waits for room; fails at once (and is only
\* logged) when the writer has returned.
SendReply(c) ==
    /\ conn[c] = "replying"
    /\ \/ /\ HasRoom(c)
          /\ outbox' = [outbox EXCEPT ![c] = Append(@, Reply)]
       \/ /\ writer[c] = "ended"
          /\ UNCHANGED outbox
    /\ conn' = [conn EXCEPT ![c] = "open"]
    /\ UNCHANGED <<sock, owner, frames, inbox, holder, writer, delivered, registry, reqVars>>

\* The Close frame ends the loop; without a hello there is nothing to
\* unregister, and out_tx is dropped at once.
ReadClose(c) ==
    /\ conn[c] = "open"
    /\ sock[c] = "closed"
    /\ inbox[c] = <<>>
    /\ conn' = [conn EXCEPT ![c] = IF holder[c] = NoDev THEN "awaiting" ELSE "leaving"]
    /\ UNCHANGED <<sock, owner, frames, inbox, holder, chanVars, registry, reqVars>>

\* A read error leaves the handler through `frame?`: the cleanup below the
\* loop is not reached, the writer task is left to itself.
ReadError(c) ==
    /\ conn[c] = "open"
    /\ sock[c] = "lost"
    /\ conn' = [conn EXCEPT ![c] = "failed"]
    /\ UNCHANGED <<sock, owner, frames, inbox, holder, chanVars, registry, reqVars>>

\* Mutant: the cleanup forgets the registry.
LeaveWithoutUnregister(c) ==
    /\ conn[c] = "leaving"
    /\ conn' = [conn EXCEPT ![c] = "disconnecting"]
    /\ UNCHANGED <<sock, owner, frames, inbox, holder, chanVars, registry, reqVars>>

\* Cleanup: unregister is by device id, whoever the entry belongs to.
Unregister(c) ==
    /\ conn[c] = "leaving"
    /\ registry' = [registry EXCEPT ![holder[c]] = NoConn]
    /\ conn' = [conn EXCEPT ![c] = "disconnecting"]
    /\ UNCHANGED <<sock, owner, frames, inbox, holder, chanVars, reqVars>>

\* sink.on_disconnect returned; out_tx is dropped, the writer is awaited.
DropSender(c) ==
    /\ conn[c] = "disconnecting"
    /\ conn' = [conn EXCEPT ![c] = "awaiting"]
    /\ UNCHANGED <<sock, owner, frames, inbox, holder, chanVars, registry, reqVars>>

Finish(c) ==
    /\ conn[c] = "awaiting"
    /\ writer[c] = "ended"
    /\ conn' = [conn EXCEPT ![c] = "done"]
    /\ UNCHANGED <<sock, owner, frames, inbox, holder, chanVars, registry, reqVars>>

-----------------------------------------------------------------------------
(***************************************************************************)
(* The writer task.                                                        *)
(***************************************************************************)

Sending(c) == writer[c] = "running" /\ outbox[c] # <<>>

\* Mutant: the newest envelope overtakes the others.
WriteNewest(c) ==
    /\ Sending(c)
    /\ sock[c] = "up"
    /\ delivered' = [delivered EXCEPT ![c] = Append(@, outbox[c][Len(outbox[c])])]
    /\ outbox' = [outbox EXCEPT ![c] = SubSeq(@, 1, Len(@) - 1)]
    /\ UNCHANGED <<connVars, writer, registry, reqVars>>

\* sender.send(envelope).await, one envelope after another.
Write(c) ==
    /\ Sending(c)
    /\ sock[c] = "up"
    /\ delivered' = [delivered EXCEPT ![c] = Append(@, Head(outbox[c]))]
    /\ outbox' = [outbox EXCEPT ![c] = Tail(@)]
    /\ UNCHANGED <<connVars, writer, registry, reqVars>>

\* The peer is gone, but the kernel still takes the bytes.
WriteIntoVoid(c) ==
    /\ Sending(c)
    /\ sock[c] # "up"
    /\ outbox' = [outbox EXCEPT ![c] = Tail(@)]
    /\ UNCHANGED <<connVars, writer, delivered, registry, reqVars>>

\* The peer is gone and the send fails: the task returns, the receiving
\* half goes with everything still queued.
WriteError(c) ==
    /\ Sending(c)
    /\ sock[c] # "up"
    /\ writer' = [writer EXCEPT ![c] = "ended"]
    /\ outbox' = [outbox EXCEPT ![c] = <<>>]
    /\ UNCHANGED <<connVars, delivered, registry, reqVars>>

\* Somebody can still send into the channel of c.
HasSender(c) ==
    \/ conn[c] \in {"open", "hello", "replying", "leaving", "disconnecting"}
    \/ \E d \in Devices : registry[d] = c
    \/ \E m \in Msgs : req[m] = "holding" /\ target[m] = c

\* recv() returns None: the channel is empty and the last sender is gone.
WriterEnd(c) ==
    /\ writer[c] = "running"
    /\ outbox[c] = <<>>
    /\ ~HasSender(c)
    /\ writer' = [writer EXCEPT ![c] = "ended"]
    /\ UNCHANGED <<connVars, outbox, delivered, registry, reqVars>>

-----------------------------------------------------------------------------
(***************************************************************************)
(* REST handlers, each on a task of its own.                               *)
(***************************************************************************)

\* Mutant: any registered connection will do.
LookupAnyone(m, d) ==
    /\ req[m] = "new"
    /\ \E e \in Devices :
          /\ registry[e] # NoConn
          /\ target' = [target EXCEPT ![m] = registry[e]]
    /\ req' = [req EXCEPT ![m] = "holding"]
    /\ to' = [to EXCEPT ![m] = d]
    /\ UNCHANGED <<connVars, chanVars, registry>>

\* DeviceRegistry::try_send, first half: clone the sender under the lock.
Lookup(m, d) ==
    /\ req[m] = "new"
    /\ to' = [to EXCEPT ![m] = d]
    /\ target' = [target EXCEPT ![m] = registry[d]]
    /\ req' = [req EXCEPT ![m] = IF registry[d] = NoConn THEN "not_connected" ELSE "holding"]
    /\ UNCHANGED <<connVars, chanVars, registry>>

\* Mutant: the result of the channel's try_send is thrown away.
TrySendIgnoringResult(m) ==
    LET c == target[m] IN
    /\ req[m] = "holding"
    /\ req' = [req EXCEPT ![m] = "ok"]
    /\ outbox' = IF HasRoom(c) THEN [outbox EXCEPT ![c] = Append(@, m)] ELSE outbox
    /\ UNCHANGED <<connVars, writer, delivered, registry, to, target>>

\* Second half, outside the lock: a full and a closed channel give the same
\* answer. The clone is dropped either way.
TrySend(m) ==
    LET c == target[m] IN
    /\ req[m] = "holding"
    /\ \/ /\ HasRoom(c)
          /\ outbox' = [outbox EXCEPT ![c] = Append(@, m)]
          /\ req' = [req EXCEPT ![m] = "ok"]
       \/ /\ ~HasRoom(c)
          /\ req' = [req EXCEPT ![m] = "queue_full"]
          /\ UNCHANGED outbox
    /\ UNCHANGED <<connVars, writer, delivered, registry, to, target>>

\* DELETE /devices/{id}: the entry goes, the socket stays open.
RemoveDevice(d) ==
    /\ registry[d] # NoConn
    /\ registry' = [registry EXCEPT ![d] = NoConn]
    /\ UNCHANGED <<connVars, chanVars, reqVars>>

-----------------------------------------------------------------------------
ReaderStep(c) ==
    \/ ReadHello(c) \/ Register(c) \/ ReadBeat(c) \/ SendReply(c)
    \/ ReadClose(c)
    \/ Unregister(c) \/ DropSender(c) \/ Finish(c)

WriterStep(c) ==
    Write(c) \/ WriteIntoVoid(c) \/ WriteError(c) \/ WriterEnd(c)

Next ==
    \/ \E c \in Conns :
          \/ \E d \in Devices : Connect(c, d)
          \/ \E f \in Frames : PhoneSend(c, f)
          \/ PhoneClose(c)
          \/ NetDrop(c)
          \/ ReaderStep(c)
          \/ ReadError(c)
          \/ WriterStep(c)
    \/ \E m \in Msgs :
          \/ \E d \in Devices : Lookup(m, d)
          \/ TrySend(m)
    \/ \E d \in Devices : RemoveDevice(d)

\* The tokio runtime schedules every ready task. The phone, the network and
\* the users of the REST interface promise nothing; a read error on a lost
\* socket is not promised either (a half-open TCP connection is silent).
Fairness ==
    /\ \A c \in Conns : WF_vars(WriterStep(c))
    /\ \A c \in Conns : WF_vars(ReaderStep(c))
    /\ \A m \in Msgs : WF_vars(TrySend(m))

Spec == Init /\ [][Next]_vars
FairSpec == Spec /\ Fairness

-----------------------------------------------------------------------------
(***************************************************************************)
(* Properties.                                                             *)
(***************************************************************************)

\* m is in the channel of c, or has been received on c.
Carries(c, m) ==
    \/ \E i \in DOMAIN outbox[c] : outbox[c][i] = m
    \/ \E i \in DOMAIN delivered[c] : delivered[c][i] = m

\* No two envelopes of s are m.
AtMostOnce(m, s) == \A i, j \in DOMAIN s : s[i] = m /\ s[j] = m => i = j

\* An envelope a REST handler addressed to a phone only ever enters the
\* channel of a connection of that phone, across reconnects, late
\* registrations and a sender cloned before the entry changed hands.
RoutedToOwner ==
    \A m \in Msgs, c \in Conns :
        Carries(c, m) => owner[c] = to[m]

\* try_send answered Ok, and only then: as long as the phone's socket is up the
\* envelope is in the channel or at the phone, once, and nowhere else.
AcceptedExactlyOnce ==
    \A m \in Msgs :
        /\ \A c \in Conns : Carries(c, m) => req[m] = "ok" /\ c = target[m]
        /\ req[m] = "ok" /\ sock[target[m]] = "up" => Carries(target[m], m)
        /\ \A c \in Conns :
              /\ AtMostOnce(m, delivered[c]) /\ AtMostOnce(m, outbox[c])
              /\ \A i \in DOMAIN delivered[c], j \in DOMAIN outbox[c] :
                     ~(delivered[c][i] = m /\ outbox[c][j] = m)

\* Whatever races with the first frames of a connection, the first envelope
\* the phone receives on it is the desktop's hello.
HelloFirst ==
    \A c \in Conns : delivered[c] # <<>> => Head(delivered[c]) = Hello

\* Once the cleanup of a connection has passed unregister, the registry never
\* leads to its channel again, whatever registrations and requests were under
\* way: this is what lets the writer end.
CleanExitForgets ==
    \A c \in Conns, d \in Devices :
        conn[c] \in {"disconnecting", "awaiting", "done"} => registry[d] # c

\* A handler that left its loop on a Close frame returns: awaiting the
\* writer cannot hang on a sender that is never dropped.
HandlerReturns ==
    \A c \in Conns : conn[c] = "leaving" ~> conn[c] = "done"

\* A reader blocked on its own full channel gets going again, also when the
\* writer fails instead of draining it.
BlockedReaderResumes ==
    \A c \in Conns : conn[c] = "replying" ~> conn[c] = "open"

\* An accepted envelope reaches the phone unless its socket goes down.
AcceptedIsDelivered ==
    \A m \in Msgs, c \in Conns :
        (req[m] = "ok" /\ target[m] = c)
            ~> (sock[c] # "up" \/ \E i \in DOMAIN delivered[c] : delivered[c][i] = m)

\* registry.rs, module comment: "The channel is removed when the connection
\* closes": no entry leads to a connection whose handler has returned.
RemovedWhenClosed ==
    \A d \in Devices :
        registry[d] # NoConn => conn[registry[d]] \notin {"failed", "done"}

\* registry.rs, module comment: "Registry of currently-connected devices":
\* a phone that said hello on a live connection is in the registry, unless
\* the device was removed. (The action form: nobody but DELETE or the
\* connection's own end takes the entry of a live connection away.)
LiveEntryStays ==
    [][\A d \in Devices, c \in Conns :
          (registry[d] = c /\ sock[c] = "up" /\ registry'[d] = NoConn)
              => RemoveDevice(d)]_vars

-----------------------------------------------------------------------------
(***************************************************************************)
(* Refinement: what the link promises, see Outbox.                         *)
(***************************************************************************)
phaseBar == [c \in Conns |-> CASE sock[c] = "none" -> "new"
                              [] sock[c] = "up"   -> "live"
                              [] OTHER            -> "over"]
queueBar == [c \in Conns |-> IF sock[c] = "up" THEN outbox[c] ELSE <<>>]
takenBar == {m \in Msgs : req[m] = "ok"}

Promise == INSTANCE Outbox WITH
    Notes <- {Reply}, First <- Hello, Cap <- OutboxCap,
    phase <- phaseBar, queue <- queueBar, got <- delivered, taken <- takenBar

\* Registry, late registrations, writer task, reader and REST requests together
\* are no more than a bounded queue per connection that begins with the hello,
\* keeps its order and takes an envelope once (ws_handler.rs, registry.rs).
ImplementsOutbox == Promise!Spec
=============================================================================
