----------------------------- MODULE CenterProofs -----------------------------
(***************************************************************************)
(* Proofs about Center for any sets of device ids, keys, handlers and      *)
(* requests, whatever the bounds on what happens.                          *)
(***************************************************************************)
EXTENDS Center, FiniteSetTheorems, TLAPS

\* A request is a record of the fields it started with; one that is past its
\* first await is about a device.
RequestOK(q) ==
    /\ q = [op |-> q.op, dev |-> q.dev, key |-> q.key, stage |-> q.stage, todo |-> q.todo,
            got |-> q.got]
    /\ q.dev \in Devices \cup {None} /\ q.key \in Keys \cup {None} /\ q.todo \subseteq Slots
    /\ q.stage \in {"send", "record", "delete"} => q.dev \in Devices

RequestsOK == req = [r \in Requests |-> req[r]] /\ \A r \in Requests : RequestOK(req[r])

\* What a handler is in the middle of: a hello, or a change of a notification.
HandlerOK(h) ==
    /\ conn[h].stage = "write" => conn[h].msg \in Messages
    /\ conn[h].stage = "publish" => conn[h].msg \in Messages /\ conn[h].msg.type \in Shaded

\* The parts of TypeOK: the phone and what is on its way ...
PhoneOK ==
    /\ phone \in [id : Devices, hw : {"hw", None}, link : Handlers \cup {None}]
    /\ shade \subseteq Keys /\ relays \subseteq Messages /\ \A m \in relays : m.key \in Keys
    /\ outgoing \in Seq(Messages) /\ inbox \in [Handlers -> Seq(Messages)]
    /\ moves \in Nat

\* ... the links ...
LinksOK ==
    /\ outbox \in Seq(Keys \cup {None}) /\ Len(outbox) <= OutboxCap
    /\ conn \in [Handlers -> [stage : Stages, holder : Devices \cup {None}, found : Nat,
                              msg : Messages \cup {NoMsg}]]
    /\ registry \in [Devices -> Handlers \cup {None}]
    /\ \A h \in Handlers : HandlerOK(h)

\* ... the tables ...
StoreOK ==
    /\ rows \subseteq [id : 1 .. lastRow, dev : Devices, hw : {"hw", None}] /\ lastRow \in Nat
    /\ \A a, b \in rows : a.id = b.id \/ a.dev = b.dev => a = b
    /\ notes \in [Slots -> Marks]
    /\ \A s \in sms : s.dev \in Devices
    /\ calls \in [Devices \X Kinds -> Nat]

\* ... the rows the handlers have found ...
FoundOK == \A h \in Handlers : conn[h].found <= lastRow

\* ... and what was published and noted.
HistoryOK ==
    /\ told \in [Slots -> Shaded \cup {"none"}]
    /\ excused \subseteq Keys /\ gone \subseteq Devices /\ raced \in BOOLEAN
    /\ unowed \subseteq Handlers

\* The invariant that keeps the types.
CenterTypes == PhoneOK /\ LinksOK /\ StoreOK /\ FoundOK /\ HistoryOK /\ RequestsOK

-----------------------------------------------------------------------------
\* A request that starts again, and the fields a step may write.
LEMMA RequestForms ==
    /\ RequestOK(Answered)
    /\ \A q : RequestOK(q) => \A k \in Keys : RequestOK([q EXCEPT !.key = k])
    /\ \A q : RequestOK(q) => \A t \in SUBSET Slots : RequestOK([q EXCEPT !.todo = t])
    /\ \A q : RequestOK(q) => \A x : RequestOK([q EXCEPT !.got = x])
<1>1. RequestOK(Answered)
  BY DEF RequestOK, Answered, NewRequest
<1>2. ASSUME NEW q, RequestOK(q), NEW k \in Keys PROVE RequestOK([q EXCEPT !.key = k])
  BY <1>2 DEF RequestOK
<1>3. ASSUME NEW q, RequestOK(q), NEW t \in SUBSET Slots PROVE RequestOK([q EXCEPT !.todo = t])
  BY <1>3 DEF RequestOK
<1>4. ASSUME NEW q, RequestOK(q), NEW x PROVE RequestOK([q EXCEPT !.got = x])
  BY <1>4 DEF RequestOK
<1> QED BY <1>1, <1>2, <1>3, <1>4

\* A step that writes one request keeps the others.
LEMMA RequestWritten ==
    ASSUME RequestsOK, NEW r \in Requests, NEW q, RequestOK(q), req' = [req EXCEPT ![r] = q]
    PROVE  RequestsOK'
BY DEF RequestsOK

\* Rows come or go: the requests that are reading end.
LEMMA RequestTorn == RequestsOK => Torn = [r \in Requests |-> Torn[r]] /\ \A r \in Requests : RequestOK(Torn[r])
BY RequestForms DEF RequestsOK, Torn, Answered

\* The requests keep their shape: only their own steps change them, and
\* rows that come or go.
LEMMA RequestStep == ASSUME RequestsOK, [Next]_vars PROVE RequestsOK'
<1> USE CenterAssumption DEF CenterAssumption
<1>1. ASSUME UNCHANGED req PROVE RequestsOK'
  BY <1>1 DEF RequestsOK
<1>2. ASSUME req' = Torn PROVE RequestsOK'
  BY <1>2, RequestTorn DEF RequestsOK
<1>4. ASSUME NEW r \in Requests, To(r, Answered) PROVE RequestsOK'
  BY <1>4, RequestForms, RequestWritten DEF To
<1>5. ASSUME NEW r \in Requests, req' = [Torn EXCEPT ![r] = Answered] PROVE RequestsOK'
  BY <1>5, RequestTorn, RequestForms DEF RequestsOK
<1>6. ASSUME NEW r \in Requests, NEW d \in Devices \cup {None}, Ask(r, d) PROVE RequestsOK'
  <2>0. \A op, st : d # None => RequestOK(Asked(op, d, st))
    BY DEF Asked, NewRequest, RequestOK
  <2>1. ASSUME NEW k \in Keys, d # None, MarkOne(r, d, k) PROVE RequestsOK'
    BY <1>4, <2>1 DEF MarkOne
  <2>2. ASSUME NEW k \in Keys, d # None, Dismiss(r, d, k) PROVE RequestsOK'
    <3>1. CASE To(r, Answered)
      BY <1>4, <3>1
    <3>2. CASE To(r, [Asked("dismiss", d, "send") EXCEPT !.key = k])
      <4>1. RequestOK([Asked("dismiss", d, "send") EXCEPT !.key = k])
        BY <2>0, <2>2, RequestForms
      <4> QED BY <3>2, <4>1, RequestWritten DEF To
    <3> QED BY <2>2, <3>1, <3>2 DEF Dismiss
  <2>3. ASSUME ListUnread(r, d) PROVE RequestsOK'
    <3>1. Listed(d, {"unread"}) \subseteq Slots
      BY DEF Listed
    <3>2. RequestOK(Asked("markAll", d, "marking"))
      BY DEF Asked, RequestOK
    <3>3. RequestOK([Asked("markAll", d, "marking") EXCEPT !.todo = Listed(d, {"unread"})])
      BY <3>1, <3>2, RequestForms
    <3> QED BY <2>3, <3>3, RequestWritten DEF ListUnread, To
  <2>4. ASSUME d # None, Unregister(r, d) PROVE RequestsOK'
    BY <2>0, <2>4, RequestWritten DEF Unregister, To
  <2>5. ASSUME d # None, SendSms(r, d) PROVE RequestsOK'
    <3>1. To(r, Answered) \/ To(r, Asked("sms", d, "send"))
      BY <2>5 DEF SendSms
    <3> QED BY <1>4, <2>0, <2>5, <3>1, RequestWritten DEF To
  <2>6. ASSUME d # None, Dial(r, d) PROVE RequestsOK'
    <3>1. To(r, Answered) \/ To(r, Asked("dial", d, "send"))
      BY <2>6 DEF Dial
    <3> QED BY <1>4, <2>0, <2>6, <3>1, RequestWritten DEF To
  <2>7. ASSUME NEW op \in AllOps, FirstQuery(r, op, d) PROVE RequestsOK'
    <3>1. RequestOK(Asked(op, d, "reading"))
      BY DEF Asked, RequestOK
    <3>2. \A x : RequestOK([Asked(op, d, "reading") EXCEPT !.got = x])
      BY <3>1, RequestForms
    <3> QED BY <2>7, <3>2, RequestWritten DEF FirstQuery, To
  <2> QED BY <1>6, <2>1, <2>2, <2>3, <2>4, <2>5, <2>6, <2>7 DEF Ask
<1>7. ASSUME NEW r \in Requests, Serve(r) PROVE RequestsOK'
  <2>0. RequestOK(req[r])
    BY DEF RequestsOK
  <2>1. ASSUME MarkListed(r) PROVE RequestsOK'
    <3>1. ASSUME NEW s, To(r, [req[r] EXCEPT !.todo = @ \ {s}]) PROVE RequestsOK'
      <4>1. RequestOK([req[r] EXCEPT !.todo = @ \ {s}])
        BY <2>0 DEF RequestOK
      <4> QED BY <3>1, <4>1, RequestWritten DEF To
    <3> QED BY <1>4, <2>1, <3>1 DEF MarkListed
  <2>2. ASSUME TrySend(r) PROVE RequestsOK'
    <3>1. To(r, Answered) \/ (req[r].stage = "send" /\ To(r, [req[r] EXCEPT !.stage = "record"]))
      BY <2>2 DEF TrySend
    <3>2. ASSUME req[r].stage = "send", To(r, [req[r] EXCEPT !.stage = "record"]) PROVE RequestsOK'
      <4>1. RequestOK([req[r] EXCEPT !.stage = "record"])
        BY <2>0, <3>2 DEF RequestOK
      <4> QED BY <3>2, <4>1, RequestWritten DEF To
    <3> QED BY <1>4, <3>1, <3>2
  <2>3. ASSUME RecordSms(r) PROVE RequestsOK'
    BY <1>5, <2>3 DEF RecordSms
  <2>4. ASSUME Delete(r) PROVE RequestsOK'
    BY <1>5, <2>4 DEF Delete
  <2>5. ASSUME NextQuery(r) PROVE RequestsOK'
    <3>1. ASSUME NEW x, req[r].stage = "reading", To(r, [req[r] EXCEPT !.got = Append(@, x)]) PROVE RequestsOK'
      <4>1. RequestOK([req[r] EXCEPT !.got = Append(@, x)])
        BY <2>0, RequestForms
      <4> QED BY <3>1, <4>1, RequestWritten DEF To
    <3> QED BY <1>4, <2>5, <3>1 DEF NextQuery
  <2> QED BY <1>7, <2>1, <2>2, <2>3, <2>4, <2>5 DEF Serve
<1>8. ASSUME NEW h \in Handlers, Handle(h) PROVE RequestsOK'
  <2>1. UNCHANGED req \/ req' = Torn
    BY <1>8 DEF Handle, ReadHello, EnterDevice, StoreNotification, StoreSms, StoreCall, Unpair,
                Publish, Close
  <2> QED BY <1>1, <1>2, <2>1
<1>9. CASE UNCHANGED vars
  BY <1>1, <1>9 DEF vars
<1>10. CASE Next
  BY <1>1, <1>6, <1>7, <1>8, <1>10
  DEF Next, Post, Swipe, Enter, Other, Connect, Receive, LinkEnds, Reinstall
<1> QED BY <1>9, <1>10

-----------------------------------------------------------------------------
\* What the phone sends is a message, and it goes to the client's queue or to
\* the link.
LEMMA Sent ==
    ASSUME PhoneOK, NEW m \in Messages, Send(m)
    PROVE  outgoing' \in Seq(Messages) /\ inbox' \in [Handlers -> Seq(Messages)]
<1>0. outgoing \in Seq(Messages) /\ inbox \in [Handlers -> Seq(Messages)]
  BY DEF PhoneOK
<1>1. CASE phone.link = None
  <2>1. outgoing' = Append(outgoing, m) /\ inbox' = inbox
    BY <1>1 DEF Send
  <2>2. Append(outgoing, m) \in Seq(Messages)
    BY <1>0
  <2> QED BY <1>0, <2>1, <2>2
<1>2. CASE phone.link # None
  <2>1. phone.link \in Handlers /\ inbox[phone.link] \in Seq(Messages)
    BY <1>2 DEF PhoneOK
  <2>2. Append(inbox[phone.link], m) \in Seq(Messages)
    BY <2>1
  <2> QED BY <1>2, <2>2 DEF PhoneOK, Send
<1> QED BY <1>1, <1>2

LEMMA Made ==
    ASSUME PhoneOK, NEW n \in Nat
    PROVE  /\ \A t \in Shaded, k \in Keys : Msg(t, k, n) \in Messages /\ Msg(t, k, n).key \in Keys
           /\ \A t \in Others \cup {"hello"} : Msg(t, None, n) \in Messages
<1>1. phone.id \in Devices /\ phone.hw \in {"hw", None}
  BY DEF PhoneOK
<1>2. ASSUME NEW t \in Shaded, NEW k \in Keys
      PROVE  Msg(t, k, n) \in Messages /\ Msg(t, k, n).key \in Keys
  <2>1. Msg(t, k, n) = [type |-> t, dev |-> phone.id, key |-> k, hw |-> phone.hw, n |-> n]
    BY DEF Msg
  <2>2. Msg(t, k, n) \in Messages
    BY <1>1, <2>1 DEF Messages
  <2> QED BY <2>1, <2>2
<1>3. ASSUME NEW t \in Others \cup {"hello"} PROVE Msg(t, None, n) \in Messages
  BY <1>1 DEF Messages, Msg
<1> QED BY <1>2, <1>3

\* The phone and its messages keep their types.
LEMMA PhoneStep == ASSUME CenterTypes, [Next]_vars PROVE PhoneOK'
<1> USE CenterAssumption, SendsAssumption DEF CenterAssumption, CenterTypes
<1>0. moves + 1 \in Nat /\ 0 \in Nat
  BY DEF PhoneOK
<1>1. ASSUME UNCHANGED <<phone, shade, relays, outgoing, inbox>>, Move \/ Fine PROVE PhoneOK'
  BY <1>0, <1>1 DEF PhoneOK, Move, Fine
<1>2. ASSUME NEW k \in Keys, Post(k) \/ Swipe(k) PROVE PhoneOK'
  BY <1>0, <1>2, Made DEF Post, Swipe, Move, Relay, linkVars, PhoneOK, Shaded
<1>3. ASSUME NEW m \in relays, Enter(m) PROVE PhoneOK'
  <2>1. m \in Messages
    BY DEF PhoneOK
  <2>2. [m EXCEPT !.n = 0] \in Messages
    BY <2>1 DEF Messages
  <2>3. outgoing' \in Seq(Messages) /\ inbox' \in [Handlers -> Seq(Messages)]
    BY <1>3, <2>2, Sent DEF Enter
  <2> QED BY <1>3, <2>3 DEF Enter, PhoneOK
<1>4. ASSUME NEW t \in Sends, Other(t) PROVE PhoneOK'
  <2>1. Msg(t, None, moves + 1) \in Messages
    BY <1>0, Made
  <2>2. outgoing' \in Seq(Messages) /\ inbox' \in [Handlers -> Seq(Messages)]
    BY <1>4, <2>1, Sent DEF Other
  <2> QED BY <1>0, <1>4, <2>2 DEF Other, Move, PhoneOK
<1>5. ASSUME NEW h \in Handlers, Connect(h) PROVE PhoneOK'
  <2>1. Msg("hello", None, 0) \in Messages
    BY <1>0, Made
  <2> DEFINE waiting == <<Msg("hello", None, 0)>> \o outgoing
  <2>2. waiting \in Seq(Messages)
    BY <2>1 DEF PhoneOK
  <2>3. /\ phone' = [phone EXCEPT !.link = h] /\ inbox' = [inbox EXCEPT ![h] = waiting]
        /\ outgoing' = <<>> /\ UNCHANGED <<shade, relays, moves>>
    BY <1>5 DEF Connect
  <2> HIDE DEF waiting
  <2>4. phone' \in [id : Devices, hw : {"hw", None}, link : Handlers \cup {None}]
    BY <2>3 DEF PhoneOK
  <2> QED BY <2>2, <2>3, <2>4 DEF PhoneOK
<1>6. ASSUME LinkEnds PROVE PhoneOK'
  BY <1>6 DEF LinkEnds, PhoneOK
<1>7. ASSUME NEW d \in Devices, Reinstall(d) PROVE PhoneOK'
  BY <1>0, <1>7 DEF Reinstall, Move, linkVars, PhoneOK
<1>8. ASSUME Receive PROVE PhoneOK'
  <2>1. CASE Head(outbox) \in shade
    <3>1. Head(outbox) \in Keys
      BY <2>1 DEF PhoneOK
    <3>2. /\ Msg("dismissed", Head(outbox), moves + 1) \in Messages
          /\ Msg("dismissed", Head(outbox), moves + 1).key \in Keys
      BY <1>0, <3>1, Made DEF Shaded
    <3>3. /\ shade' = shade \ {Head(outbox)} /\ moves' = moves + 1
          /\ relays' = relays \cup {Msg("dismissed", Head(outbox), moves + 1)}
          /\ UNCHANGED <<phone, outgoing, inbox>>
      BY <1>8, <2>1 DEF Receive, Relay
    <3> QED BY <1>0, <3>2, <3>3 DEF PhoneOK
  <2>2. CASE Head(outbox) \notin shade
    BY <1>8, <2>2 DEF Receive, PhoneOK
  <2> QED BY <2>1, <2>2
<1>9. ASSUME NEW h \in Handlers, Handle(h) PROVE PhoneOK'
  <2>1. ASSUME inbox[h] # <<>>, UNCHANGED phoneVars, Move \/ Fine,
               inbox' = [inbox EXCEPT ![h] = Tail(@)]
        PROVE PhoneOK'
    <3>1. Tail(inbox[h]) \in Seq(Messages)
      BY <2>1 DEF PhoneOK
    <3> QED BY <1>0, <2>1, <3>1 DEF PhoneOK, phoneVars, Move, Fine
  <2>2. ASSUME ReadHello(h) PROVE PhoneOK'
    BY <2>1, <2>2 DEF ReadHello, Reading, Fine
  <2>3. ASSUME EnterDevice(h) PROVE PhoneOK'
    BY <1>1, <2>3 DEF EnterDevice, Busy, phoneVars
  <2>4. ASSUME StoreNotification(h) PROVE PhoneOK'
    BY <2>1, <2>4 DEF StoreNotification, Reading, Take, Busy, Fine
  <2>5. ASSUME StoreSms(h) PROVE PhoneOK'
    BY <2>1, <2>5 DEF StoreSms, Reading, Take, Busy
  <2>6. ASSUME StoreCall(h) PROVE PhoneOK'
    BY <2>1, <2>6 DEF StoreCall, Reading, Take, Busy
  <2>7. ASSUME Unpair(h) PROVE PhoneOK'
    BY <2>1, <2>7 DEF Unpair, Reading, Take, Busy
  <2>8. ASSUME Publish(h) PROVE PhoneOK'
    BY <1>1, <2>8 DEF Publish, Fine, phoneVars
  <2>9. ASSUME Close(h) PROVE PhoneOK'
    BY <2>9 DEF Close, phoneVars, PhoneOK
  <2> QED BY <1>9, <2>2, <2>3, <2>4, <2>5, <2>6, <2>7, <2>8, <2>9 DEF Handle
<1>10. ASSUME NEW r \in Requests, NEW d \in Devices \cup {None}, Ask(r, d) PROVE PhoneOK'
  BY <1>1, <1>10 DEF Ask, MarkOne, Dismiss, ListUnread, Unregister, SendSms, Dial, FirstQuery, Asks,
                     phoneVars, linkVars
<1>11. ASSUME NEW r \in Requests, Serve(r) PROVE PhoneOK'
  BY <1>1, <1>11 DEF Serve, MarkListed, TrySend, RecordSms, Delete, NextQuery, Fine, phoneVars, linkVars
<1>12. CASE UNCHANGED vars
  BY <1>1, <1>12 DEF vars, phoneVars, linkVars, Fine
<1> QED BY <1>2, <1>3, <1>4, <1>5, <1>6, <1>7, <1>8, <1>9, <1>10, <1>11, <1>12 DEF Next
-----------------------------------------------------------------------------
\* A handler that moves to another stage.
LEMMA HandlerMoves ==
    ASSUME LinksOK, NEW h \in Handlers, NEW stage \in Stages, NEW holder \in Devices \cup {None},
           NEW found \in Nat, NEW m \in Messages \cup {NoMsg},
           stage = "write" => m \in Messages,
           stage = "publish" => m \in Messages /\ m.type \in Shaded,
           conn' = [conn EXCEPT ![h] = At(stage, holder, found, m)],
           UNCHANGED outbox, registry' \in [Devices -> Handlers \cup {None}]
    PROVE  LinksOK'
<1> DEFINE c == At(stage, holder, found, m)
<1>1. /\ c \in [stage : Stages, holder : Devices \cup {None}, found : Nat, msg : Messages \cup {NoMsg}]
      /\ c.stage = stage /\ c.msg = m
  BY DEF At
<1>2. conn' = [conn EXCEPT ![h] = c]
  OBVIOUS
<1> HIDE DEF c
<1>3. conn' \in [Handlers -> [stage : Stages, holder : Devices \cup {None}, found : Nat,
                              msg : Messages \cup {NoMsg}]]
  BY <1>1, <1>2 DEF LinksOK
<1>4. ASSUME NEW g \in Handlers PROVE HandlerOK(g)'
  <2>1. CASE g = h
    BY <1>1, <1>2, <2>1 DEF LinksOK, HandlerOK
  <2>2. CASE g # h
    BY <1>2, <2>2 DEF LinksOK, HandlerOK
  <2> QED BY <2>1, <2>2
<1> QED BY <1>3, <1>4 DEF LinksOK

\* What a handler reads is a message of the phone, and the row it finds has an
\* id that was given.
LEMMA ReadsMessage ==
    ASSUME PhoneOK, NEW h \in Handlers, inbox[h] # <<>>
    PROVE  Head(inbox[h]) \in Messages
BY DEF PhoneOK

LEMMA FindsRow ==
    ASSUME StoreOK, NEW m, NEW found \in Found(m)
    PROVE  /\ found \in Nat /\ found <= lastRow
           /\ found = 0 <=> RowOf(m) = {}
           /\ found # 0 => \E row \in rows : row.id = found /\ row.hw = m.hw /\ m.hw # None
BY DEF Found, RowOf, StoreOK

\* Frames, handlers and the registry keep their types.
LEMMA LinksStep == ASSUME CenterTypes, [Next]_vars PROVE LinksOK'
<1> USE CenterAssumption DEF CenterAssumption, CenterTypes
<1>1. ASSUME UNCHANGED <<outbox, conn, registry>> PROVE LinksOK'
  BY <1>1 DEF LinksOK, HandlerOK
<1>2. ASSUME NEW h \in Handlers, Connect(h) PROVE LinksOK'
  <2>1. /\ conn' = [conn EXCEPT ![h].stage = "idle"] /\ UNCHANGED <<outbox, registry>>
    BY <1>2 DEF Connect
  <2>2. conn' \in [Handlers -> [stage : Stages, holder : Devices \cup {None}, found : Nat,
                                msg : Messages \cup {NoMsg}]]
    BY <2>1 DEF LinksOK, Stages
  <2>3. \A g \in Handlers : HandlerOK(g)'
    BY <2>1 DEF LinksOK, HandlerOK
  <2> QED BY <2>1, <2>2, <2>3 DEF LinksOK
<1>3. ASSUME LinkEnds PROVE LinksOK'
  BY <1>3 DEF LinkEnds, LinksOK, HandlerOK
<1>4. ASSUME Receive PROVE LinksOK'
  <2>1. /\ Tail(outbox) \in Seq(Keys \cup {None}) /\ Len(Tail(outbox)) <= OutboxCap
    BY <1>4 DEF Receive, LinksOK
  <2> QED BY <1>4, <2>1 DEF Receive, LinksOK, HandlerOK
<1>5. ASSUME NEW h \in Handlers, Handle(h) PROVE LinksOK'
  <2>0. conn[h].holder \in Devices \cup {None} /\ HandlerOK(h)
    BY DEF LinksOK
  <2>1. ASSUME ReadHello(h) PROVE LinksOK'
    <3> DEFINE m == Head(inbox[h])
    <3>1. m \in Messages /\ UNCHANGED <<outbox, registry>>
      BY <2>1, ReadsMessage DEF ReadHello, Reading
    <3>2. PICK found \in Found(m) : conn' = [conn EXCEPT ![h] = At("write", @.holder, found, m)]
      BY <2>1 DEF ReadHello
    <3>3. found \in Nat /\ conn' = [conn EXCEPT ![h] = At("write", conn[h].holder, found, m)]
      BY <3>2, FindsRow
    <3> HIDE DEF m
    <3> QED BY <2>0, <3>1, <3>3, HandlerMoves DEF Stages, LinksOK
  <2>2. ASSUME EnterDevice(h) PROVE LinksOK'
    <3>1. conn[h].msg.dev \in Devices
      BY <2>0, <2>2 DEF EnterDevice, HandlerOK, Messages
    <3>2. /\ conn' = [conn EXCEPT ![h] = At("idle", conn[h].msg.dev, 0, NoMsg)] /\ UNCHANGED outbox
          /\ registry' = [registry EXCEPT ![conn[h].msg.dev] = h]
      BY <2>2 DEF EnterDevice
    <3>3. registry' \in [Devices -> Handlers \cup {None}]
      BY <3>2 DEF LinksOK
    <3> QED BY <3>1, <3>2, <3>3, HandlerMoves DEF Stages
  <2>3. ASSUME Take(h), inbox[h] # <<>>, UNCHANGED <<outbox, registry>> PROVE LinksOK'
    <3>1. CASE Head(inbox[h]).type \in Shaded
      <4>1. conn' = [conn EXCEPT ![h] = At("publish", conn[h].holder, 0, Head(inbox[h]))]
        BY <2>3, <3>1 DEF Take
      <4>2. Head(inbox[h]) \in Messages
        BY <2>3, ReadsMessage
      <4> HIDE DEF Take
      <4> QED BY <2>0, <2>3, <3>1, <4>1, <4>2, HandlerMoves DEF Stages, LinksOK
    <3>2. CASE Head(inbox[h]).type \notin Shaded
      BY <1>1, <2>3, <3>2 DEF Take
    <3> QED BY <3>1, <3>2
  <2>4. ASSUME StoreNotification(h) PROVE LinksOK'
    BY <1>1, <2>3, <2>4 DEF StoreNotification, Reading
  <2>5. ASSUME StoreSms(h) PROVE LinksOK'
    BY <2>3, <2>5 DEF StoreSms, Reading
  <2>6. ASSUME StoreCall(h) PROVE LinksOK'
    BY <2>3, <2>6 DEF StoreCall, Reading
  <2>7. ASSUME Unpair(h) PROVE LinksOK'
    BY <2>3, <2>7 DEF Unpair, Reading
  <2>8. ASSUME Publish(h) PROVE LinksOK'
    <3>1. /\ conn' = [conn EXCEPT ![h] = At("idle", conn[h].holder, 0, NoMsg)]
          /\ UNCHANGED <<outbox, registry>>
      BY <2>8 DEF Publish
    <3> QED BY <2>0, <3>1, HandlerMoves DEF Stages, LinksOK
  <2>9. ASSUME Close(h) PROVE LinksOK'
    <3>1. /\ conn' = [conn EXCEPT ![h] = At("done", None, 0, NoMsg)] /\ UNCHANGED outbox
          /\ registry' = IF conn[h].holder = None THEN registry
                         ELSE [registry EXCEPT ![conn[h].holder] = None]
      BY <2>9 DEF Close
    <3>2. registry' \in [Devices -> Handlers \cup {None}]
      BY <3>1 DEF LinksOK
    <3> QED BY <3>1, <3>2, HandlerMoves DEF Stages
  <2> QED BY <1>5, <2>1, <2>2, <2>4, <2>5, <2>6, <2>7, <2>8, <2>9 DEF Handle
<1>6. ASSUME NEW r \in Requests, NEW d \in Devices \cup {None}, Ask(r, d) PROVE LinksOK'
  <2>1. ASSUME Unregister(r, d) PROVE LinksOK'
    BY <2>1 DEF Unregister, LinksOK, HandlerOK
  <2> QED BY <1>1, <1>6, <2>1 DEF Ask, MarkOne, Dismiss, ListUnread, SendSms, Dial, FirstQuery, linkVars
<1>7. ASSUME NEW r \in Requests, Serve(r) PROVE LinksOK'
  <2>1. ASSUME TrySend(r) PROVE LinksOK'
    <3>1. CASE UNCHANGED outbox
      BY <1>1, <2>1, <3>1 DEF TrySend
    <3>2. CASE Len(outbox) < OutboxCap /\ outbox' = Append(outbox, req[r].key)
      <4>1. req[r].key \in Keys \cup {None}
        BY DEF RequestsOK, RequestOK
      <4>2. /\ Append(outbox, req[r].key) \in Seq(Keys \cup {None})
            /\ Len(Append(outbox, req[r].key)) <= OutboxCap
        BY <3>2, <4>1 DEF LinksOK
      <4> QED BY <2>1, <3>2, <4>2 DEF TrySend, LinksOK, HandlerOK
    <3> QED BY <2>1, <3>1, <3>2 DEF TrySend
  <2> QED BY <1>1, <1>7, <2>1 DEF Serve, MarkListed, RecordSms, Delete, NextQuery, linkVars
<1>8. CASE UNCHANGED vars
  BY <1>1, <1>8 DEF vars, linkVars
<1>9. CASE \/ \E k \in Keys : Post(k) \/ Swipe(k)
           \/ \E m \in relays : Enter(m)
           \/ \E t \in Sends : Other(t)
           \/ \E d \in Devices : Reinstall(d)
  BY <1>1, <1>9 DEF Post, Swipe, Enter, Other, Reinstall, linkVars
<1> QED BY <1>2, <1>3, <1>4, <1>5, <1>6, <1>7, <1>8, <1>9 DEF Next
-----------------------------------------------------------------------------
\* The statements of upsert_device's second pass keep ids and device ids unique.
LEMMA UpsertRows ==
    ASSUME StoreOK, NEW h \in Handlers, HandlerOK(h), conn[h].stage = "write",
           \/ UpdateDevice(conn[h].found, conn[h].msg)
           \/ InsertDevice(conn[h].msg)
    PROVE  /\ rows' \subseteq [id : 1 .. lastRow', dev : Devices, hw : {"hw", None}]
           /\ lastRow' \in Nat /\ lastRow <= lastRow'
           /\ \A a, b \in rows' : a.id = b.id \/ a.dev = b.dev => a = b
<1> DEFINE m == conn[h].msg
           id == conn[h].found
<1>1. m.dev \in Devices /\ m.hw \in {"hw", None}
  BY DEF HandlerOK, Messages
<1> HIDE DEF m, id
<1>2. CASE UpdateDevice(id, m)
  <2> DEFINE old == {row \in rows : row.id = id}
             new == {[id |-> row.id, dev |-> m.dev, hw |-> m.hw] : row \in old}
  <2>1. CASE UNCHANGED <<rows, lastRow>>
    BY <2>1 DEF StoreOK
  <2>2. CASE /\ \A row \in old : row.dev = m.dev \/ ~HasRow(m.dev)
             /\ rows' = (rows \ old) \cup new /\ lastRow' = lastRow
    <3>1. new \subseteq [id : 1 .. lastRow, dev : Devices, hw : {"hw", None}]
      BY <1>1 DEF StoreOK
    <3>2. \A a \in new, b \in rows \ old : a.id # b.id /\ a.dev # b.dev
      BY <2>2 DEF StoreOK, HasRow
    <3>3. \A a, b \in new : a = b
      BY DEF StoreOK
    <3> HIDE DEF new, old
    <3>4. rows' \subseteq [id : 1 .. lastRow', dev : Devices, hw : {"hw", None}]
      BY <2>2, <3>1 DEF StoreOK
    <3>5. ASSUME NEW a \in rows', NEW b \in rows', a.id = b.id \/ a.dev = b.dev PROVE a = b
      BY <2>2, <3>2, <3>3, <3>5 DEF StoreOK
    <3> QED BY <2>2, <3>4, <3>5 DEF StoreOK
  <2> QED BY <1>2, <2>1, <2>2 DEF UpdateDevice
<1>3. CASE InsertDevice(m)
  <2>1. CASE HasRow(m.dev)
    <3> DEFINE F(row) == IF row.dev = m.dev /\ m.hw # None THEN [row EXCEPT !.hw = m.hw] ELSE row
    <3>1. rows' = {F(row) : row \in rows} /\ lastRow' = lastRow
      BY <1>3, <2>1 DEF InsertDevice
    <3>2. \A row \in rows : /\ F(row) \in [id : 1 .. lastRow, dev : Devices, hw : {"hw", None}]
                            /\ F(row).id = row.id /\ F(row).dev = row.dev
      BY <1>1 DEF StoreOK
    <3> HIDE DEF F
    <3> QED BY <3>1, <3>2 DEF StoreOK
  <2>2. CASE ~HasRow(m.dev)
    <3> DEFINE new == [id |-> lastRow + 1, dev |-> m.dev, hw |-> m.hw]
    <3>1. rows' = rows \cup {new} /\ lastRow' = lastRow + 1
      BY <1>3, <2>2 DEF InsertDevice
    <3>2. lastRow + 1 \in Nat /\ lastRow <= lastRow + 1 /\ 1 .. lastRow \subseteq 1 .. (lastRow + 1)
          /\ lastRow + 1 \in 1 .. (lastRow + 1)
      BY DEF StoreOK
    <3>3. /\ new \in [id : 1 .. (lastRow + 1), dev : Devices, hw : {"hw", None}]
          /\ new.id = lastRow + 1 /\ new.dev = m.dev
      BY <1>1, <3>2
    <3>4. \A a \in rows : a.id # new.id /\ a.dev # new.dev
      BY <2>2, <3>3 DEF StoreOK, HasRow
    <3> HIDE DEF new
    <3>5. rows \subseteq [id : 1 .. (lastRow + 1), dev : Devices, hw : {"hw", None}]
      BY <3>2 DEF StoreOK
    <3> QED BY <3>1, <3>2, <3>3, <3>4, <3>5 DEF StoreOK
  <2> QED BY <2>1, <2>2
<1> QED BY <1>2, <1>3 DEF m, id

\* A deleted device takes its rows with it and nothing else.
LEMMA Deleted ==
    ASSUME StoreOK, NEW d \in Devices, DeleteDevice(d), UNCHANGED lastRow
    PROVE  /\ StoreOK' /\ ~HasRow(d)' /\ ~Children(d)'
           /\ \A e \in Devices : ~HasRow(e) => ~HasRow(e)'
           /\ \A e \in Devices : ~Children(e) => ~Children(e)'
<1>1. StoreOK'
  <2>1. notes' \in [Slots -> Marks]
    BY DEF DeleteDevice, StoreOK, Marks
  <2>2. calls' \in [Devices \X Kinds -> Nat]
    BY DEF DeleteDevice, StoreOK
  <2> QED BY <2>1, <2>2 DEF DeleteDevice, StoreOK
<1>2. ~HasRow(d)' /\ \A e \in Devices : ~HasRow(e) => ~HasRow(e)'
  BY DEF DeleteDevice, HasRow
<1>3. ASSUME NEW e \in Devices, e = d \/ ~Children(e) PROVE ~Children(e)'
  <2>1. ASSUME NEW k \in Keys PROVE notes'[<<e, k>>] = "none"
    <3>1. <<e, k>> \in Slots /\ <<e, k>>[1] = e
      BY DEF Slots
    <3> QED BY <1>3, <3>1 DEF DeleteDevice, Children
  <2>2. \A s \in sms' : s.dev # e
    BY <1>3 DEF DeleteDevice, Children
  <2>3. ASSUME NEW c \in Kinds PROVE ~(calls'[<<e, c>>] > 0)
    <3>1. <<e, c>> \in Devices \X Kinds /\ <<e, c>>[1] = e
      OBVIOUS
    <3> QED BY <1>3, <3>1 DEF DeleteDevice, Children
  <2> QED BY <2>1, <2>2, <2>3 DEF Children
<1> QED BY <1>1, <1>2, <1>3
\* Statements about notifications, messages and calls.
LEMMA Stored ==
    ASSUME StoreOK, UNCHANGED <<rows, lastRow>>, notes' \in [Slots -> Marks],
           \A s \in sms' : s.dev \in Devices, calls' \in [Devices \X Kinds -> Nat]
    PROVE  StoreOK'
BY DEF StoreOK

LEMMA Marked ==
    ASSUME StoreOK, NEW d, NEW k, InsertNotification(d, k) \/ MarkRead(d, k)
    PROVE  notes' \in [Slots -> Marks]
<1>1. CASE InsertNotification(d, k)
  BY <1>1 DEF InsertNotification, StoreOK, Marks
<1>2. CASE MarkRead(d, k)
  BY <1>2 DEF MarkRead, StoreOK, Marks
<1> QED BY <1>1, <1>2

\* The tables keep their types, ids and device ids stay unique.
LEMMA StoreStep == ASSUME CenterTypes, [Next]_vars PROVE StoreOK'
<1> USE CenterAssumption DEF CenterAssumption, CenterTypes
<1>0. notes \in [Slots -> Marks] /\ (\A s \in sms : s.dev \in Devices) /\ calls \in [Devices \X Kinds -> Nat]
  BY DEF StoreOK
<1>1. ASSUME UNCHANGED dbVars PROVE StoreOK'
  BY <1>1 DEF StoreOK, dbVars
<1>2. ASSUME NEW h \in Handlers, Handle(h) PROVE StoreOK'
  <2>1. ASSUME EnterDevice(h) PROVE StoreOK'
    <3>1. CASE UNCHANGED <<rows, lastRow>>
      BY <1>1, <2>1, <3>1 DEF EnterDevice, dbVars
    <3>2. CASE UpdateDevice(conn[h].found, conn[h].msg) \/ InsertDevice(conn[h].msg)
      <4>1. HandlerOK(h) /\ conn[h].stage = "write"
        BY <2>1 DEF EnterDevice, LinksOK
      <4>2. /\ rows' \subseteq [id : 1 .. lastRow', dev : Devices, hw : {"hw", None}]
            /\ lastRow' \in Nat
            /\ \A a, b \in rows' : a.id = b.id \/ a.dev = b.dev => a = b
        BY <3>2, <4>1, UpsertRows
      <4> QED BY <2>1, <4>2 DEF EnterDevice, StoreOK
    <3> QED BY <2>1, <3>1, <3>2 DEF EnterDevice
  <2>2. ASSUME StoreNotification(h) PROVE StoreOK'
    <3>1. /\ UNCHANGED <<rows, lastRow, sms, calls>>
          /\ \/ UNCHANGED notes
             \/ \E d, k : InsertNotification(d, k) \/ MarkRead(d, k)
      BY <2>2 DEF StoreNotification
    <3> QED BY <1>0, <3>1, Marked, Stored
  <2>3. ASSUME StoreSms(h) PROVE StoreOK'
    <3>1. Head(inbox[h]).dev \in Devices
      BY <2>3, ReadsMessage DEF StoreSms, Reading, Messages
    <3>2. \A s \in sms' : s.dev \in Devices
      BY <1>0, <2>3, <3>1 DEF StoreSms, InsertSms
    <3> QED BY <1>0, <2>3, <3>2, Stored DEF StoreSms
  <2>4. ASSUME StoreCall(h) PROVE StoreOK'
    <3>1. calls' \in [Devices \X Kinds -> Nat]
      BY <1>0, <2>4 DEF StoreCall, InsertCall
    <3> QED BY <1>0, <2>4, <3>1, Stored DEF StoreCall
  <2>5. ASSUME Unpair(h) PROVE StoreOK'
    <3>1. Head(inbox[h]).dev \in Devices
      BY <2>5, ReadsMessage DEF Unpair, Reading, Messages
    <3>2. CASE DeleteDevice(Head(inbox[h]).dev)
      BY <2>5, <3>1, <3>2, Deleted DEF Unpair
    <3>3. CASE UNCHANGED <<rows, notes, sms, calls>>
      BY <1>1, <2>5, <3>3 DEF Unpair, dbVars
    <3> QED BY <2>5, <3>2, <3>3 DEF Unpair
  <2> QED BY <1>1, <1>2, <2>1, <2>2, <2>3, <2>4, <2>5 DEF Handle, ReadHello, Publish, Close
<1>3. ASSUME NEW r \in Requests, NEW d \in Devices \cup {None}, Ask(r, d) PROVE StoreOK'
  <2>1. ASSUME NEW k \in Keys, MarkOne(r, d, k) \/ Dismiss(r, d, k) PROVE StoreOK'
    BY <1>0, <2>1, Marked, Stored DEF MarkOne, Dismiss
  <2> QED BY <1>1, <1>3, <2>1 DEF Ask, ListUnread, Unregister, SendSms, Dial, FirstQuery
<1>4. ASSUME NEW r \in Requests, Serve(r) PROVE StoreOK'
  <2>1. ASSUME MarkListed(r) PROVE StoreOK'
    <3>1. UNCHANGED notes \/ \E d, k : MarkRead(d, k)
      BY <2>1 DEF MarkListed
    <3> QED BY <1>0, <2>1, <3>1, Marked, Stored DEF MarkListed
  <2>2. ASSUME RecordSms(r) PROVE StoreOK'
    <3>1. req[r].dev \in Devices
      BY <2>2 DEF RecordSms, RequestsOK, RequestOK
    <3>2. \A s \in sms' : s.dev \in Devices
      BY <1>0, <2>2, <3>1 DEF RecordSms, InsertSms
    <3> QED BY <1>0, <2>2, <3>2, Stored DEF RecordSms
  <2>3. ASSUME Delete(r) PROVE StoreOK'
    <3>1. req[r].dev \in Devices
      BY <2>3 DEF Delete, RequestsOK, RequestOK
    <3> QED BY <2>3, <3>1, Deleted DEF Delete
  <2> QED BY <1>1, <1>4, <2>1, <2>2, <2>3 DEF Serve, TrySend, NextQuery
<1>5. CASE UNCHANGED vars
  BY <1>1, <1>5 DEF vars
<1>6. CASE \/ \E k \in Keys : Post(k) \/ Swipe(k)
           \/ \E m \in relays : Enter(m)
           \/ \E t \in Sends : Other(t)
           \/ \E h \in Handlers : Connect(h)
           \/ Receive \/ LinkEnds
           \/ \E d \in Devices : Reinstall(d)
  BY <1>1, <1>6 DEF Post, Swipe, Enter, Other, Connect, Receive, LinkEnds, Reinstall
<1> QED BY <1>2, <1>3, <1>4, <1>5, <1>6 DEF Next

\* A row id a handler has found was given before.
LEMMA FoundStep == ASSUME CenterTypes, [Next]_vars PROVE FoundOK'
<1> USE DEF CenterTypes
<1>0. \A h \in Handlers : conn[h].found \in Nat
  BY DEF LinksOK
<1>1. ASSUME UNCHANGED conn, lastRow' = lastRow PROVE FoundOK'
  BY <1>1 DEF FoundOK
<1>2. ASSUME NEW h \in Handlers, NEW c, c.found \in Nat, c.found <= lastRow', lastRow <= lastRow',
             lastRow' \in Nat, conn' = [conn EXCEPT ![h] = c]
      PROVE  FoundOK'
  <2>1. conn'[h].found = c.found /\ \A g \in Handlers \ {h} : conn'[g] = conn[g]
    BY <1>2 DEF LinksOK
  <2>2. lastRow \in Nat
    BY DEF StoreOK
  <2> QED BY <1>0, <1>2, <2>1, <2>2 DEF FoundOK
<1>3. lastRow \in Nat /\ 0 \in Nat /\ 0 <= lastRow
  BY DEF StoreOK
<1>4. ASSUME NEW h \in Handlers, Handle(h) PROVE FoundOK'
  <2>1. ASSUME ReadHello(h) PROVE FoundOK'
    <3> DEFINE m == Head(inbox[h])
    <3>0. PICK found \in Found(m) : conn' = [conn EXCEPT ![h] = At("write", @.holder, found, m)]
      BY <2>1 DEF ReadHello
    <3>1. found \in Nat /\ found <= lastRow /\ lastRow' = lastRow
      BY <2>1, FindsRow DEF ReadHello, dbVars
    <3>2. conn' = [conn EXCEPT ![h] = At("write", conn[h].holder, found, m)]
      BY <3>0
    <3> HIDE DEF m
    <3> DEFINE c == At("write", conn[h].holder, found, m)
    <3>3. c.found = found
      BY DEF At
    <3>4. c.found \in Nat /\ c.found <= lastRow' /\ lastRow <= lastRow' /\ lastRow' \in Nat
      BY <1>3, <3>1, <3>3
    <3> HIDE DEF c
    <3>5. conn' = [conn EXCEPT ![h] = c]
      BY <3>2 DEF c
    <3> QED BY <1>2, <3>4, <3>5
  <2>2. ASSUME EnterDevice(h) PROVE FoundOK'
    <3>1. lastRow' \in Nat /\ lastRow <= lastRow'
      <4>1. CASE UNCHANGED <<rows, lastRow>>
        BY <1>3, <4>1
      <4>2. CASE UpdateDevice(conn[h].found, conn[h].msg) \/ InsertDevice(conn[h].msg)
        <5>1. HandlerOK(h) /\ conn[h].stage = "write"
          BY <2>2 DEF EnterDevice, LinksOK
        <5> QED BY <4>2, <5>1, UpsertRows
      <4> QED BY <2>2, <4>1, <4>2 DEF EnterDevice
    <3>2. conn' = [conn EXCEPT ![h] = At("idle", conn[h].msg.dev, 0, NoMsg)]
      BY <2>2 DEF EnterDevice
    <3>3. At("idle", conn[h].msg.dev, 0, NoMsg).found = 0 /\ 0 <= lastRow'
      BY <3>1 DEF At
    <3> QED BY <1>2, <1>3, <3>1, <3>2, <3>3
  <2>3. ASSUME NEW stage, NEW holder, NEW m, conn' = [conn EXCEPT ![h] = At(stage, holder, 0, m)],
               lastRow' = lastRow
        PROVE  FoundOK'
    <3> DEFINE c == At(stage, holder, 0, m)
    <3>1. c.found = 0
      BY DEF At
    <3>2. c.found \in Nat /\ c.found <= lastRow' /\ lastRow <= lastRow' /\ lastRow' \in Nat
      BY <1>3, <2>3, <3>1
    <3> HIDE DEF c
    <3>3. conn' = [conn EXCEPT ![h] = c]
      BY <2>3 DEF c
    <3> QED BY <1>2, <3>2, <3>3
  <2>4. ASSUME StoreNotification(h) PROVE FoundOK'
    BY <1>1, <2>3, <2>4 DEF StoreNotification, Take
  <2>5. ASSUME StoreSms(h) \/ StoreCall(h) \/ Unpair(h) PROVE FoundOK'
    BY <1>1, <2>3, <2>5 DEF StoreSms, StoreCall, Unpair, Take
  <2>6. ASSUME Publish(h) \/ Close(h) PROVE FoundOK'
    BY <2>3, <2>6 DEF Publish, Close, dbVars
  <2> QED BY <1>4, <2>1, <2>2, <2>4, <2>5, <2>6 DEF Handle
<1>5. ASSUME NEW h \in Handlers, Connect(h) PROVE FoundOK'
  BY <1>5 DEF Connect, dbVars, LinksOK, FoundOK
<1>6. ASSUME NEW r \in Requests, Serve(r) \/ \E d \in Devices \cup {None} : Ask(r, d) PROVE FoundOK'
  BY <1>1, <1>6 DEF Serve, MarkListed, TrySend, RecordSms, Delete, NextQuery, Ask, MarkOne, Dismiss,
     ListUnread, Unregister, SendSms, Dial, FirstQuery, linkVars, dbVars
<1>7. CASE UNCHANGED vars
  BY <1>1, <1>7 DEF vars, linkVars, dbVars
<1>8. CASE \/ \E k \in Keys : Post(k) \/ Swipe(k)
           \/ \E m \in relays : Enter(m)
           \/ \E t \in Sends : Other(t)
           \/ Receive \/ LinkEnds
           \/ \E d \in Devices : Reinstall(d)
  BY <1>1, <1>8 DEF Post, Swipe, Enter, Other, Receive, LinkEnds, Reinstall, linkVars, dbVars
<1> QED BY <1>4, <1>5, <1>6, <1>7, <1>8 DEF Next
\* What was published and noted is about keys and devices of the phone.
LEMMA HistoryStep == ASSUME CenterTypes, [Next]_vars PROVE HistoryOK'
<1> USE CenterAssumption DEF CenterAssumption, CenterTypes
<1>1. ASSUME UNCHANGED <<told, gone, raced, unowed>>, excused' \subseteq Keys PROVE HistoryOK'
  BY <1>1 DEF HistoryOK
<1>2. ASSUME UNCHANGED <<told, histVars>> PROVE HistoryOK'
  BY <1>2 DEF HistoryOK, histVars
<1>3. excused \subseteq Keys /\ Keys \subseteq Keys
  BY DEF HistoryOK
<1>4. ASSUME NEW m \in relays, Enter(m) PROVE HistoryOK'
  <2>1. m.key \in Keys
    BY DEF PhoneOK
  <2> QED BY <1>1, <1>3, <1>4, <2>1 DEF Enter
<1>5. ASSUME LinkEnds PROVE HistoryOK'
  <2>1. phone.link \in Handlers
    BY <1>5 DEF LinkEnds, PhoneOK
  <2>2. KeysIn(phone.link) \ {None} \subseteq Keys
    <3>1. \A i \in DOMAIN inbox[phone.link] : inbox[phone.link][i] \in Messages
      BY <2>1 DEF PhoneOK
    <3>2. conn[phone.link].msg \in Messages \cup {NoMsg}
      BY <2>1 DEF LinksOK
    <3> QED BY <3>1, <3>2 DEF KeysIn, Messages, NoMsg, Shaded
  <2> QED BY <1>1, <1>3, <1>5, <2>2 DEF LinkEnds
<1>6. ASSUME NEW h \in Handlers, Handle(h) PROVE HistoryOK'
  <2>1. ASSUME ReadHello(h) PROVE HistoryOK'
    <3>1. raced' \in BOOLEAN
      BY <2>1 DEF ReadHello
    <3> QED BY <2>1, <3>1 DEF ReadHello, HistoryOK
  <2>2. ASSUME EnterDevice(h) PROVE HistoryOK'
    <3>1. gone' \subseteq Devices /\ unowed' \subseteq Handlers
      BY <2>2 DEF EnterDevice, HistoryOK
    <3> QED BY <2>2, <3>1 DEF EnterDevice, HistoryOK
  <2>3. ASSUME StoreNotification(h) PROVE HistoryOK'
    <3>1. Head(inbox[h]) \in Messages /\ Head(inbox[h]).type \in Shaded
      BY <2>3, ReadsMessage DEF StoreNotification, Reading
    <3>2. Head(inbox[h]).key \in Keys
      BY <3>1 DEF Messages, Shaded, Others
    <3>3. excused' \subseteq Keys
      BY <1>3, <2>3, <3>2 DEF StoreNotification
    <3> QED BY <1>1, <2>3, <3>3 DEF StoreNotification
  <2>4. ASSUME Unpair(h) PROVE HistoryOK'
    <3>1. Head(inbox[h]).dev \in Devices
      BY <2>4, ReadsMessage DEF Unpair, Reading, Messages
    <3>2. gone' \subseteq Devices /\ excused' \subseteq Keys /\ unowed' \subseteq Handlers
      BY <1>3, <2>4, <3>1 DEF Unpair, Forget, HistoryOK
    <3> QED BY <2>4, <3>2 DEF Unpair, HistoryOK
  <2>5. ASSUME Publish(h) PROVE HistoryOK'
    <3>1. conn[h].msg.type \in Shaded
      BY <2>5 DEF Publish, LinksOK, HandlerOK
    <3>2. told' \in [Slots -> Shaded \cup {"none"}]
      BY <2>5, <3>1 DEF Publish, HistoryOK
    <3> QED BY <2>5, <3>2 DEF Publish, HistoryOK, histVars
  <2> QED BY <1>2, <1>6, <2>1, <2>2, <2>3, <2>4, <2>5 DEF Handle, StoreSms, StoreCall, Close, histVars
<1>7. ASSUME NEW r \in Requests, Serve(r) PROVE HistoryOK'
  <2>1. ASSUME Delete(r) PROVE HistoryOK'
    <3>1. req[r].dev \in Devices
      BY <2>1 DEF Delete, RequestsOK, RequestOK
    <3> QED BY <2>1, <3>1 DEF Delete, Forget, HistoryOK
  <2> QED BY <1>2, <1>7, <2>1 DEF Serve, MarkListed, TrySend, RecordSms, NextQuery
<1>8. ASSUME NEW r \in Requests, NEW d \in Devices \cup {None}, Ask(r, d) PROVE HistoryOK'
  BY <1>2, <1>8 DEF Ask, MarkOne, Dismiss, ListUnread, Unregister, SendSms, Dial, FirstQuery
<1>9. CASE UNCHANGED vars
  BY <1>2, <1>9 DEF vars
<1>10. CASE \/ \E k \in Keys : Post(k) \/ Swipe(k)
            \/ \E t \in Sends : Other(t)
            \/ \E h \in Handlers : Connect(h)
            \/ Receive
            \/ \E d \in Devices : Reinstall(d)
  BY <1>1, <1>2, <1>3, <1>10 DEF Post, Swipe, Other, Connect, Receive, Reinstall
<1> QED BY <1>4, <1>5, <1>6, <1>7, <1>8, <1>9, <1>10 DEF Next

\* An empty store and a phone without a link.
LEMMA InitTypes == Init => CenterTypes
<1> SUFFICES ASSUME Init PROVE CenterTypes
  OBVIOUS
<1> USE CenterAssumption DEF CenterAssumption
<1>1. PhoneOK
  BY DEF Init, PhoneOK
<1>2. LinksOK
  BY DEF Init, LinksOK, HandlerOK, NoConn, At, Stages
<1>3. StoreOK /\ FoundOK
  BY DEF Init, StoreOK, FoundOK, NoConn, At, Marks
<1>4. HistoryOK
  BY DEF Init, HistoryOK
<1>5. RequestsOK
  BY RequestForms DEF Init, RequestsOK, Answered
<1> QED BY <1>1, <1>2, <1>3, <1>4, <1>5 DEF CenterTypes

THEOREM CenterTypesInvariant == Spec => []CenterTypes
<1>1. CenterTypes /\ [Next]_vars => CenterTypes'
  BY PhoneStep, LinksStep, StoreStep, FoundStep, HistoryStep, RequestStep DEF CenterTypes
<1> QED BY InitTypes, <1>1, PTL DEF Spec

\* Whatever the handlers, the requests and the phone do, the tables, the
\* channels and the registry keep their types, and no two rows of devices have
\* an id or a device id in common.
THEOREM CenterTypeCorrect == Spec => []TypeOK
<1>1. CenterTypes => TypeOK
  BY DEF CenterTypes, PhoneOK, LinksOK, StoreOK, FoundOK, HistoryOK, RequestsOK, RequestOK, TypeOK
<1> QED BY <1>1, CenterTypesInvariant, PTL
-----------------------------------------------------------------------------
\* A device that was removed has neither a row nor rows of other tables.
Empty(d) == ~HasRow(d) /\ ~Children(d)

\* A statement for a device without a row stores nothing.
LEMMA NothingStored ==
    ASSUME StoreOK, NEW e \in Devices, Empty(e), UNCHANGED rows,
           notes' = notes \/ \E d, k : MarkRead(d, k) \/ (HasRow(d) /\ InsertNotification(d, k)),
           sms' = sms \/ \E d, id, peer : InsertSms(d, id, peer),
           calls' = calls \/ \E d, c : InsertCall(d, c)
    PROVE  Empty(e)'
<1>1. ~HasRow(e) /\ ~HasRow(e)'
  BY DEF Empty, HasRow
<1>2. ASSUME NEW k \in Keys PROVE notes'[<<e, k>>] = "none"
  <2>1. notes[<<e, k>>] = "none" /\ <<e, k>> \in Slots
    BY DEF Empty, Children, Slots
  <2>2. ASSUME NEW d, NEW j, MarkRead(d, j) PROVE notes'[<<e, k>>] = "none"
    BY <2>1, <2>2 DEF MarkRead, StoreOK
  <2>3. ASSUME NEW d, NEW j, HasRow(d), InsertNotification(d, j) PROVE notes'[<<e, k>>] = "none"
    <3>1. <<d, j>> # <<e, k>>
      BY <1>1, <2>3
    <3> QED BY <2>1, <2>3, <3>1 DEF InsertNotification, StoreOK
  <2> QED BY <2>1, <2>2, <2>3
<1>3. ASSUME NEW s \in sms' PROVE s.dev # e
  BY <1>1 DEF Empty, Children, InsertSms
<1>4. ASSUME NEW c \in Kinds PROVE ~(calls'[<<e, c>>] > 0)
  <2>1. ~(calls[<<e, c>>] > 0)
    BY DEF Empty, Children
  <2>2. ASSUME NEW d, NEW b, InsertCall(d, b), HasRow(d) PROVE calls'[<<e, c>>] = calls[<<e, c>>]
    <3>1. <<d, b>> # <<e, c>>
      BY <1>1, <2>2
    <3> QED BY <2>2, <3>1 DEF InsertCall, StoreOK
  <2>3. calls'[<<e, c>>] = calls[<<e, c>>]
    BY <2>2 DEF InsertCall
  <2> QED BY <2>1, <2>3
<1> QED BY <1>1, <1>2, <1>3, <1>4 DEF Empty, Children

\* No step brings anything of a removed device back, but a hello, which takes
\* it off the list.
LEMMA RemovedStep == CenterTypes /\ RemovedStaysGone /\ [Next]_vars => RemovedStaysGone'
<1> SUFFICES ASSUME CenterTypes, RemovedStaysGone, [Next]_vars, NEW e \in gone' PROVE Empty(e)'
  BY DEF RemovedStaysGone, Empty
<1> USE DEF CenterTypes
<1>0. e \in Devices /\ StoreOK
  BY HistoryStep DEF HistoryOK
<1>1. e \in gone => Empty(e)
  BY DEF RemovedStaysGone, Empty
<1>2. ASSUME UNCHANGED <<dbVars, gone>> PROVE Empty(e)'
  BY <1>1, <1>2 DEF Empty, HasRow, Children, dbVars
<1>3. ASSUME UNCHANGED <<rows, gone>>,
             notes' = notes \/ \E d, k : MarkRead(d, k) \/ (HasRow(d) /\ InsertNotification(d, k)),
             sms' = sms \/ \E d, id, peer : InsertSms(d, id, peer),
             calls' = calls \/ \E d, c : InsertCall(d, c)
      PROVE  Empty(e)'
  BY <1>0, <1>1, <1>3, NothingStored
<1>4. ASSUME NEW d \in Devices, DeleteDevice(d), UNCHANGED lastRow, gone' = gone \cup {d} PROVE Empty(e)'
  BY <1>0, <1>1, <1>4, Deleted DEF Empty
<1>5. ASSUME NEW h \in Handlers, Handle(h) PROVE Empty(e)'
  <2>1. ASSUME EnterDevice(h) PROVE Empty(e)'
    <3>1. CASE UNCHANGED <<rows, lastRow, gone>>
      BY <1>2, <2>1, <3>1 DEF EnterDevice, dbVars
    <3>2. CASE gone' = gone \ {row.dev : row \in rows'}
      <4>1. e \in gone /\ ~HasRow(e)'
        BY <3>2 DEF HasRow
      <4>2. ~Children(e)'
        BY <1>1, <2>1, <4>1 DEF EnterDevice, Empty, Children
      <4> QED BY <4>1, <4>2 DEF Empty
    <3> QED BY <2>1, <3>1, <3>2 DEF EnterDevice
  <2>2. ASSUME StoreNotification(h) PROVE Empty(e)'
    <3>1. notes' = notes \/ \E d, k : MarkRead(d, k) \/ (HasRow(d) /\ InsertNotification(d, k))
      BY <2>2 DEF StoreNotification
    <3> QED BY <1>3, <2>2, <3>1 DEF StoreNotification
  <2>3. ASSUME StoreSms(h) PROVE Empty(e)'
    <3>1. sms' = sms \/ \E d, id, peer : InsertSms(d, id, peer)
      BY <2>3 DEF StoreSms
    <3> QED BY <1>3, <2>3, <3>1 DEF StoreSms
  <2>4. ASSUME StoreCall(h) PROVE Empty(e)'
    <3>1. calls' = calls \/ \E d, c : InsertCall(d, c)
      BY <2>4 DEF StoreCall
    <3> QED BY <1>3, <2>4, <3>1 DEF StoreCall
  <2>5. ASSUME Unpair(h) PROVE Empty(e)'
    <3>1. Head(inbox[h]).dev \in Devices
      BY <2>5, ReadsMessage DEF Unpair, Reading, Messages
    <3>2. CASE DeleteDevice(Head(inbox[h]).dev) /\ Forget(Head(inbox[h]).dev)
      BY <1>4, <2>5, <3>1, <3>2 DEF Unpair, Forget
    <3>3. CASE UNCHANGED <<rows, notes, sms, calls, gone>>
      BY <1>2, <2>5, <3>3 DEF Unpair, dbVars
    <3> QED BY <2>5, <3>2, <3>3 DEF Unpair
  <2> QED BY <1>2, <1>5, <2>1, <2>2, <2>3, <2>4, <2>5 DEF Handle, ReadHello, Publish, Close, histVars
<1>6. ASSUME NEW r \in Requests, NEW d \in Devices \cup {None}, Ask(r, d) PROVE Empty(e)'
  <2>1. ASSUME NEW k \in Keys, MarkOne(r, d, k) \/ Dismiss(r, d, k) PROVE Empty(e)'
    <3>1. \E c, j : MarkRead(c, j)
      BY <2>1 DEF MarkOne, Dismiss
    <3> QED BY <1>3, <2>1, <3>1 DEF MarkOne, Dismiss, histVars
  <2> QED BY <1>2, <1>6, <2>1 DEF Ask, ListUnread, Unregister, SendSms, Dial, FirstQuery, histVars
<1>7. ASSUME NEW r \in Requests, Serve(r) PROVE Empty(e)'
  <2>1. ASSUME MarkListed(r) PROVE Empty(e)'
    <3>1. notes' = notes \/ \E c, j : MarkRead(c, j)
      BY <2>1 DEF MarkListed
    <3> QED BY <1>3, <2>1, <3>1 DEF MarkListed, histVars
  <2>2. ASSUME RecordSms(r) PROVE Empty(e)'
    <3>1. \E d, id, peer : InsertSms(d, id, peer)
      BY <2>2 DEF RecordSms
    <3> QED BY <1>3, <2>2, <3>1 DEF RecordSms, histVars
  <2>3. ASSUME Delete(r) PROVE Empty(e)'
    <3>1. req[r].dev \in Devices
      BY <2>3 DEF Delete, RequestsOK, RequestOK
    <3> QED BY <1>4, <2>3, <3>1 DEF Delete, Forget
  <2> QED BY <1>2, <1>7, <2>1, <2>2, <2>3 DEF Serve, TrySend, NextQuery, histVars
<1>8. CASE UNCHANGED vars
  BY <1>2, <1>8 DEF vars, histVars
<1>9. CASE \/ \E k \in Keys : Post(k) \/ Swipe(k)
           \/ \E m \in relays : Enter(m)
           \/ \E t \in Sends : Other(t)
           \/ \E h \in Handlers : Connect(h)
           \/ Receive \/ LinkEnds
           \/ \E d \in Devices : Reinstall(d)
  BY <1>2, <1>9 DEF Post, Swipe, Enter, Other, Connect, Receive, LinkEnds, Reinstall, histVars
<1> QED BY <1>5, <1>6, <1>7, <1>8, <1>9 DEF Next

\* Of a device that was removed over REST, or unpaired itself, no row of any
\* table comes back before its next hello, however its link, the events already
\* received and the requests under way are ordered.
THEOREM RemovalIsFinal == Spec => []RemovedStaysGone
<1>1. Init => RemovedStaysGone
  BY DEF Init, RemovedStaysGone
<1> QED BY <1>1, CenterTypesInvariant, RemovedStep, PTL DEF Spec
-----------------------------------------------------------------------------
\* While hellos under two device ids have not overlapped: those between the two
\* passes of upsert_device bring the same device id, ...
Writing(h) == conn[h].stage = "write"

OneRow == \A a, b \in rows : a.hw # None /\ a.hw = b.hw => a = b
OneId == \A g, h \in Handlers : Writing(g) /\ Writing(h) => conn[g].msg.dev = conn[h].msg.dev

\* ... what a first pass has found is still right, ...
StillRight(h) ==
    LET m == conn[h].msg IN
    Writing(h) =>
        IF conn[h].found = 0 THEN m.hw # None => \A row \in rows : row.hw = m.hw => row.dev = m.dev
        ELSE m.hw # None /\ \A row \in rows : row.id = conn[h].found => row.hw = m.hw

\* ... and there, unless it was removed; ...
StillThere(h) ==
    Writing(h) /\ conn[h].found # 0 /\ h \notin unowed => \E row \in rows : row.id = conn[h].found

\* ... a hello with an older device id takes no row from a link of the present one, ...
Undisputed(h) ==
    Writing(h) /\ conn[h].msg.dev # phone.id => \A g \in Handlers \ {h} : conn[g].holder # phone.id

\* ... which has its row, or one that is held.
Served(h) == h \notin unowed /\ conn[h].holder = phone.id => HasRow(phone.id) \/ Stuck

OneRowInv ==
    ~raced => /\ OneRow /\ OneId
              /\ \A h \in Handlers : StillRight(h) /\ StillThere(h) /\ Undisputed(h) /\ Served(h)

\* Rows of the other tables go only with their device.
ChildrenStay == \A d \in Devices : Children(d) => Children(d)'

LEMMA ChildrenKept ==
    ASSUME StoreOK,
           notes' = notes \/ \E d, k : MarkRead(d, k) \/ InsertNotification(d, k),
           sms \subseteq sms',
           calls' = calls \/ \E d, c : InsertCall(d, c)
    PROVE  ChildrenStay
<1> SUFFICES ASSUME NEW e \in Devices, Children(e) PROVE Children(e)'
  BY DEF ChildrenStay
<1>1. ASSUME NEW k \in Keys, notes[<<e, k>>] # "none" PROVE notes'[<<e, k>>] # "none"
  <2>1. <<e, k>> \in Slots
    BY DEF Slots
  <2>2. ASSUME NEW d, NEW j, MarkRead(d, j) PROVE notes'[<<e, k>>] # "none"
    BY <1>1, <2>1, <2>2 DEF MarkRead, StoreOK
  <2>3. ASSUME NEW d, NEW j, InsertNotification(d, j) PROVE notes'[<<e, k>>] # "none"
    BY <1>1, <2>1, <2>3 DEF InsertNotification, StoreOK
  <2> QED BY <1>1, <2>2, <2>3
<1>2. ASSUME NEW c \in Kinds, calls[<<e, c>>] > 0 PROVE calls'[<<e, c>>] > 0
  <2>1. <<e, c>> \in Devices \X Kinds /\ calls[<<e, c>>] \in Nat
    BY DEF StoreOK
  <2>2. ASSUME NEW d, NEW b, InsertCall(d, b) PROVE calls'[<<e, c>>] > 0
    <3>1. CASE calls' = [calls EXCEPT ![<<d, b>>] = @ + 1]
      <4>1. calls'[<<e, c>>] = calls[<<e, c>>] \/ calls'[<<e, c>>] = calls[<<e, c>>] + 1
        BY <2>1, <3>1 DEF StoreOK
      <4> QED BY <1>2, <2>1, <4>1
    <3> QED BY <1>2, <2>2, <3>1 DEF InsertCall
  <2> QED BY <1>2, <2>2
<1> QED BY <1>1, <1>2 DEF Children

\* A step that touches neither the devices nor the handlers that write them.
LEMMA Undisturbed ==
    ASSUME StoreOK, OneRowInv, UNCHANGED <<rows, raced>>, phone'.id = phone.id,
           ChildrenStay, unowed \subseteq unowed', None \notin Devices, phone.id \in Devices,
           \A h \in Handlers : /\ Writing(h)' => Writing(h) /\ conn'[h].msg = conn[h].msg
                                                 /\ conn'[h].found = conn[h].found
                               /\ conn'[h].holder \in {conn[h].holder, None}
    PROVE  OneRowInv'
<1> SUFFICES ASSUME ~raced PROVE OneRowInv'
  BY DEF OneRowInv
<1>1. HasRow(phone.id)' = HasRow(phone.id) /\ (Stuck => Stuck')
  BY DEF HasRow, Stuck, ChildrenStay, StoreOK
<1>2. OneRow' /\ OneId'
  BY DEF OneRowInv, OneRow, OneId
<1>3. ASSUME NEW h \in Handlers PROVE StillRight(h)' /\ StillThere(h)'
  BY DEF OneRowInv, StillRight, StillThere
<1>4. ASSUME NEW h \in Handlers PROVE Undisputed(h)'
  BY DEF OneRowInv, Undisputed
<1>5. ASSUME NEW h \in Handlers PROVE Served(h)'
  BY <1>1 DEF OneRowInv, Served
<1> QED BY <1>2, <1>3, <1>4, <1>5 DEF OneRowInv

\* A device is removed: no link that has begun to say hello is owed a row.
LEMMA DeviceRemoved ==
    ASSUME StoreOK, OneRowInv, NEW d \in Devices, DeleteDevice(d), Forget(d),
           UNCHANGED <<phone, conn, raced>>, None \notin Devices, phone.id \in Devices
    PROVE  OneRowInv'
<1> SUFFICES ASSUME ~raced PROVE OneRowInv'
  BY DEF OneRowInv
<1>1. rows' \subseteq rows
  BY DEF DeleteDevice
<1>2. OneRow' /\ OneId'
  BY <1>1 DEF OneRowInv, OneRow, OneId, Writing
<1>3. ASSUME NEW h \in Handlers PROVE StillRight(h)' /\ Undisputed(h)'
  BY <1>1 DEF OneRowInv, StillRight, Undisputed, Writing
<1>4. ASSUME NEW h \in Handlers PROVE StillThere(h)' /\ Served(h)'
  <2>1. CASE HasRow(d)
    BY <2>1 DEF Forget, StillThere, Served, Writing
  <2>2. CASE ~HasRow(d)
    <3>1. rows' = rows /\ unowed' = unowed /\ \A row \in rows : row.dev # d
      BY <2>2 DEF Forget, DeleteDevice, HasRow
    <3>2. ASSUME NEW e \in Devices, e # d, Children(e) PROVE Children(e)'
      <4>1. \A k \in Keys : notes'[<<e, k>>] = notes[<<e, k>>]
        BY <3>2 DEF DeleteDevice, Slots
      <4>2. \A c \in Kinds : calls'[<<e, c>>] = calls[<<e, c>>]
        BY <3>2 DEF DeleteDevice
      <4>3. \A s \in sms : s.dev = e => s \in sms'
        BY <3>2 DEF DeleteDevice
      <4> QED BY <3>2, <4>1, <4>2, <4>3 DEF Children
    <3>3. Stuck => Stuck'
      BY <3>1, <3>2 DEF Stuck, StoreOK
    <3>4. HasRow(phone.id)' = HasRow(phone.id)
      BY <3>1 DEF HasRow
    <3> QED BY <3>1, <3>3, <3>4 DEF OneRowInv, StillThere, Served, Writing
  <2> QED BY <2>1, <2>2
<1> QED BY <1>2, <1>3, <1>4 DEF OneRowInv

\* What the second pass writes: a row keeps its id, one that changes is the
\* phone's and has its hardware id, and a new row has a new id.
LEMMA UpsertWrites ==
    ASSUME StoreOK, NEW h \in Handlers, HandlerOK(h), Writing(h), StillRight(h),
           \/ conn[h].found # 0 /\ UpdateDevice(conn[h].found, conn[h].msg)
           \/ conn[h].found = 0 /\ InsertDevice(conn[h].msg)
    PROVE  /\ \A row \in rows : \E new \in rows' : new.id = row.id
           /\ \A new \in rows' : new \in rows \/ new.dev = conn[h].msg.dev
           /\ \A new \in rows' : \/ new.id = lastRow + 1
                                 \/ \E row \in rows : /\ row.id = new.id
                                                      /\ new.hw = row.hw \/ new.hw = "hw"
<1> DEFINE m == conn[h].msg
           id == conn[h].found
<1>1. m.dev \in Devices /\ m.hw \in {"hw", None}
  BY DEF HandlerOK, Messages, Writing
<1>2. id # 0 => m.hw = "hw"
  BY <1>1 DEF StillRight
<1> HIDE DEF m, id
<1>3. CASE id # 0 /\ UpdateDevice(id, m)
  <2> DEFINE old == {row \in rows : row.id = id}
             new == {[id |-> row.id, dev |-> m.dev, hw |-> m.hw] : row \in old}
  <2>1. CASE rows' = rows
    BY <2>1
  <2>2. CASE rows' = (rows \ old) \cup new
    <3>1. ASSUME NEW row \in old PROVE \E a \in new : a.id = row.id
      <4>1. [id |-> row.id, dev |-> m.dev, hw |-> m.hw] \in new
        OBVIOUS
      <4> QED BY <4>1
    <3>2. \A a \in new : a.dev = m.dev /\ a.hw = "hw" /\ \E row \in rows : row.id = a.id
      BY <1>2, <1>3
    <3> HIDE DEF old, new
    <3> QED BY <2>2, <3>1, <3>2 DEF m
  <2> QED BY <1>3, <2>1, <2>2 DEF UpdateDevice
<1>4. CASE id = 0 /\ InsertDevice(m)
  <2>1. CASE HasRow(m.dev)
    <3> DEFINE F(row) == IF row.dev = m.dev /\ m.hw # None THEN [row EXCEPT !.hw = m.hw] ELSE row
    <3>1. rows' = {F(row) : row \in rows}
      BY <1>4, <2>1 DEF InsertDevice
    <3>2. ASSUME NEW row \in rows
          PROVE  /\ F(row).id = row.id /\ F(row).dev = row.dev
                 /\ F(row) = row \/ (row.dev = m.dev /\ F(row).hw = "hw")
                 /\ F(row).hw = row.hw \/ F(row).hw = "hw"
      BY <1>1, <3>2 DEF StoreOK
    <3> HIDE DEF F
    <3>3. \A row \in rows : \E new \in rows' : new.id = row.id
      BY <3>1, <3>2
    <3>4. ASSUME NEW new \in rows'
          PROVE  /\ new \in rows \/ new.dev = m.dev
                 /\ \E row \in rows : row.id = new.id /\ (new.hw = row.hw \/ new.hw = "hw")
      <4>1. PICK row \in rows : new = F(row)
        BY <3>1
      <4> QED BY <3>2, <4>1
    <3> QED BY <3>3, <3>4 DEF m
  <2>2. CASE ~HasRow(m.dev)
    <3> DEFINE new == [id |-> lastRow + 1, dev |-> m.dev, hw |-> m.hw]
    <3>1. rows' = rows \cup {new} /\ new.dev = m.dev /\ new.id = lastRow + 1
      BY <1>4, <2>2 DEF InsertDevice
    <3> HIDE DEF new
    <3> QED BY <3>1 DEF m
  <2> QED BY <2>1, <2>2
<1> QED BY <1>3, <1>4 DEF m, id

\* The second pass gives the phone its row, or finds the old one held, or the
\* row gone.
LEMMA UpsertServes ==
    ASSUME StoreOK, NEW h \in Handlers, HandlerOK(h), Writing(h), StillRight(h), StillThere(h),
           UNCHANGED <<notes, sms, calls>>,
           \/ conn[h].found # 0 /\ UpdateDevice(conn[h].found, conn[h].msg)
           \/ conn[h].found = 0 /\ InsertDevice(conn[h].msg)
    PROVE  \/ \E row \in rows' : row.dev = conn[h].msg.dev
           \/ Stuck'
           \/ rows' = rows /\ h \in unowed
<1> DEFINE m == conn[h].msg
           id == conn[h].found
<1>0. id # 0 => m.hw # None /\ \A row \in rows : row.id = id => row.hw = m.hw
  BY DEF StillRight
<1>1. id # 0 => h \in unowed \/ \E row \in rows : row.id = id
  BY DEF StillThere
<1>2. \A d : Children(d)' = Children(d)
  BY DEF Children
<1> SUFFICES \/ \E row \in rows' : row.dev = m.dev
             \/ Stuck'
             \/ rows' = rows /\ h \in unowed
  OBVIOUS
<1>5. \/ id # 0 /\ UpdateDevice(id, m)
      \/ id = 0 /\ InsertDevice(m)
  OBVIOUS
<1> HIDE DEF m, id
<1>3. CASE id # 0 /\ UpdateDevice(id, m)
  <2> DEFINE old == {row \in rows : row.id = id}
             new == {[id |-> row.id, dev |-> m.dev, hw |-> m.hw] : row \in old}
  <2>1. CASE /\ \E row \in old : row.dev # m.dev /\ (Children(row.dev) \/ HasRow(m.dev))
             /\ rows' = rows
    <3>1. PICK row \in old : Children(row.dev) \/ HasRow(m.dev)
      BY <2>1
    <3>2. CASE Children(row.dev)
      BY <1>0, <1>2, <1>3, <2>1, <3>2 DEF Stuck
    <3>3. CASE HasRow(m.dev)
      BY <2>1, <3>3 DEF HasRow
    <3> QED BY <3>1, <3>2, <3>3
  <2>2. CASE rows' = (rows \ old) \cup new
    <3>1. CASE old = {}
      <4>1. new = {} /\ rows \ old = rows
        BY <3>1
      <4>2. h \in unowed
        BY <1>1, <1>3, <3>1
      <4> QED BY <2>2, <4>1, <4>2
    <3>2. CASE old # {}
      <4>1. PICK row \in old : TRUE
        BY <3>2
      <4> DEFINE a == [id |-> row.id, dev |-> m.dev, hw |-> m.hw]
      <4>2. a \in new /\ a.dev = m.dev
        BY <4>1
      <4> HIDE DEF old, new, a
      <4> QED BY <2>2, <4>2
    <3> QED BY <3>1, <3>2
  <2> QED BY <1>3, <2>1, <2>2 DEF UpdateDevice
<1>4. CASE id = 0 /\ InsertDevice(m)
  <2>1. CASE HasRow(m.dev)
    <3> DEFINE F(row) == IF row.dev = m.dev /\ m.hw # None THEN [row EXCEPT !.hw = m.hw] ELSE row
    <3>1. rows' = {F(row) : row \in rows}
      BY <1>4, <2>1 DEF InsertDevice
    <3>2. PICK row \in rows : row.dev = m.dev
      BY <2>1 DEF HasRow
    <3>3. F(row).dev = m.dev
      BY <3>2 DEF StoreOK
    <3> HIDE DEF F
    <3>4. \E new \in rows' : new.dev = m.dev
      BY <3>1, <3>2, <3>3
    <3> QED BY <3>4
  <2>2. CASE ~HasRow(m.dev)
    <3> DEFINE new == [id |-> lastRow + 1, dev |-> m.dev, hw |-> m.hw]
    <3>1. rows' = rows \cup {new} /\ new.dev = m.dev
      BY <1>4, <2>2 DEF InsertDevice
    <3> HIDE DEF new
    <3> QED BY <3>1
  <2> QED BY <2>1, <2>2
<1> QED BY <1>3, <1>4, <1>5

\* The second pass keeps one row for each hardware id.
LEMMA UpsertOne ==
    ASSUME StoreOK, NEW h \in Handlers, HandlerOK(h), Writing(h), StillRight(h), OneRow,
           \/ conn[h].found # 0 /\ UpdateDevice(conn[h].found, conn[h].msg)
           \/ conn[h].found = 0 /\ InsertDevice(conn[h].msg)
    PROVE  OneRow'
<1> DEFINE m == conn[h].msg
           id == conn[h].found
<1>1. m.dev \in Devices /\ m.hw \in {"hw", None}
  BY DEF HandlerOK, Messages, Writing
<1>2. IF id = 0 THEN m.hw # None => \A row \in rows : row.hw = m.hw => row.dev = m.dev
      ELSE m.hw # None /\ \A row \in rows : row.id = id => row.hw = m.hw
  BY DEF StillRight
<1> HIDE DEF m, id
<1> USE DEF OneRow
<1>3. CASE id # 0 /\ UpdateDevice(id, m)
  <2> DEFINE old == {row \in rows : row.id = id}
             new == {[id |-> row.id, dev |-> m.dev, hw |-> m.hw] : row \in old}
  <2>1. CASE rows' = rows
    BY <2>1
  <2>2. CASE rows' = (rows \ old) \cup new
    <3>1. \A a, b \in new : a = b
      BY DEF StoreOK
    <3>2. \A a \in new : a.hw = m.hw /\ \E b \in old : b \in rows /\ b.hw = m.hw
      BY <1>2, <1>3
    <3>3. \A a \in new, b \in rows \ old : b.hw # a.hw
      BY <1>2, <1>3, <3>2
    <3> HIDE DEF old, new
    <3> QED BY <2>2, <3>1, <3>3
  <2> QED BY <1>3, <2>1, <2>2 DEF UpdateDevice
<1>4. CASE id = 0 /\ InsertDevice(m)
  <2>1. CASE HasRow(m.dev)
    <3> DEFINE F(row) == IF row.dev = m.dev /\ m.hw # None THEN [row EXCEPT !.hw = m.hw] ELSE row
    <3>1. rows' = {F(row) : row \in rows}
      BY <1>4, <2>1 DEF InsertDevice
    <3>2. ASSUME NEW a \in rows, NEW b \in rows, F(a).hw # None, F(a).hw = F(b).hw PROVE F(a) = F(b)
      <4>1. CASE a.dev = m.dev /\ m.hw # None
        <5>1. F(a).hw = m.hw
          BY <4>1 DEF StoreOK
        <5>2. b.dev = m.dev
          BY <1>2, <1>4, <3>2, <4>1, <5>1
        <5> QED BY <4>1, <5>2 DEF StoreOK
      <4>2. CASE b.dev = m.dev /\ m.hw # None
        <5>1. F(b).hw = m.hw
          BY <4>2 DEF StoreOK
        <5>2. a.dev = m.dev
          BY <1>2, <1>4, <3>2, <4>2, <5>1
        <5> QED BY <4>2, <5>2 DEF StoreOK
      <4>3. CASE ~(a.dev = m.dev /\ m.hw # None) /\ ~(b.dev = m.dev /\ m.hw # None)
        BY <3>2, <4>3
      <4> QED BY <4>1, <4>2, <4>3
    <3> HIDE DEF F
    <3> QED BY <3>1, <3>2
  <2>2. CASE ~HasRow(m.dev)
    <3> DEFINE new == [id |-> lastRow + 1, dev |-> m.dev, hw |-> m.hw]
    <3>1. rows' = rows \cup {new} /\ new.hw = m.hw
      BY <1>4, <2>2 DEF InsertDevice
    <3>2. m.hw # None => \A row \in rows : row.hw # m.hw
      BY <1>2, <1>4, <2>2 DEF HasRow
    <3> HIDE DEF new
    <3> QED BY <3>1, <3>2
  <2> QED BY <2>1, <2>2
<1> QED BY <1>3, <1>4 DEF m, id

\* The first pass: what it finds is right, and no other device id is being
\* written or has been written for the phone as it is now.
LEMMA HelloRead ==
    ASSUME CenterTypes, OneRowInv, NEW h \in Handlers, ReadHello(h)
    PROVE  OneRowInv'
<1> USE DEF CenterTypes, Writing
<1> DEFINE m == Head(inbox[h])
<1>1. PICK found \in Found(m) : conn' = [conn EXCEPT ![h] = At("write", @.holder, found, m)]
  BY DEF ReadHello
<1>2. raced' = (raced \/ Overlaps(h, m)) /\ UNCHANGED <<phone, rows, notes, sms, calls, unowed>>
  BY DEF ReadHello, phoneVars, dbVars
<1>3. /\ found = 0 => m.hw = None \/ \A row \in rows : row.hw # m.hw
      /\ found # 0 => \E row \in rows : row.id = found /\ row.hw = m.hw /\ m.hw # None
  BY FindsRow DEF RowOf
<1> HIDE DEF m
<1> DEFINE c == At("write", conn[h].holder, found, m)
<1>4. c.stage = "write" /\ c.holder = conn[h].holder /\ c.found = found /\ c.msg = m
  BY DEF At
<1>5. conn' = [conn EXCEPT ![h] = c]
  BY <1>1
<1> HIDE DEF c
<1>6. conn'[h] = c /\ \A g \in Handlers \ {h} : conn'[g] = conn[g]
  BY <1>5 DEF LinksOK
<1> SUFFICES ASSUME ~raced' PROVE OneRowInv'
  BY DEF OneRowInv
<1>7. /\ ~raced
      /\ \A g \in Handlers \ {h} : conn[g].stage = "write" => conn[g].msg.dev = m.dev
      /\ phone.id # m.dev => \A g \in Handlers \ {h} : conn[g].holder # phone.id
  BY <1>2 DEF Overlaps
<1>8. OneRow' /\ OneId'
  BY <1>2, <1>4, <1>6, <1>7 DEF OneRowInv, OneRow, OneId
<1>9. ASSUME NEW g \in Handlers PROVE StillRight(g)' /\ StillThere(g)'
  <2>1. CASE g = h
    <3>1. found # 0 => \A row \in rows : row.id = found => row.hw = m.hw
      BY <1>3 DEF StoreOK
    <3> QED BY <1>2, <1>3, <1>4, <1>6, <2>1, <3>1 DEF StillRight, StillThere
  <2>2. CASE g # h
    BY <1>2, <1>6, <1>7, <2>2 DEF OneRowInv, StillRight, StillThere
  <2> QED BY <2>1, <2>2
<1>10. ASSUME NEW g \in Handlers PROVE Undisputed(g)'
  <2>1. \A f \in Handlers : conn'[f].holder = conn[f].holder
    BY <1>4, <1>6
  <2>2. CASE g = h
    BY <1>2, <1>4, <1>6, <1>7, <2>1, <2>2 DEF Undisputed
  <2>3. CASE g # h
    BY <1>2, <1>6, <1>7, <2>1, <2>3 DEF OneRowInv, Undisputed
  <2> QED BY <2>2, <2>3
<1>11. ASSUME NEW g \in Handlers PROVE Served(g)'
  <2>1. conn'[g].holder = conn[g].holder
    BY <1>4, <1>6
  <2>2. HasRow(phone.id)' = HasRow(phone.id) /\ Stuck' = Stuck
    BY <1>2 DEF HasRow, Stuck, Children
  <2> QED BY <1>2, <1>7, <2>1, <2>2 DEF OneRowInv, Served
<1> QED BY <1>8, <1>9, <1>10, <1>11 DEF OneRowInv

\* The second pass, done or failed.
LEMMA HelloWritten ==
    ASSUME CenterTypes, OneRowInv, NEW h \in Handlers, EnterDevice(h)
    PROVE  OneRowInv'
<1> USE DEF CenterTypes
<1> DEFINE m == conn[h].msg
           c == At("idle", m.dev, 0, NoMsg)
           Written == \/ conn[h].found # 0 /\ UpdateDevice(conn[h].found, conn[h].msg)
                      \/ conn[h].found = 0 /\ InsertDevice(conn[h].msg)
<1>1. c.stage = "idle" /\ c.holder = m.dev
  BY DEF At
<1>2. /\ conn' = [conn EXCEPT ![h] = c] /\ Writing(h)
      /\ UNCHANGED <<phone, notes, sms, calls, raced>>
  BY DEF EnterDevice, phoneVars, Writing
<1>3. \/ Written /\ unowed' = unowed
      \/ rows' = rows /\ lastRow' = lastRow /\ unowed' = unowed \cup {h}
  BY DEF EnterDevice
<1> HIDE DEF c
<1>4. conn'[h] = c /\ \A g \in Handlers \ {h} : conn'[g] = conn[g]
  BY <1>2 DEF LinksOK
<1> SUFFICES ASSUME ~raced PROVE OneRowInv'
  BY <1>2 DEF OneRowInv
<1>5. /\ HandlerOK(h) /\ StillRight(h) /\ StillThere(h) /\ Undisputed(h) /\ OneRow
      /\ \A g \in Handlers : Writing(g) => conn[g].msg.dev = m.dev
  BY <1>2 DEF OneRowInv, OneId, LinksOK
<1>6. OneRow'
  <2>1. CASE Written
    BY <1>2, <1>5, <2>1, UpsertOne
  <2>2. CASE rows' = rows
    BY <1>5, <2>2 DEF OneRow
  <2> QED BY <1>3, <2>1, <2>2
<1>7. \A g \in Handlers : Writing(g)' => g # h /\ Writing(g) /\ conn'[g] = conn[g]
  BY <1>1, <1>4 DEF Writing
<1>8. OneId'
  BY <1>7 DEF OneRowInv, OneId
<1>9. /\ \A row \in rows : \E new \in rows' : new.id = row.id
      /\ \A new \in rows' : new \in rows \/ new.dev = m.dev
      /\ \A new \in rows' : \/ new.id = lastRow + 1
                            \/ \E row \in rows : row.id = new.id /\ (new.hw = row.hw \/ new.hw = "hw")
  <2>1. CASE Written
    BY <1>2, <1>5, <2>1, UpsertWrites
  <2>2. CASE rows' = rows
    BY <2>2
  <2> QED BY <1>3, <2>1, <2>2
<1>10. ASSUME NEW g \in Handlers PROVE StillRight(g)' /\ StillThere(g)'
  <2> SUFFICES ASSUME Writing(g)' PROVE StillRight(g)' /\ StillThere(g)'
    BY DEF StillRight, StillThere
  <2>1. g # h /\ Writing(g) /\ conn'[g] = conn[g] /\ conn[g].msg.dev = m.dev
    BY <1>5, <1>7
  <2>2. StillRight(g) /\ StillThere(g)
    BY DEF OneRowInv
  <2>3. /\ conn[g].found \in Nat /\ conn[g].found <= lastRow /\ lastRow \in Nat
        /\ conn[g].msg.hw \in {"hw", None}
    BY <2>1 DEF LinksOK, FoundOK, StoreOK, HandlerOK, Messages, Writing
  <2>4. ASSUME conn[g].found = 0, conn[g].msg.hw # None, NEW row \in rows', row.hw = conn[g].msg.hw
        PROVE  row.dev = conn[g].msg.dev
    BY <1>9, <2>1, <2>2, <2>4 DEF StillRight
  <2>5. ASSUME conn[g].found # 0
        PROVE  conn[g].msg.hw # None /\ \A row \in rows' : row.id = conn[g].found => row.hw = conn[g].msg.hw
    <3>1. conn[g].msg.hw = "hw" /\ \A row \in rows : row.id = conn[g].found => row.hw = "hw"
      BY <2>1, <2>2, <2>3, <2>5 DEF StillRight
    <3>2. conn[g].msg.hw # None
      BY <2>1, <2>2, <2>5 DEF StillRight
    <3>3. conn[g].found # lastRow + 1
      BY <2>3
    <3>4. ASSUME NEW new \in rows', new.id = conn[g].found PROVE new.hw = "hw"
      <4>1. PICK row \in rows : row.id = new.id /\ (new.hw = row.hw \/ new.hw = "hw")
        BY <1>9, <3>3, <3>4
      <4> QED BY <3>1, <3>4, <4>1
    <3> QED BY <3>1, <3>2, <3>4
  <2>6. ASSUME conn[g].found # 0, g \notin unowed' PROVE \E row \in rows' : row.id = conn[g].found
    <3>1. g \notin unowed
      BY <1>3, <2>6
    <3>2. PICK row \in rows : row.id = conn[g].found
      BY <2>1, <2>2, <2>6, <3>1 DEF StillThere
    <3> QED BY <1>9, <3>2
  <2> QED BY <2>1, <2>4, <2>5, <2>6 DEF StillRight, StillThere
<1>11. ASSUME NEW g \in Handlers PROVE Undisputed(g)'
  <2> SUFFICES ASSUME Writing(g)', conn'[g].msg.dev # phone'.id, NEW f \in Handlers \ {g}
               PROVE  conn'[f].holder # phone'.id
    BY DEF Undisputed
  <2>1. Writing(g) /\ conn[g].msg.dev = m.dev /\ conn[g].msg.dev # phone.id /\ phone'.id = phone.id
    BY <1>2, <1>5, <1>7
  <2>2. CASE f = h
    BY <1>1, <1>4, <2>1, <2>2
  <2>3. CASE f # h
    BY <1>4, <2>1, <2>3 DEF OneRowInv, Undisputed
  <2> QED BY <2>2, <2>3
<1>12. ASSUME NEW g \in Handlers PROVE Served(g)'
  <2> SUFFICES ASSUME g \notin unowed', conn'[g].holder = phone'.id
               PROVE  HasRow(phone.id)' \/ Stuck'
    BY <1>2 DEF Served
  <2>1. g \notin unowed /\ phone'.id = phone.id
    BY <1>2, <1>3
  <2>2. CASE m.dev # phone.id
    BY <1>1, <1>2, <1>4, <1>5, <2>1, <2>2 DEF Undisputed
  <2>3. CASE m.dev = phone.id /\ rows' = rows /\ h \in unowed'
    <3>1. conn[g].holder = phone.id
      BY <1>4, <2>1, <2>3
    <3>2. HasRow(phone.id) \/ Stuck
      BY <2>1, <3>1 DEF OneRowInv, Served
    <3> QED BY <1>2, <2>3, <3>2 DEF HasRow, Stuck, Children
  <2>4. CASE m.dev = phone.id /\ Written /\ unowed' = unowed
    <3>1. \/ \E row \in rows' : row.dev = m.dev
          \/ Stuck'
          \/ rows' = rows /\ h \in unowed
      BY <1>2, <1>5, <2>4, UpsertServes
    <3> QED BY <2>1, <2>3, <2>4, <3>1 DEF HasRow
  <2> QED BY <1>3, <2>2, <2>3, <2>4
<1> QED BY <1>6, <1>8, <1>10, <1>11, <1>12 DEF OneRowInv

\* A hello is stored in the row of its phone, or in a new one if the phone has
\* none, whatever the steps between its passes.
LEMMA OneRowStep == CenterTypes /\ OneRowInv /\ [Next]_vars => OneRowInv'
<1> SUFFICES ASSUME CenterTypes, OneRowInv, [Next]_vars PROVE OneRowInv'
  OBVIOUS
<1> USE DEF CenterTypes
<1>0. None \notin Devices /\ phone.id \in Devices /\ StoreOK
  BY CenterAssumption DEF CenterAssumption, PhoneOK
<1>1. ASSUME UNCHANGED <<rows, raced, unowed>>, phone'.id = phone.id,
             notes' = notes \/ \E d, k : MarkRead(d, k) \/ InsertNotification(d, k),
             sms \subseteq sms', calls' = calls \/ \E d, c : InsertCall(d, c),
             UNCHANGED conn \/ \E h \in Handlers : \E c :
                 /\ c.stage # "write" /\ c.holder \in {conn[h].holder, None}
                 /\ conn' = [conn EXCEPT ![h] = c]
      PROVE  OneRowInv'
  <2>1. \A g \in Handlers : /\ Writing(g)' => Writing(g) /\ conn'[g].msg = conn[g].msg
                                              /\ conn'[g].found = conn[g].found
                            /\ conn'[g].holder \in {conn[g].holder, None}
    BY <1>1 DEF LinksOK, Writing
  <2>2. ChildrenStay
    BY <1>0, <1>1, ChildrenKept
  <2> QED BY <1>0, <1>1, <2>1, <2>2, Undisturbed
<1>2. ASSUME NEW h \in Handlers, Handle(h) PROVE OneRowInv'
  <2>1. ASSUME ReadHello(h) PROVE OneRowInv'
    BY <2>1, HelloRead
  <2>2. ASSUME EnterDevice(h) PROVE OneRowInv'
    BY <2>2, HelloWritten
  <2>3. ASSUME NEW stage, NEW holder, NEW m, stage # "write", holder \in {conn[h].holder, None},
               conn' = [conn EXCEPT ![h] = At(stage, holder, 0, m)]
        PROVE  \E g \in Handlers : \E c : /\ c.stage # "write" /\ c.holder \in {conn[g].holder, None}
                                      /\ conn' = [conn EXCEPT ![g] = c]
    <3>1. At(stage, holder, 0, m).stage = stage /\ At(stage, holder, 0, m).holder = holder
      BY DEF At
    <3> QED BY <2>3, <3>1
  <2>4. ASSUME Take(h)
        PROVE  UNCHANGED conn \/ \E g \in Handlers : \E c : /\ c.stage # "write"
                                                        /\ c.holder \in {conn[g].holder, None}
                                                        /\ conn' = [conn EXCEPT ![g] = c]
    BY <2>3, <2>4 DEF Take
  <2>5. ASSUME StoreNotification(h) PROVE OneRowInv'
    <3>1. notes' = notes \/ \E d, k : MarkRead(d, k) \/ InsertNotification(d, k)
      BY <2>5 DEF StoreNotification
    <3>2. UNCHANGED conn \/ Take(h)
      BY <2>5 DEF StoreNotification
    <3> QED BY <1>1, <2>4, <2>5, <3>1, <3>2 DEF StoreNotification, phoneVars
  <2>6. ASSUME StoreSms(h) PROVE OneRowInv'
    <3>1. sms \subseteq sms'
      BY <2>6 DEF StoreSms, InsertSms
    <3> QED BY <1>1, <2>4, <2>6, <3>1 DEF StoreSms, phoneVars
  <2>7. ASSUME StoreCall(h) PROVE OneRowInv'
    <3>1. calls' = calls \/ \E d, c : InsertCall(d, c)
      BY <2>7 DEF StoreCall
    <3> QED BY <1>1, <2>4, <2>7, <3>1 DEF StoreCall, phoneVars
  <2>8. ASSUME Unpair(h) PROVE OneRowInv'
    <3>1. Head(inbox[h]).dev \in Devices /\ Head(inbox[h]).type \notin Shaded
      BY <2>8, ReadsMessage DEF Unpair, Reading, Messages, Shaded
    <3>2. UNCHANGED <<conn, phone, raced>>
      BY <2>8, <3>1 DEF Unpair, Take, phoneVars
    <3>3. CASE DeleteDevice(Head(inbox[h]).dev) /\ Forget(Head(inbox[h]).dev)
      BY <1>0, <3>1, <3>2, <3>3, DeviceRemoved
    <3>4. CASE UNCHANGED <<rows, notes, sms, calls, unowed>>
      BY <1>1, <3>2, <3>4
    <3> QED BY <2>8, <3>3, <3>4 DEF Unpair
  <2>9. ASSUME Publish(h) PROVE OneRowInv'
    <3>1. conn' = [conn EXCEPT ![h] = At("idle", conn[h].holder, 0, NoMsg)]
      BY <2>9 DEF Publish
    <3> QED BY <1>1, <2>3, <2>9, <3>1 DEF Publish, phoneVars, dbVars, histVars
  <2>10. ASSUME Close(h) PROVE OneRowInv'
    <3>1. conn' = [conn EXCEPT ![h] = At("done", None, 0, NoMsg)]
      BY <2>10 DEF Close
    <3> QED BY <1>1, <2>3, <2>10, <3>1 DEF Close, phoneVars, dbVars, histVars
  <2> QED BY <1>2, <2>1, <2>2, <2>5, <2>6, <2>7, <2>8, <2>9, <2>10 DEF Handle
<1>3. ASSUME NEW h \in Handlers, Connect(h) PROVE OneRowInv'
  <2>1. \A g \in Handlers : /\ Writing(g)' => Writing(g) /\ conn'[g].msg = conn[g].msg
                                              /\ conn'[g].found = conn[g].found
                            /\ conn'[g].holder \in {conn[g].holder, None}
    BY <1>3 DEF Connect, LinksOK, Writing
  <2>2. phone'.id = phone.id /\ UNCHANGED <<rows, notes, sms, calls, raced, unowed>>
    BY <1>3 DEF Connect, PhoneOK, dbVars, histVars
  <2>3. ChildrenStay
    BY <1>0, <2>2, ChildrenKept
  <2> QED BY <1>0, <2>1, <2>2, <2>3, Undisturbed
<1>4. ASSUME NEW r \in Requests, Serve(r) PROVE OneRowInv'
  <2>1. ASSUME MarkListed(r) PROVE OneRowInv'
    <3>1. notes' = notes \/ \E d, k : MarkRead(d, k)
      BY <2>1 DEF MarkListed
    <3> QED BY <1>1, <2>1, <3>1 DEF MarkListed, phoneVars, linkVars, histVars
  <2>2. ASSUME RecordSms(r) PROVE OneRowInv'
    <3>1. sms \subseteq sms'
      BY <2>2 DEF RecordSms, InsertSms
    <3> QED BY <1>1, <2>2, <3>1 DEF RecordSms, phoneVars, linkVars, histVars
  <2>3. ASSUME Delete(r) PROVE OneRowInv'
    <3>1. req[r].dev \in Devices
      BY <2>3 DEF Delete, RequestsOK, RequestOK
    <3> QED BY <1>0, <2>3, <3>1, DeviceRemoved DEF Delete, phoneVars, linkVars
  <2>4. ASSUME TrySend(r) \/ NextQuery(r) PROVE OneRowInv'
    BY <1>1, <2>4 DEF TrySend, NextQuery, phoneVars, linkVars, dbVars, histVars
  <2> QED BY <1>4, <2>1, <2>2, <2>3, <2>4 DEF Serve
<1>5. ASSUME NEW r \in Requests, NEW d \in Devices \cup {None}, Ask(r, d) PROVE OneRowInv'
  <2>1. ASSUME NEW k \in Keys, MarkOne(r, d, k) \/ Dismiss(r, d, k) PROVE OneRowInv'
    <3>1. \E e, j : MarkRead(e, j)
      BY <2>1 DEF MarkOne, Dismiss
    <3> QED BY <1>1, <2>1, <3>1 DEF MarkOne, Dismiss, phoneVars, linkVars, histVars
  <2> QED BY <1>1, <1>5, <2>1 DEF Ask, ListUnread, Unregister, SendSms, Dial, FirstQuery,
             phoneVars, linkVars, dbVars, histVars
<1>6. ASSUME NEW d \in Devices, Reinstall(d) PROVE OneRowInv'
  <2>1. /\ phone'.id = d /\ UNCHANGED <<conn, rows, raced, unowed>>
        /\ \A h \in Handlers : conn[h].holder # d
    BY <1>6 DEF Reinstall, linkVars, dbVars
  <2>2. \A h \in Handlers : Undisputed(h)' /\ Served(h)'
    BY <2>1 DEF Undisputed, Served
  <2> QED BY <2>1, <2>2 DEF OneRowInv, OneRow, OneId, StillRight, StillThere, Writing
<1>7. CASE UNCHANGED vars
  BY <1>1, <1>7 DEF vars, phoneVars, linkVars, dbVars, histVars
<1>8. CASE \/ \E k \in Keys : Post(k) \/ Swipe(k)
           \/ \E m \in relays : Enter(m)
           \/ \E t \in Sends : Other(t)
           \/ Receive
  BY <1>1, <1>8 DEF Post, Swipe, Enter, Other, Receive, linkVars, dbVars, histVars
<1>9. CASE LinkEnds
  BY <1>1, <1>9 DEF LinkEnds, PhoneOK, dbVars
<1> QED BY <1>2, <1>3, <1>4, <1>5, <1>6, <1>7, <1>8, <1>9 DEF Next

\* Whatever hellos, frames and removals do between the passes of upsert_device, a
\* phone that keeps its hardware id has one row at most in devices, and once a
\* hello of the phone as it is now has been handled, it has a row under its
\* device id, or rows of other tables hold its row under an older one; as long
\* as hellos under two device ids do not overlap.
THEOREM OnePhoneOneRow == Spec => []OneRowPerPhone
<1>1. Init => OneRowInv
  BY CenterAssumption DEF CenterAssumption, Init, OneRowInv, OneRow, OneId, StillRight, StillThere,
     Undisputed, Served, Writing, NoConn, At
<1>2. OneRowInv => OneRowPerPhone
  BY DEF OneRowInv, OneRow, Served, OneRowPerPhone
<1> QED BY <1>1, <1>2, CenterTypesInvariant, OneRowStep, PTL DEF Spec

\* What the code does not achieve (pool.rs:107-111): as long as rows of other
\* tables hang on the device id a row has, or another row has the new one, no
\* hello can give it a new device id, and the row stays as it is.
THEOREM HeldRowKeepsItsId ==
    ASSUME NEW h \in Handlers, conn[h].found # 0, EnterDevice(h),
           NEW row \in rows, row.id = conn[h].found, row.dev # conn[h].msg.dev,
           Children(row.dev) \/ HasRow(conn[h].msg.dev)
    PROVE  UNCHANGED rows
BY DEF EnterDevice, UpdateDevice
-----------------------------------------------------------------------------
\* What a request that reads has been told so far, given the notifications and
\* the messages there are: the first number is that of the notifications, or as
\* many as notifications_stats counts; the second is of some of them; the third
\* and the fourth are the messages and their conversations.
NotedIn(slots, d) == {s \in slots : d = None \/ s[1] = d}
TextsIn(texts, d) == {s \in texts : d = None \/ s.dev = d}
PeersIn(texts, d) == {s.peer : s \in TextsIn(texts, d)}

ToldSoFar(q, slots, texts) ==
    q.stage = "reading" =>
        /\ q.op \in {"stats", "dashboard"} /\ q.got \in Seq(Nat)
        /\ Len(q.got) >= 1 /\ Len(q.got) <= IF q.op = "stats" THEN 2 ELSE 4
        /\ q.got[1] = IF q.op = "stats" THEN Shortest(Cardinality(NotedIn(slots, q.dev)), StatsCap)
                                        ELSE Cardinality(NotedIn(slots, q.dev))
        /\ Len(q.got) >= 2 => q.got[2] <= Cardinality(NotedIn(slots, q.dev))
        /\ Len(q.got) >= 3 => q.got[3] = Cardinality(TextsIn(texts, q.dev))
        /\ Len(q.got) >= 4 => q.got[4] = Cardinality(PeersIn(texts, q.dev))

Noted == {s \in Slots : notes[s] # "none"}

\* The invariant behind NumbersAgree. The tables are finite whatever the
\* constants are, for every row was stored by a step.
Counts ==
    /\ IsFiniteSet(Noted) /\ IsFiniteSet(sms)
    /\ \A r \in Requests : ToldSoFar(req[r], Noted, sms)

\* What is counted is a number, and there are no more conversations than messages.
LEMMA Counted ==
    ASSUME NEW slots, NEW texts, NEW d, IsFiniteSet(slots), IsFiniteSet(texts)
    PROVE  /\ IsFiniteSet(NotedIn(slots, d)) /\ Cardinality(NotedIn(slots, d)) \in Nat
           /\ IsFiniteSet(TextsIn(texts, d)) /\ Cardinality(TextsIn(texts, d)) \in Nat
           /\ IsFiniteSet(PeersIn(texts, d)) /\ Cardinality(PeersIn(texts, d)) \in Nat
           /\ Cardinality(PeersIn(texts, d)) <= Cardinality(TextsIn(texts, d))
           /\ Cardinality(PeersIn(texts, d)) = 0 <=> Cardinality(TextsIn(texts, d)) = 0
<1>1. NotedIn(slots, d) \in SUBSET slots /\ TextsIn(texts, d) \in SUBSET texts
  BY DEF NotedIn, TextsIn
<1>2. IsFiniteSet(NotedIn(slots, d)) /\ IsFiniteSet(TextsIn(texts, d))
  BY <1>1, FS_Subset
<1> DEFINE f == [s \in TextsIn(texts, d) |-> s.peer]
<1>3. f \in Surjection(TextsIn(texts, d), PeersIn(texts, d))
  BY DEF PeersIn, Surjection
<1> HIDE DEF f
<1>4. /\ IsFiniteSet(PeersIn(texts, d))
      /\ Cardinality(PeersIn(texts, d)) <= Cardinality(TextsIn(texts, d))
  BY <1>2, <1>3, FS_Surjection
<1>5. PeersIn(texts, d) = {} <=> TextsIn(texts, d) = {}
  BY DEF PeersIn
<1> QED BY <1>2, <1>4, <1>5, FS_CardinalityType, FS_EmptySet

\* The queries count what is in the tables.
LEMMA QueriesCount ==
    ASSUME StoreOK, Counts, NEW d
    PROVE  /\ Stats(d)[1] = Shortest(Cardinality(NotedIn(Noted, d)), StatsCap) /\ Len(Stats(d)) = 3
           /\ Dashboard(d)[1] = Cardinality(NotedIn(Noted, d)) /\ Len(Dashboard(d)) = 5
           /\ Stats(d)[2] = Unread(d) /\ Dashboard(d)[2] = Unread(d)
           /\ Unread(d) \in Nat /\ Unread(d) <= Cardinality(NotedIn(Noted, d))
           /\ Dashboard(d)[3] = Cardinality(TextsIn(sms, d))
           /\ Dashboard(d)[4] = Cardinality(PeersIn(sms, d))
           /\ Shortest(Cardinality(NotedIn(Noted, d)), StatsCap) \in Nat
<1>1. Listed(d, {"unread", "read"}) = NotedIn(Noted, d)
  BY DEF Listed, NotedIn, Noted, StoreOK, Marks
<1>2. SmsOf(d) = TextsIn(sms, d) /\ Conversations(d) = PeersIn(sms, d)
  BY DEF SmsOf, TextsIn, Conversations, PeersIn
<1>3. Listed(d, {"unread"}) \in SUBSET NotedIn(Noted, d)
  BY DEF Listed, NotedIn, Noted
<1>4. IsFiniteSet(NotedIn(Noted, d)) /\ Cardinality(NotedIn(Noted, d)) \in Nat
  BY Counted DEF Counts
<1>5. Unread(d) \in Nat /\ Unread(d) <= Cardinality(NotedIn(Noted, d))
  BY <1>3, <1>4, FS_Subset, FS_CardinalityType DEF Unread
<1>6. Shortest(Cardinality(NotedIn(Noted, d)), StatsCap) \in Nat
  BY <1>4, CenterAssumption DEF Shortest, CenterAssumption
<1> QED BY <1>1, <1>2, <1>5, <1>6 DEF Stats, Dashboard

\* A step that stores or removes rows ends the requests that are reading.
LEMMA TornApart ==
    ASSUME RequestsOK, IsFiniteSet(Noted'), IsFiniteSet(sms'),
           req' = Torn \/ \E r \in Requests : req' = [Torn EXCEPT ![r] = Answered]
    PROVE  Counts'
<1>1. Answered.stage # "reading"
  BY DEF Answered, NewRequest
<1>2. \A r \in Requests : Torn[r].stage # "reading"
  BY DEF Torn, NewRequest
<1>3. \A r \in Requests : req'[r].stage # "reading"
  BY <1>1, <1>2, RequestTorn
<1> QED BY <1>3 DEF Counts, ToldSoFar

\* A step that leaves the notifications and the messages there are, and begins
\* or goes on with no request that reads, or does so with the right number.
LEMMA SameTables ==
    ASSUME RequestsOK, Counts, Noted' = Noted, sms' = sms,
           \/ req' = req
           \/ \E r \in Requests : \E q : /\ req' = [req EXCEPT ![r] = q]
                                         /\ q.stage = "reading" => ToldSoFar(q, Noted, sms)
    PROVE  Counts'
<1>1. CASE req' = req
  BY <1>1 DEF Counts
<1>2. ASSUME NEW r \in Requests, NEW q, req' = [req EXCEPT ![r] = q],
             q.stage = "reading" => ToldSoFar(q, Noted, sms)
      PROVE  Counts'
  <2>1. ToldSoFar(q, Noted, sms)
    BY <1>2 DEF ToldSoFar
  <2>2. \A p \in Requests : req'[p] = IF p = r THEN q ELSE req[p]
    BY <1>2 DEF RequestsOK
  <2>3. \A p \in Requests : ToldSoFar(req'[p], Noted, sms)
    BY <2>1, <2>2 DEF Counts
  <2> QED BY <2>3 DEF Counts
<1> QED BY <1>1, <1>2

\* Marking a notification read leaves its row there.
LEMMA MarkKeeps == ASSUME StoreOK, NEW d, NEW k, MarkRead(d, k) PROVE Noted' = Noted
<1>1. \A s \in Slots : notes'[s] = IF s = <<d, k>> THEN IF notes[s] = "none" THEN "none" ELSE "read"
                                                  ELSE notes[s]
  BY DEF MarkRead, StoreOK
<1> QED BY <1>1 DEF Noted

LEMMA CountsStep == CenterTypes /\ Counts /\ [Next]_vars => Counts'
<1> SUFFICES ASSUME CenterTypes, Counts, [Next]_vars PROVE Counts'
  OBVIOUS
<1>0. StoreOK /\ RequestsOK /\ IsFiniteSet(Noted) /\ IsFiniteSet(sms)
  BY DEF CenterTypes, Counts
<1>1. ASSUME UNCHANGED <<notes, sms, req>> PROVE Counts'
  BY <1>1 DEF Counts, Noted
<1>2. ASSUME NEW r \in Requests, UNCHANGED sms, Noted' = Noted, NEW q, To(r, q), q.stage # "reading"
      PROVE  Counts'
  BY <1>0, <1>2, SameTables DEF To
<1>3. ASSUME NEW d, NEW k, InsertNotification(d, k) PROVE IsFiniteSet(Noted')
  <2>1. Noted' \in SUBSET (Noted \cup {<<d, k>>})
    BY <1>0, <1>3 DEF Noted, InsertNotification, StoreOK
  <2> QED BY <1>0, <2>1, FS_AddElement, FS_Subset
<1>4. ASSUME NEW d, NEW id, NEW peer, InsertSms(d, id, peer) PROVE IsFiniteSet(sms')
  BY <1>0, <1>4, FS_AddElement DEF InsertSms
<1>5. ASSUME NEW d, DeleteDevice(d) PROVE IsFiniteSet(Noted') /\ IsFiniteSet(sms')
  <2>1. Noted' \in SUBSET Noted /\ sms' \in SUBSET sms
    BY <1>5 DEF DeleteDevice, Noted
  <2> QED BY <1>0, <2>1, FS_Subset
<1>6. ASSUME UNCHANGED notes PROVE Noted' = Noted
  BY <1>6 DEF Noted
<1>7. ASSUME NEW h \in Handlers, Handle(h) PROVE Counts'
  <2>1. ASSUME StoreNotification(h) PROVE Counts'
    <3>1. UNCHANGED sms
      BY <2>1 DEF StoreNotification
    <3>2. CASE UNCHANGED <<notes, req>>
      BY <1>1, <3>1, <3>2
    <3>3. CASE req' = Torn /\ \E d, k : InsertNotification(d, k)
      BY <1>0, <1>3, <3>1, <3>3, TornApart
    <3>4. CASE UNCHANGED req /\ \E d, k : MarkRead(d, k)
      BY <1>0, <3>1, <3>4, MarkKeeps, SameTables
    <3> QED BY <2>1, <3>2, <3>3, <3>4 DEF StoreNotification
  <2>2. ASSUME StoreSms(h) PROVE Counts'
    <3>1. CASE UNCHANGED <<sms, req>>
      BY <1>1, <2>2, <3>1 DEF StoreSms
    <3>2. CASE req' = Torn /\ \E d, id, peer : InsertSms(d, id, peer)
      BY <1>0, <1>4, <1>6, <2>2, <3>2, TornApart DEF StoreSms
    <3> QED BY <2>2, <3>1, <3>2 DEF StoreSms
  <2>3. ASSUME Unpair(h) PROVE Counts'
    <3>1. CASE UNCHANGED <<notes, sms, req>>
      BY <1>1, <3>1
    <3>2. CASE req' = Torn /\ \E d : DeleteDevice(d)
      BY <1>0, <1>5, <3>2, TornApart
    <3> QED BY <2>3, <3>1, <3>2 DEF Unpair
  <2> QED BY <1>1, <1>7, <2>1, <2>2, <2>3
          DEF Handle, ReadHello, EnterDevice, StoreCall, Publish, Close, dbVars
<1>8. ASSUME NEW r \in Requests, NEW d \in Devices \cup {None}, Ask(r, d) PROVE Counts'
  <2>1. ASSUME NEW k \in Keys, MarkOne(r, d, k) \/ Dismiss(r, d, k) PROVE Counts'
    <3>1. MarkRead(d, k) /\ UNCHANGED sms
      BY <2>1 DEF MarkOne, Dismiss
    <3>2. To(r, Answered) \/ To(r, [Asked("dismiss", d, "send") EXCEPT !.key = k])
      <4>1. CASE MarkOne(r, d, k)
        BY <4>1 DEF MarkOne
      <4>2. CASE Dismiss(r, d, k) /\ notes[<<d, k>>] = "none"
        BY <4>2 DEF Dismiss
      <4>3. CASE Dismiss(r, d, k) /\ notes[<<d, k>>] # "none"
        BY <4>3 DEF Dismiss
      <4> QED BY <2>1, <4>1, <4>2, <4>3
    <3>3. Noted' = Noted
      BY <1>0, <3>1, MarkKeeps
    <3>4. Answered.stage # "reading" /\ [Asked("dismiss", d, "send") EXCEPT !.key = k].stage # "reading"
      BY DEF Answered, NewRequest, Asked
    <3>5. ASSUME NEW q, To(r, q), q.stage # "reading" PROVE Counts'
      BY <1>2, <3>1, <3>3, <3>5
    <3> QED BY <3>2, <3>4, <3>5
  <2>2. ASSUME ListUnread(r, d) \/ SendSms(r, d) \/ Dial(r, d) \/ Unregister(r, d) PROVE Counts'
    <3>1. UNCHANGED <<notes, sms>>
      BY <2>2 DEF ListUnread, SendSms, Dial, Unregister, dbVars
    <3>2. \/ To(r, Answered)
          \/ To(r, [Asked("markAll", d, "marking") EXCEPT !.todo = Listed(d, {"unread"})])
          \/ \E op : To(r, Asked(op, d, "send")) \/ To(r, Asked(op, d, "delete"))
      <4>1. CASE ListUnread(r, d)
        BY <4>1 DEF ListUnread
      <4>2. CASE SendSms(r, d)
        BY <4>2 DEF SendSms
      <4>3. CASE Dial(r, d)
        BY <4>3 DEF Dial
      <4>4. CASE Unregister(r, d)
        BY <4>4 DEF Unregister
      <4> QED BY <2>2, <4>1, <4>2, <4>3, <4>4
    <3>3. /\ Answered.stage # "reading"
          /\ [Asked("markAll", d, "marking") EXCEPT !.todo = Listed(d, {"unread"})].stage # "reading"
          /\ \A op : Asked(op, d, "send").stage # "reading" /\ Asked(op, d, "delete").stage # "reading"
      BY DEF Answered, NewRequest, Asked
    <3>4. ASSUME NEW q, To(r, q), q.stage # "reading" PROVE Counts'
      BY <1>2, <1>6, <3>1, <3>4
    <3> QED BY <3>2, <3>3, <3>4
  <2>3. ASSUME NEW op \in AllOps, FirstQuery(r, op, d) PROVE Counts'
    <3> DEFINE first == Queries(op, d)[1]
               q == [Asked(op, d, "reading") EXCEPT !.got = <<first>>]
    <3>1. op \in {"stats", "dashboard"} /\ req' = [req EXCEPT ![r] = q] /\ UNCHANGED <<notes, sms>>
      BY <2>3 DEF FirstQuery, To, dbVars
    <3>2. /\ first \in Nat
          /\ first = IF op = "stats" THEN Shortest(Cardinality(NotedIn(Noted, d)), StatsCap)
                                     ELSE Cardinality(NotedIn(Noted, d))
      BY <1>0, QueriesCount, Counted DEF Queries
    <3> HIDE DEF first
    <3>3. q.op = op /\ q.dev = d /\ q.got = <<first>>
      BY DEF Asked
    <3>4. q.got \in Seq(Nat) /\ Len(q.got) = 1 /\ q.got[1] = first
      BY <3>2, <3>3
    <3> HIDE DEF q
    <3>5. ToldSoFar(q, Noted, sms)
      BY <3>1, <3>2, <3>3, <3>4 DEF ToldSoFar
    <3> QED BY <1>0, <1>6, <3>1, <3>5, SameTables
  <2> QED BY <1>8, <2>1, <2>2, <2>3 DEF Ask
<1>9. ASSUME NEW r \in Requests, Serve(r) PROVE Counts'
  <2>0. Answered.stage # "reading" /\ RequestOK(req[r])
    BY <1>0 DEF Answered, NewRequest, RequestsOK
  <2>1. ASSUME MarkListed(r) PROVE Counts'
    <3>1. /\ UNCHANGED sms
          /\ \/ To(r, Answered) /\ UNCHANGED notes
             \/ \E s : MarkRead(s[1], s[2]) /\ To(r, [req[r] EXCEPT !.todo = @ \ {s}])
      BY <2>1 DEF MarkListed
    <3>2. \A x : [req[r] EXCEPT !.todo = x].stage # "reading"
      BY <2>0, <2>1 DEF MarkListed, RequestOK
    <3>3. CASE To(r, Answered) /\ UNCHANGED notes
      BY <1>2, <1>6, <2>0, <3>1, <3>3
    <3>4. ASSUME NEW s, MarkRead(s[1], s[2]), To(r, [req[r] EXCEPT !.todo = @ \ {s}]) PROVE Counts'
      <4>1. Noted' = Noted
        BY <1>0, <3>4, MarkKeeps
      <4> QED BY <1>2, <3>1, <3>2, <3>4, <4>1
    <3> QED BY <3>1, <3>3, <3>4
  <2>2. ASSUME TrySend(r) PROVE Counts'
    <3>1. UNCHANGED <<notes, sms>>
      BY <2>2 DEF TrySend, dbVars
    <3>2. [req[r] EXCEPT !.stage = "record"].stage # "reading"
      BY <2>0 DEF RequestOK
    <3>3. \E q : To(r, q) /\ q.stage # "reading"
      BY <2>0, <2>2, <3>2 DEF TrySend
    <3> QED BY <1>2, <1>6, <3>1, <3>3
  <2>3. ASSUME RecordSms(r) PROVE Counts'
    <3>1. /\ \E d, id, peer : InsertSms(d, id, peer)
          /\ UNCHANGED notes /\ req' = [Torn EXCEPT ![r] = Answered]
      BY <2>3 DEF RecordSms
    <3> QED BY <1>0, <1>4, <1>6, <3>1, TornApart
  <2>4. ASSUME Delete(r) PROVE Counts'
    <3>1. (\E d : DeleteDevice(d)) /\ req' = [Torn EXCEPT ![r] = Answered]
      BY <2>4 DEF Delete
    <3> QED BY <1>0, <1>5, <3>1, TornApart
  <2>5. ASSUME NextQuery(r) PROVE Counts'
    <3> DEFINE p == req[r]
               n == Len(p.got) + 1
               all == Queries(p.op, p.dev)
               q == [p EXCEPT !.got = Append(@, all[n])]
    <3>1. p.stage = "reading" /\ ToldSoFar(p, Noted, sms) /\ UNCHANGED <<notes, sms>>
      BY <2>5 DEF NextQuery, Counts, dbVars
    <3>2. To(r, Answered) \/ (n # Len(all) /\ req' = [req EXCEPT ![r] = q])
      BY <2>5 DEF NextQuery, To
    <3>3. CASE To(r, Answered)
      BY <1>2, <1>6, <2>0, <3>1, <3>3
    <3>4. CASE n # Len(all) /\ req' = [req EXCEPT ![r] = q]
      <4>1. /\ p.op \in {"stats", "dashboard"} /\ p.got \in Seq(Nat) /\ n \in Nat
            /\ n >= 2 /\ n <= IF p.op = "stats" THEN 2 ELSE 4
        <5>1. Len(all) = IF p.op = "stats" THEN 3 ELSE 5
          BY <1>0, QueriesCount DEF Queries
        <5> HIDE DEF all
        <5> QED BY <3>1, <3>4, <5>1 DEF ToldSoFar
      <4>2. /\ all[n] \in Nat
            /\ n = 2 => all[n] <= Cardinality(NotedIn(Noted, p.dev))
            /\ n = 3 => all[n] = Cardinality(TextsIn(sms, p.dev))
            /\ n = 4 => all[n] = Cardinality(PeersIn(sms, p.dev))
        <5>1. n \in {2, 3, 4} /\ (n # 2 => p.op = "dashboard")
          BY <4>1
        <5>2. Cardinality(TextsIn(sms, p.dev)) \in Nat /\ Cardinality(PeersIn(sms, p.dev)) \in Nat
          BY <1>0, Counted
        <5> HIDE DEF n
        <5> QED BY <1>0, <4>1, <5>1, <5>2, QueriesCount DEF Queries
      <4> HIDE DEF all
      <4>3. /\ q.op = p.op /\ q.dev = p.dev /\ q.stage = p.stage
            /\ q.got = Append(p.got, all[n])
        BY <2>0 DEF RequestOK
      <4>4. /\ q.got \in Seq(Nat) /\ Len(q.got) = n /\ q.got[n] = all[n]
            /\ \A i \in 1 .. Len(p.got) : q.got[i] = p.got[i]
        BY <4>1, <4>2, <4>3
      <4> HIDE DEF q
      <4>5. /\ q.got[1] = p.got[1]
            /\ n = 2 => q.got[2] = all[n]
            /\ n >= 3 => q.got[2] = p.got[2]
            /\ n = 3 => q.got[3] = all[n]
            /\ n >= 4 => q.got[3] = p.got[3]
            /\ n = 4 => q.got[4] = all[n]
        <5>1. /\ 1 \in 1 .. Len(p.got)
              /\ n >= 3 => 2 \in 1 .. Len(p.got)
              /\ n >= 4 => 3 \in 1 .. Len(p.got)
          BY <4>1
        <5> HIDE DEF n, p
        <5> QED BY <4>4, <5>1
      <4> HIDE DEF p
      <4>6. ToldSoFar(q, Noted, sms)
        <5>1. /\ q.got[1] = IF q.op = "stats" THEN Shortest(Cardinality(NotedIn(Noted, q.dev)), StatsCap)
                                              ELSE Cardinality(NotedIn(Noted, q.dev))
              /\ n >= 3 => p.got[2] <= Cardinality(NotedIn(Noted, q.dev))
              /\ n >= 4 => p.got[3] = Cardinality(TextsIn(sms, q.dev))
          BY <3>1, <4>1, <4>3, <4>5 DEF ToldSoFar
        <5> HIDE DEF n
        <5> QED BY <4>1, <4>2, <4>3, <4>4, <4>5, <5>1 DEF ToldSoFar
      <4> QED BY <1>0, <1>6, <3>1, <3>4, <4>6, SameTables
    <3> QED BY <3>2, <3>3, <3>4
  <2> QED BY <1>9, <2>1, <2>2, <2>3, <2>4, <2>5 DEF Serve
<1>10. CASE UNCHANGED vars
  BY <1>1, <1>10 DEF vars, dbVars
<1>11. CASE \/ \E k \in Keys : Post(k) \/ Swipe(k)
            \/ \E m \in relays : Enter(m)
            \/ \E t \in Sends : Other(t)
            \/ \E h \in Handlers : Connect(h)
            \/ Receive \/ LinkEnds
            \/ \E d \in Devices : Reinstall(d)
  BY <1>1, <1>11 DEF Post, Swipe, Enter, Other, Connect, Receive, LinkEnds, Reinstall, dbVars
<1> QED BY <1>7, <1>8, <1>9, <1>10, <1>11 DEF Next

\* The numbers of one answer agree although each query of dashboard and of
\* notifications_stats reads the tables at a time of its own: marking a
\* notification read between two of them is harmless, and rows that come or go
\* are the only thing that is not.
THEOREM AnswersAgree == Spec => []NumbersAgree
<1>1. Init => Counts
  <2> SUFFICES ASSUME Init PROVE Counts
    OBVIOUS
  <2>1. Noted = {} /\ sms = {} /\ \A r \in Requests : req[r].stage # "reading"
    BY DEF Init, Noted, NewRequest
  <2> QED BY <2>1, FS_EmptySet DEF Counts, ToldSoFar
<1>2. Counts => NumbersAgree
  <2> SUFFICES ASSUME Counts, NEW r \in Requests, req[r].stage = "reading"
               PROVE  LET got == req[r].got IN
                      /\ Len(got) >= 2 => got[2] <= got[1] \/ got[1] = StatsCap
                      /\ Len(got) >= 4 => got[4] <= got[3] /\ (got[4] = 0 <=> got[3] = 0)
    BY DEF NumbersAgree
  <2> DEFINE all == Cardinality(NotedIn(Noted, req[r].dev))
  <2>1. ToldSoFar(req[r], Noted, sms) /\ all \in Nat
    BY Counted DEF Counts
  <2>2. Shortest(all, StatsCap) = all \/ Shortest(all, StatsCap) = StatsCap
    BY DEF Shortest
  <2>3. /\ Cardinality(PeersIn(sms, req[r].dev)) <= Cardinality(TextsIn(sms, req[r].dev))
        /\ Cardinality(PeersIn(sms, req[r].dev)) = 0 <=> Cardinality(TextsIn(sms, req[r].dev)) = 0
    BY Counted DEF Counts
  <2> HIDE DEF all
  <2> QED BY <2>1, <2>2, <2>3 DEF ToldSoFar, all
<1> QED BY <1>1, <1>2, CenterTypesInvariant, CountsStep, PTL DEF Spec
-----------------------------------------------------------------------------
\* What is on its way about a notification: with the coroutines that relay
\* changes, then in the queue of the client or of its link, and last with the
\* handler that is about to publish it.
Queue  == IF phone.link = None THEN outgoing ELSE inbox[phone.link]
InHand == IF phone.link # None /\ conn[phone.link].stage = "publish" THEN conn[phone.link].msg ELSE NoMsg

OfKey(m, k)     == m.type \in Shaded /\ m.key = k
Speaks(q, k)    == \E i \in DOMAIN q : q[i].key = k
Own(q, k, id)   == \A i \in DOMAIN q : q[i].key = k => q[i].dev = id
LastIs(q, k, t) == \A i \in DOMAIN q :
    q[i].key = k /\ (\A j \in DOMAIN q : q[j].key = k => j <= i) => q[i].type = t

\* What the last word about a notification should be.
Due(k) == IF k \in shade THEN "received" ELSE "dismissed"

\* Only the link in use carries changes that count, and no change is newer than
\* the last.
OneLink == /\ \A h \in Handlers : h # phone.link => KeysIn(h) \ {None} \subseteq excused
           /\ phone.link # None => outgoing = <<>>
InTurn  == \A m \in relays : m.n <= moves

\* Everything on its way is of the device the phone is now.
OfOneDevice(k) ==
    /\ \A m \in relays : m.key = k => m.dev = phone.id
    /\ Own(Queue, k, phone.id)
    /\ OfKey(InHand, k) => InHand.dev = phone.id

\* The newest change on its way says what the shade shows ...
NewestRelay(k) == \A m \in relays :
    m.key = k /\ (\A e \in relays : e.key = k => e.n <= m.n) => m.type = Due(k)
Relayed(k) == \A m \in relays : m.key # k

\* ... and when none is on its way the table and the viewers agree with it.
Mirrored(k) ==
    LET note == notes[<<phone.id, k>>] IN
    /\ k \in shade => note # "none"
    /\ note = "unread" => k \in shade
    /\ IF OfKey(InHand, k) THEN InHand.type = Due(k)
                           ELSE k \in shade => told[<<phone.id, k>>] = "received"

Follows(k) ==
    /\ OfOneDevice(k) /\ NewestRelay(k)
    /\ Relayed(k) => IF Speaks(Queue, k) THEN LastIs(Queue, k, Due(k)) ELSE Mirrored(k)

MirrorInv == OneLink /\ InTurn /\ \A k \in Keys \ excused : Follows(k)

-----------------------------------------------------------------------------
\* Two queues that say the same of a notification.
Alike(k, q, r) ==
    /\ Speaks(q, k) <=> Speaks(r, k)
    /\ \A id : Own(q, k, id) => Own(r, k, id)
    /\ \A t : LastIs(q, k, t) => LastIs(r, k, t)

\* A queue loses its first message ...
LEMMA TailOf ==
    ASSUME NEW q \in Seq(Messages), q # <<>>, NEW k
    PROVE  /\ Head(q).key # k => Alike(k, q, Tail(q))
           /\ \A id : Own(q, k, id) => Own(Tail(q), k, id)
           /\ \A t : Speaks(Tail(q), k) /\ LastIs(q, k, t) => LastIs(Tail(q), k, t)
           /\ Head(q).key = k =>
                /\ Speaks(q, k)
                /\ \A id : Own(q, k, id) => Head(q).dev = id
                /\ \A t : ~Speaks(Tail(q), k) /\ LastIs(q, k, t) => Head(q).type = t
<1> DEFINE r == Tail(q)
<1>1. /\ Len(q) \in Nat /\ Len(q) >= 1 /\ DOMAIN q = 1 .. Len(q) /\ DOMAIN r = 1 .. (Len(q) - 1)
      /\ \A i \in DOMAIN r : i + 1 \in DOMAIN q /\ r[i] = q[i + 1]
      /\ Head(q) = q[1] /\ 1 \in DOMAIN q
  OBVIOUS
<1> HIDE DEF r
<1>2. \A i \in DOMAIN q : i = 1 \/ (i - 1 \in DOMAIN r /\ r[i - 1] = q[i])
  <2> TAKE i \in DOMAIN q
  <2>1. i = 1 \/ (i - 1 \in DOMAIN r /\ (i - 1) + 1 = i)
    BY <1>1
  <2> QED BY <1>1, <2>1
<1>3. \A id : Own(q, k, id) => Own(r, k, id)
  BY <1>1 DEF Own
<1>4. ASSUME NEW t, LastIs(q, k, t), NEW i \in DOMAIN r, r[i].key = k,
             \A j \in DOMAIN r : r[j].key = k => j <= i
      PROVE  r[i].type = t
  <2>1. i + 1 \in DOMAIN q /\ q[i + 1] = r[i]
    BY <1>1
  <2>2. ASSUME NEW j \in DOMAIN q, q[j].key = k PROVE j <= i + 1
    <3>1. CASE j = 1
      BY <1>1, <3>1
    <3>2. CASE j # 1
      <4>1. j - 1 \in DOMAIN r /\ r[j - 1] = q[j]
        BY <1>2, <3>2
      <4>2. j - 1 <= i
        BY <1>4, <2>2, <4>1
      <4> QED BY <1>1, <4>1, <4>2
    <3> QED BY <3>1, <3>2
  <2> QED BY <1>4, <2>1, <2>2 DEF LastIs
<1>5. \A t : LastIs(q, k, t) => LastIs(r, k, t)
  BY <1>4 DEF LastIs
<1>6. ASSUME Head(q).key # k PROVE Speaks(q, k) <=> Speaks(r, k)
  BY <1>1, <1>2, <1>6 DEF Speaks
<1>7. ASSUME Head(q).key = k, NEW t, ~Speaks(r, k), LastIs(q, k, t) PROVE Head(q).type = t
  <2>1. \A j \in DOMAIN q : q[j].key = k => j <= 1
    BY <1>1, <1>2, <1>7 DEF Speaks
  <2> QED BY <1>1, <1>7, <2>1 DEF LastIs
<1>8. ASSUME Head(q).key = k PROVE Speaks(q, k) /\ \A id : Own(q, k, id) => Head(q).dev = id
  BY <1>1, <1>8 DEF Speaks, Own
<1> QED BY <1>3, <1>5, <1>6, <1>7, <1>8 DEF r, Alike

\* ... gets one at its end ...
LEMMA AppendOf ==
    ASSUME NEW q \in Seq(Messages), NEW m \in Messages, NEW k
    PROVE  /\ m.key # k => Alike(k, q, Append(q, m))
           /\ m.key = k => /\ Speaks(Append(q, m), k) /\ LastIs(Append(q, m), k, m.type)
                           /\ \A id : Own(q, k, id) /\ m.dev = id => Own(Append(q, m), k, id)
<1> DEFINE r == Append(q, m)
           n == Len(q) + 1
<1>1. /\ Len(q) \in Nat /\ DOMAIN q = 1 .. Len(q) /\ DOMAIN r = 1 .. n /\ n \in DOMAIN r /\ r[n] = m
      /\ \A i \in DOMAIN q : i \in DOMAIN r /\ r[i] = q[i]
      /\ \A i \in DOMAIN r : i \in DOMAIN q \/ i = n
      /\ \A i \in DOMAIN q : i \in Int /\ n \in Int /\ i < n
      /\ \A i \in DOMAIN r : i \in Int /\ i <= n
  OBVIOUS
<1> HIDE DEF r, n
<1>2. CASE m.key # k
  <2>1. Speaks(q, k) <=> Speaks(r, k)
    BY <1>1, <1>2 DEF Speaks
  <2>2. \A id : Own(q, k, id) => Own(r, k, id)
    BY <1>1, <1>2 DEF Own
  <2>3. ASSUME NEW t, LastIs(q, k, t) PROVE LastIs(r, k, t)
    <3> SUFFICES ASSUME NEW i \in DOMAIN r, r[i].key = k, \A j \in DOMAIN r : r[j].key = k => j <= i
                 PROVE  r[i].type = t
      BY DEF LastIs
    <3>1. i \in DOMAIN q /\ q[i] = r[i]
      BY <1>1, <1>2
    <3>2. \A j \in DOMAIN q : q[j].key = k => j <= i
      BY <1>1
    <3> QED BY <2>3, <3>1, <3>2 DEF LastIs
  <2> QED BY <1>2, <2>1, <2>2, <2>3 DEF Alike, r
<1>3. CASE m.key = k
  <2>1. Speaks(r, k) /\ \A id : Own(q, k, id) /\ m.dev = id => Own(r, k, id)
    BY <1>1, <1>3 DEF Speaks, Own
  <2>2. LastIs(r, k, m.type)
    <3> SUFFICES ASSUME NEW i \in DOMAIN r, \A j \in DOMAIN r : r[j].key = k => j <= i
                 PROVE  r[i].type = m.type
      BY DEF LastIs
    <3>1. n <= i
      BY <1>1, <1>3
    <3>2. i = n
      BY <1>1, <3>1
    <3> QED BY <1>1, <3>2
  <2> QED BY <1>3, <2>1, <2>2 DEF r
<1> QED BY <1>2, <1>3

\* ... or gets one before all others.
LEMMA FirstOf ==
    ASSUME NEW q \in Seq(Messages), NEW m \in Messages, NEW k, m.key # k
    PROVE  Alike(k, q, <<m>> \o q)
<1> DEFINE r == <<m>> \o q
<1>1. r \in Seq(Messages) /\ r # <<>> /\ Head(r) = m /\ Tail(r) = q
  OBVIOUS
<1>2. /\ Len(q) \in Nat /\ DOMAIN q = 1 .. Len(q) /\ DOMAIN r = 1 .. (Len(q) + 1) /\ r[1] = m
      /\ \A i \in DOMAIN q : i + 1 \in DOMAIN r /\ r[i + 1] = q[i]
      /\ \A i \in DOMAIN q : i \in Int
  OBVIOUS
<1> HIDE DEF r
<1>3. \A i \in DOMAIN r : i = 1 \/ (i - 1 \in DOMAIN q /\ q[i - 1] = r[i])
  <2> TAKE i \in DOMAIN r
  <2>1. i = 1 \/ (i - 1 \in DOMAIN q /\ (i - 1) + 1 = i)
    BY <1>2
  <2> QED BY <1>2, <2>1
<1>4. Speaks(q, k) <=> Speaks(r, k)
  BY <1>2, <1>3 DEF Speaks
<1>5. \A id : Own(q, k, id) => Own(r, k, id)
  BY <1>2, <1>3 DEF Own
<1>6. ASSUME NEW t, LastIs(q, k, t) PROVE LastIs(r, k, t)
  <2> SUFFICES ASSUME NEW i \in DOMAIN r, r[i].key = k, \A j \in DOMAIN r : r[j].key = k => j <= i
               PROVE  r[i].type = t
    BY DEF LastIs
  <2>1. i - 1 \in DOMAIN q /\ q[i - 1] = r[i]
    BY <1>2, <1>3
  <2>2. ASSUME NEW j \in DOMAIN q, q[j].key = k PROVE j <= i - 1
    <3>1. j + 1 \in DOMAIN r /\ r[j + 1].key = k
      BY <1>2, <2>2
    <3>2. j + 1 <= i /\ j \in Int /\ i \in Int
      BY <1>2, <3>1
    <3> QED BY <3>2
  <2> QED BY <1>6, <2>1, <2>2 DEF LastIs
<1> QED BY <1>4, <1>5, <1>6 DEF Alike, r

-----------------------------------------------------------------------------
\* What waits is messages of the phone.
LEMMA QueueOK == ASSUME PhoneOK PROVE Queue \in Seq(Messages)
BY DEF PhoneOK, Queue

\* A change of a notification is received or dismissed.
LEMMA ShadedMessage ==
    ASSUME NEW m \in Messages
    PROVE  /\ m.type \in Shaded <=> m.key # None
           /\ m.type \in Shaded => m.key \in Keys /\ m.type \in {"received", "dismissed"}
           /\ m.key \in Keys => m.type \in Shaded
           /\ m.dev \in Devices
BY CenterAssumption DEF CenterAssumption, Messages, Shaded, Others

\* A step that says nothing of a notification and marks it read at most.
LEMMA Unaffected ==
    ASSUME NEW k, Follows(k), phone'.id = phone.id, Due(k)' = Due(k), k \in shade' <=> k \in shade,
           \A m : m.key = k => (m \in relays' <=> m \in relays),
           Queue' = Queue \/ Alike(k, Queue, Queue'),
           InHand' = InHand \/ (~OfKey(InHand, k) /\ ~OfKey(InHand', k)),
           notes'[<<phone.id, k>>] = "none" => notes[<<phone.id, k>>] = "none",
           notes'[<<phone.id, k>>] = "unread" => notes[<<phone.id, k>>] = "unread",
           told'[<<phone.id, k>>] = told[<<phone.id, k>>]
    PROVE  Follows(k)'
<1>1. Alike(k, Queue, Queue')
  BY DEF Alike
<1>2. OfOneDevice(k)'
  <2>1. \A m \in relays' : m.key = k => m.dev = phone'.id
    BY DEF Follows, OfOneDevice
  <2>2. Own(Queue', k, phone'.id)
    BY <1>1 DEF Follows, OfOneDevice, Alike
  <2>3. OfKey(InHand', k) => InHand'.dev = phone'.id
    BY DEF Follows, OfOneDevice
  <2> QED BY <2>1, <2>2, <2>3 DEF OfOneDevice
<1>3. NewestRelay(k)'
  BY DEF Follows, NewestRelay
<1>4. Relayed(k)' => Relayed(k)
  BY DEF Relayed
<1>5. Mirrored(k) => Mirrored(k)'
  BY DEF Mirrored
<1>6. Relayed(k)' => IF Speaks(Queue', k) THEN LastIs(Queue', k, Due(k)') ELSE Mirrored(k)'
  BY <1>1, <1>4, <1>5 DEF Follows, Alike
<1> QED BY <1>2, <1>3, <1>6 DEF Follows

\* What is about other keys, or about links that no longer count, changes.
LEMMA LinkShrinks ==
    ASSUME OneLink, UNCHANGED phone, phone.link # None => outgoing' = outgoing,
           excused \subseteq excused',
           \A g \in Handlers : g # phone.link => KeysIn(g)' \ {None} \subseteq KeysIn(g) \cup excused'
    PROVE  OneLink'
BY DEF OneLink

\* A change of the shade, and the coroutine that will tell of it.
LEMMA ShadeChanges ==
    ASSUME PhoneOK, MirrorInv, NEW t \in Shaded, NEW c \in Keys, Relay(t, c), moves' = moves + 1,
           shade' = IF t = "received" THEN shade \cup {c} ELSE shade \ {c},
           UNCHANGED <<phone, outgoing, inbox, conn, notes, told, excused>>
    PROVE  MirrorInv'
<1> DEFINE new == Msg(t, c, moves + 1)
<1>1. /\ relays' = relays \cup {new} /\ new.key = c /\ new.type = t /\ new.n = moves + 1
      /\ new.dev = phone.id
  BY DEF Relay, Msg
<1> HIDE DEF new
<1>2. \A m \in relays : m.n \in Nat /\ m.n <= moves
  BY DEF PhoneOK, Messages, MirrorInv, InTurn
<1>3. moves \in Nat
  BY DEF PhoneOK
<1>4. InTurn'
  BY <1>1, <1>2, <1>3 DEF InTurn
<1>5. OneLink'
  BY DEF MirrorInv, OneLink, KeysIn
<1>6. ASSUME NEW k \in Keys \ excused PROVE Follows(k)'
  <2>1. Follows(k)
    BY <1>6 DEF MirrorInv
  <2>2. Queue' = Queue /\ InHand' = InHand
    BY DEF Queue, InHand
  <2>3. CASE k # c
    <3>1. Due(k)' = Due(k) /\ (k \in shade' <=> k \in shade)
      BY <2>3 DEF Due
    <3>2. \A m : m.key = k => (m \in relays' <=> m \in relays)
      BY <1>1, <2>3
    <3> QED BY <2>1, <2>2, <3>1, <3>2, Unaffected
  <2>4. CASE k = c
    <3>1. Due(k)' = t
      BY <2>4 DEF Due, Shaded
    <3>2. OfOneDevice(k)'
      BY <1>1, <2>1, <2>2 DEF Follows, OfOneDevice
    <3>3. NewestRelay(k)'
      <4> SUFFICES ASSUME NEW m \in relays', \A e \in relays' : e.key = k => e.n <= m.n
                   PROVE  m.type = t
        BY <3>1 DEF NewestRelay
      <4>1. moves + 1 <= m.n
        BY <1>1, <2>4
      <4>2. m = new
        BY <1>1, <1>2, <1>3, <4>1
      <4> QED BY <1>1, <4>2
    <3>4. ~Relayed(k)'
      BY <1>1, <2>4 DEF Relayed
    <3> QED BY <3>2, <3>3, <3>4 DEF Follows
  <2> QED BY <2>3, <2>4
<1> QED BY <1>4, <1>5, <1>6 DEF MirrorInv

\* Of two changes the older reaches the client first, or the key is excused.
LEMMA RelayEnters ==
    ASSUME PhoneOK, MirrorInv, NEW m \in relays, Enter(m)
    PROVE  MirrorInv'
<1> DEFINE sent == [m EXCEPT !.n = 0]
<1>0. m \in Messages /\ m.key \in Keys
  BY DEF PhoneOK
<1>1. sent \in Messages /\ sent.key = m.key /\ sent.type = m.type /\ sent.dev = m.dev
  BY <1>0 DEF Messages
<1>2. /\ relays' = relays \ {m} /\ Send(sent)
      /\ excused' = IF \E e \in relays : e.key = m.key /\ e.n < m.n
                    THEN excused \cup {m.key} ELSE excused
      /\ UNCHANGED <<phone, shade, moves, conn, notes, told>>
  BY DEF Enter, dbVars
<1> HIDE DEF sent
<1>3. Queue' = Append(Queue, sent)
  BY <1>2 DEF Send, Queue, PhoneOK
<1>4. InHand' = InHand
  BY <1>2 DEF InHand
<1>5. OneLink'
  <2>1. \A g \in Handlers : g # phone.link => KeysIn(g)' = KeysIn(g)
    BY <1>2 DEF Send, KeysIn, PhoneOK
  <2>2. phone.link # None => outgoing' = outgoing
    BY <1>2 DEF Send
  <2> QED BY <1>2, <2>1, <2>2, LinkShrinks DEF MirrorInv
<1>6. InTurn'
  BY <1>2 DEF MirrorInv, InTurn
<1>7. ASSUME NEW k \in Keys \ excused' PROVE Follows(k)'
  <2>1. Follows(k) /\ Due(k)' = Due(k)
    BY <1>2, <1>7 DEF MirrorInv, Due
  <2>2. CASE k # m.key
    <3>1. Alike(k, Queue, Queue')
      BY <1>1, <1>3, <2>2, QueueOK, AppendOf
    <3>2. \A e : e.key = k => (e \in relays' <=> e \in relays)
      BY <1>2, <2>2
    <3> QED BY <1>2, <1>4, <2>1, <3>1, <3>2, Unaffected
  <2>3. CASE k = m.key
    <3>1. \A e \in relays : e.key = k => ~(e.n < m.n)
      BY <1>2, <1>7, <2>3
    <3>2. \A e \in relays : e.n \in Nat
      BY DEF PhoneOK, Messages
    <3>3. /\ Speaks(Queue', k) /\ LastIs(Queue', k, m.type)
          /\ \A id : Own(Queue, k, id) /\ m.dev = id => Own(Queue', k, id)
      BY <1>1, <1>3, <2>3, QueueOK, AppendOf
    <3>4. OfOneDevice(k)'
      <4>1. m.dev = phone.id
        BY <2>1, <2>3 DEF Follows, OfOneDevice
      <4> QED BY <1>2, <1>4, <2>1, <3>3, <4>1 DEF Follows, OfOneDevice
    <3>5. NewestRelay(k)'
      <4> SUFFICES ASSUME NEW e \in relays', e.key = k, \A f \in relays' : f.key = k => f.n <= e.n
                   PROVE  e.type = Due(k)
        BY <2>1 DEF NewestRelay
      <4>1. e \in relays /\ m.n <= e.n
        BY <1>2, <3>1, <3>2
      <4>2. \A f \in relays : f.key = k => f.n <= e.n
        BY <1>2, <4>1
      <4> QED BY <2>1, <4>1, <4>2 DEF Follows, NewestRelay
    <3>6. Relayed(k)' => m.type = Due(k)
      <4> SUFFICES ASSUME Relayed(k)' PROVE m.type = Due(k)
        OBVIOUS
      <4>1. \A e \in relays : e.key = k => e = m
        BY <1>2 DEF Relayed
      <4>2. \A e \in relays : e.key = k => e.n <= m.n
        BY <3>2, <4>1
      <4> QED BY <2>1, <2>3, <4>2 DEF Follows, NewestRelay
    <3> QED BY <2>1, <3>3, <3>4, <3>5, <3>6 DEF Follows
  <2> QED BY <2>2, <2>3
<1> QED BY <1>5, <1>6, <1>7 DEF MirrorInv

\* The phone sends something else.
LEMMA OtherSent ==
    ASSUME PhoneOK, MirrorInv, NEW t \in Sends, Other(t)
    PROVE  MirrorInv'
<1> DEFINE sent == Msg(t, None, moves + 1)
<1>0. moves \in Nat /\ moves + 1 \in Nat
  BY DEF PhoneOK
<1>1. sent \in Messages /\ sent.key = None
  BY <1>0, Made, SendsAssumption DEF SendsAssumption, Msg
<1>2. /\ Send(sent) /\ moves' = moves + 1
      /\ UNCHANGED <<phone, shade, relays, conn, notes, told, excused>>
  BY DEF Other, Move, dbVars, histVars
<1> HIDE DEF sent
<1>3. Queue' = Append(Queue, sent)
  BY <1>2 DEF Send, Queue, PhoneOK
<1>4. InHand' = InHand
  BY <1>2 DEF InHand
<1>5. OneLink'
  <2>1. \A g \in Handlers : g # phone.link => KeysIn(g)' = KeysIn(g)
    BY <1>2 DEF Send, KeysIn, PhoneOK
  <2>2. phone.link # None => outgoing' = outgoing
    BY <1>2 DEF Send
  <2> QED BY <1>2, <2>1, <2>2, LinkShrinks DEF MirrorInv
<1>6. InTurn'
  <2>1. \A m \in relays : m.n \in Nat /\ m.n <= moves
    BY DEF PhoneOK, Messages, MirrorInv, InTurn
  <2> QED BY <1>0, <1>2, <2>1 DEF InTurn
<1>7. ASSUME NEW k \in Keys \ excused' PROVE Follows(k)'
  <2>1. Follows(k) /\ Due(k)' = Due(k)
    BY <1>2, <1>7 DEF MirrorInv, Due
  <2>2. sent.key # k
    BY <1>1, CenterAssumption DEF CenterAssumption
  <2>3. Alike(k, Queue, Queue')
    BY <1>1, <1>3, <2>2, QueueOK, AppendOf
  <2> QED BY <1>2, <1>4, <2>1, <2>3, Unaffected
<1> QED BY <1>5, <1>6, <1>7 DEF MirrorInv

\* A link begins: its handler says hello for what has waited.
LEMMA LinkBegins ==
    ASSUME PhoneOK, LinksOK, MirrorInv, NEW h \in Handlers, Connect(h)
    PROVE  MirrorInv'
<1> DEFINE hello == Msg("hello", None, 0)
<1>1. hello \in Messages /\ hello.key = None /\ h # None
  BY Made, CenterAssumption DEF Msg, CenterAssumption
<1>2. /\ phone.link = None /\ phone' = [phone EXCEPT !.link = h]
      /\ conn' = [conn EXCEPT ![h].stage = "idle"]
      /\ inbox' = [inbox EXCEPT ![h] = <<hello>> \o outgoing] /\ outgoing' = <<>>
      /\ UNCHANGED <<shade, relays, moves, notes, told, excused>>
  BY DEF Connect, dbVars, histVars
<1> HIDE DEF hello
<1>3. phone'.link = h /\ phone'.id = phone.id /\ conn'[h].stage = "idle" /\ inbox'[h] = <<hello>> \o outgoing
  BY <1>2 DEF PhoneOK, LinksOK
<1>4. Queue = outgoing /\ Queue' = <<hello>> \o outgoing /\ outgoing \in Seq(Messages)
  BY <1>1, <1>2, <1>3 DEF Queue, PhoneOK
<1>5. InHand = NoMsg /\ InHand' = NoMsg
  BY <1>2, <1>3 DEF InHand
<1>6. OneLink'
  <2>1. ASSUME NEW g \in Handlers, g # h PROVE KeysIn(g)' \ {None} \subseteq excused
    <3>1. KeysIn(g)' = KeysIn(g)
      BY <1>2, <2>1 DEF KeysIn, PhoneOK, LinksOK
    <3>2. g # phone.link
      BY <1>2, CenterAssumption DEF CenterAssumption
    <3> QED BY <3>1, <3>2 DEF MirrorInv, OneLink
  <2> QED BY <1>2, <1>3, <2>1 DEF OneLink
<1>7. InTurn'
  BY <1>2 DEF MirrorInv, InTurn
<1>8. ASSUME NEW k \in Keys \ excused' PROVE Follows(k)'
  <2>1. Follows(k) /\ Due(k)' = Due(k)
    BY <1>2, <1>8 DEF MirrorInv, Due
  <2>2. hello.key # k
    BY <1>1, CenterAssumption DEF CenterAssumption
  <2>3. Alike(k, Queue, Queue')
    BY <1>1, <1>4, <2>2, FirstOf
  <2> QED BY <1>2, <1>3, <1>5, <2>1, <2>3, Unaffected
<1> QED BY <1>6, <1>7, <1>8 DEF MirrorInv

\* A link ends: whatever it still carries is excused.
LEMMA LinkStops ==
    ASSUME PhoneOK, LinksOK, MirrorInv, LinkEnds
    PROVE  MirrorInv'
<1> DEFINE h == phone.link
<1>1. /\ h # None /\ h \in Handlers /\ phone' = [phone EXCEPT !.link = None]
      /\ excused' = excused \cup (KeysIn(h) \ {None})
      /\ UNCHANGED <<shade, relays, outgoing, moves, conn, inbox, notes, told>>
  BY DEF LinkEnds, PhoneOK, dbVars
<1>2. phone'.link = None /\ phone'.id = phone.id
  BY <1>1 DEF PhoneOK
<1>3. Queue = inbox[h] /\ Queue' = <<>> /\ InHand' = NoMsg
  BY <1>1, <1>2 DEF Queue, InHand, MirrorInv, OneLink
<1>4. OneLink'
  <2>1. \A g \in Handlers : KeysIn(g)' = KeysIn(g)
    BY <1>1 DEF KeysIn
  <2> QED BY <1>1, <1>2, <2>1 DEF MirrorInv, OneLink
<1>5. InTurn'
  BY <1>1 DEF MirrorInv, InTurn
<1>6. ASSUME NEW k \in Keys \ excused' PROVE Follows(k)'
  <2>1. Follows(k) /\ Due(k)' = Due(k)
    BY <1>1, <1>6 DEF MirrorInv, Due
  <2>2. k \notin KeysIn(h)
    BY <1>1, <1>6, CenterAssumption DEF CenterAssumption
  <2>3. \A i \in DOMAIN Queue : Queue[i].key # k
    BY <1>3, <2>2 DEF KeysIn
  <2>4. ~OfKey(InHand, k)
    BY <2>2 DEF InHand, KeysIn, OfKey, NoMsg, Shaded
  <2>5. ~OfKey(InHand', k)
    BY <1>3 DEF OfKey, NoMsg, Shaded
  <2>6. Alike(k, Queue, Queue')
    BY <1>3, <2>3 DEF Alike, Speaks, Own, LastIs
  <2> QED BY <1>1, <1>2, <2>1, <2>4, <2>5, <2>6, Unaffected
<1> QED BY <1>4, <1>5, <1>6 DEF MirrorInv

\* A handler takes the first frame of its link.
LEMMA FrameTaken ==
    ASSUME PhoneOK, NEW h \in Handlers, inbox[h] # <<>>, inbox' = [inbox EXCEPT ![h] = Tail(@)],
           UNCHANGED <<phone, outgoing>>
    PROVE  /\ h = phone.link => Queue = inbox[h] /\ Queue # <<>> /\ Queue' = Tail(Queue)
           /\ h # phone.link => Queue' = Queue
           /\ \A k : k # Head(inbox[h]).key => Alike(k, Queue, Queue')
           /\ \A g \in Handlers : \A i \in DOMAIN inbox'[g] : \E j \in DOMAIN inbox[g] : inbox'[g][i] = inbox[g][j]
           /\ \E j \in DOMAIN inbox[h] : inbox[h][j] = Head(inbox[h])
<1>1. h # None /\ inbox[h] \in Seq(Messages)
  BY CenterAssumption DEF CenterAssumption, PhoneOK
<1>2. inbox'[h] = Tail(inbox[h]) /\ \A g \in Handlers \ {h} : inbox'[g] = inbox[g]
  BY DEF PhoneOK
<1>3. h = phone.link => Queue = inbox[h] /\ Queue # <<>> /\ Queue' = Tail(Queue)
  BY <1>1, <1>2 DEF Queue
<1>4. h # phone.link => Queue' = Queue
  BY <1>2 DEF Queue, PhoneOK
<1>5. ASSUME NEW k, k # Head(inbox[h]).key PROVE Alike(k, Queue, Queue')
  <2>1. CASE h = phone.link
    <3>1. Queue \in Seq(Messages) /\ Queue # <<>> /\ Head(Queue).key # k
      BY <1>1, <1>3, <1>5, <2>1
    <3>2. Alike(k, Queue, Tail(Queue))
      BY <3>1, TailOf
    <3> QED BY <1>3, <2>1, <3>2
  <2>2. CASE h # phone.link
    BY <1>4, <2>2 DEF Alike
  <2> QED BY <2>1, <2>2
<1>6. \A i \in DOMAIN Tail(inbox[h]) : i + 1 \in DOMAIN inbox[h] /\ Tail(inbox[h])[i] = inbox[h][i + 1]
  BY <1>1
<1>7. 1 \in DOMAIN inbox[h] /\ inbox[h][1] = Head(inbox[h])
  BY <1>1
<1> QED BY <1>2, <1>3, <1>4, <1>5, <1>6, <1>7

\* A handler takes, or has done with, something that says nothing of the
\* notifications that count.
LEMMA HandlerAside ==
    ASSUME PhoneOK, LinksOK, MirrorInv, NEW h \in Handlers,
           UNCHANGED <<phone, shade, relays, outgoing, notes>>,
           excused \subseteq excused', moves' \in Nat, moves <= moves',
           \/ inbox' = inbox
           \/ /\ inbox[h] # <<>> /\ inbox' = [inbox EXCEPT ![h] = Tail(@)]
              /\ Head(inbox[h]).key \notin Keys \ excused'
           \/ h # phone.link /\ inbox' = [inbox EXCEPT ![h] = <<>>],
           \/ conn' = conn
           \/ \E c : /\ conn' = [conn EXCEPT ![h] = c] /\ c.msg.type \notin Shaded
                     /\ conn[h].stage = "publish" => conn[h].msg.key \notin Keys \ excused',
           \A k \in Keys \ excused' : told'[<<phone.id, k>>] = told[<<phone.id, k>>]
    PROVE  MirrorInv'
<1>1. OneLink'
  <2>1. ASSUME NEW g \in Handlers PROVE KeysIn(g)' \subseteq KeysIn(g)
    <3>1. \A i \in DOMAIN inbox'[g] : \E j \in DOMAIN inbox[g] : inbox'[g][i] = inbox[g][j]
      <4>1. CASE inbox' = inbox
        BY <4>1
      <4>2. CASE inbox[h] # <<>> /\ inbox' = [inbox EXCEPT ![h] = Tail(@)]
        BY <4>2, FrameTaken
      <4>3. CASE inbox' = [inbox EXCEPT ![h] = <<>>]
        BY <4>3 DEF PhoneOK
      <4> QED BY <4>1, <4>2, <4>3
    <3>2. conn'[g].msg.type \in Shaded => conn'[g] = conn[g]
      BY DEF LinksOK
    <3> QED BY <3>1, <3>2 DEF KeysIn
  <2> QED BY <2>1, LinkShrinks DEF MirrorInv
<1>2. InTurn'
  <2>1. \A m \in relays : m.n \in Nat /\ m.n <= moves
    BY DEF PhoneOK, Messages, MirrorInv, InTurn
  <2>2. moves \in Nat
    BY DEF PhoneOK
  <2> QED BY <2>1, <2>2 DEF InTurn
<1>3. ASSUME NEW k \in Keys \ excused' PROVE Follows(k)'
  <2>1. Follows(k) /\ Due(k)' = Due(k)
    BY <1>3 DEF MirrorInv, Due
  <2>2. Queue' = Queue \/ Alike(k, Queue, Queue')
    <3>1. CASE inbox' = inbox
      BY <3>1 DEF Queue
    <3>2. CASE /\ inbox[h] # <<>> /\ inbox' = [inbox EXCEPT ![h] = Tail(@)]
               /\ Head(inbox[h]).key \notin Keys \ excused'
      BY <1>3, <3>2, FrameTaken
    <3>3. CASE h # phone.link /\ inbox' = [inbox EXCEPT ![h] = <<>>]
      BY <3>3 DEF Queue, PhoneOK
    <3> QED BY <3>1, <3>2, <3>3
  <2>3. InHand' = InHand \/ (~OfKey(InHand, k) /\ ~OfKey(InHand', k))
    <3>1. CASE conn' = conn
      BY <3>1 DEF InHand
    <3>2. ASSUME NEW c, conn' = [conn EXCEPT ![h] = c], c.msg.type \notin Shaded,
                 conn[h].stage = "publish" => conn[h].msg.key \notin Keys \ excused'
          PROVE  InHand' = InHand \/ (~OfKey(InHand, k) /\ ~OfKey(InHand', k))
      <4>1. CASE h # phone.link
        BY <3>2, <4>1 DEF InHand, LinksOK
      <4>2. CASE h = phone.link
        <5>1. conn'[h] = c
          BY <3>2 DEF LinksOK
        <5>2. ~OfKey(InHand', k)
          BY <3>2, <4>2, <5>1 DEF InHand, OfKey, NoMsg, Shaded
        <5>3. ~OfKey(InHand, k)
          BY <1>3, <3>2, <4>2 DEF InHand, OfKey, NoMsg, Shaded
        <5> QED BY <5>2, <5>3
      <4> QED BY <4>1, <4>2
    <3> QED BY <3>1, <3>2
  <2> QED BY <1>3, <2>1, <2>2, <2>3, Unaffected
<1> QED BY <1>1, <1>2, <1>3 DEF MirrorInv

\* A change reaches the table: the one that is in line, or one that is excused.
LEMMA ChangeStored ==
    ASSUME PackageField = "package", PhoneOK, LinksOK, StoreOK, MirrorInv,
           NEW h \in Handlers, StoreNotification(h), moves' \in Nat, moves <= moves'
    PROVE  MirrorInv'
<1> DEFINE m == Head(inbox[h])
           c == At("publish", conn[h].holder, 0, m)
<1>1. inbox[h] # <<>> /\ conn[h].stage = "idle" /\ m \in Messages /\ m.type \in Shaded
  BY ReadsMessage DEF StoreNotification, Reading
<1>2. m.key \in Keys /\ m.type \in {"received", "dismissed"} /\ m.dev \in Devices
  BY <1>1, ShadedMessage
<1>3. c.stage = "publish" /\ c.msg = m
  BY DEF At
<1>4. Parses(m)
  BY DEF Parses
<1>5. /\ inbox' = [inbox EXCEPT ![h] = Tail(@)] /\ conn' = [conn EXCEPT ![h] = c]
      /\ UNCHANGED <<phone, shade, relays, outgoing, told>>
  BY <1>1, <1>4 DEF StoreNotification, Take, phoneVars
<1>6. \/ /\ m.type = "received" /\ InsertNotification(m.dev, m.key) /\ excused' = excused
      \/ /\ m.type = "dismissed" /\ MarkRead(m.dev, m.key) /\ excused' = excused
      \/ excused' = excused \cup {m.key} /\ notes' = notes
  BY <1>4 DEF StoreNotification
<1> HIDE DEF m, c
<1>7. conn'[h] = c /\ (\A g \in Handlers \ {h} : conn'[g] = conn[g]) /\ excused \subseteq excused'
  BY <1>5, <1>6 DEF LinksOK
<1>8. m.key \in KeysIn(h) /\ m.key # None
  <2>1. \E j \in DOMAIN inbox[h] : inbox[h][j] = m
    BY <1>1, <1>5, FrameTaken DEF m
  <2> QED BY <1>2, <2>1, CenterAssumption DEF KeysIn, CenterAssumption
<1>9. OneLink'
  <2>1. ASSUME NEW g \in Handlers PROVE KeysIn(g)' \subseteq KeysIn(g)
    <3>1. \A i \in DOMAIN inbox'[g] : \E j \in DOMAIN inbox[g] : inbox'[g][i] = inbox[g][j]
      BY <1>1, <1>5, FrameTaken
    <3>2. CASE g = h
      BY <1>3, <1>7, <1>8, <3>1, <3>2 DEF KeysIn
    <3>3. CASE g # h
      BY <1>7, <3>1, <3>3 DEF KeysIn
    <3> QED BY <3>2, <3>3
  <2> QED BY <1>5, <1>7, <2>1, LinkShrinks DEF MirrorInv
<1>10. InTurn'
  <2>1. \A e \in relays : e.n \in Nat /\ e.n <= moves
    BY DEF PhoneOK, Messages, MirrorInv, InTurn
  <2>2. moves \in Nat
    BY DEF PhoneOK
  <2> QED BY <1>5, <2>1, <2>2 DEF InTurn
<1>11. /\ h # phone.link => InHand' = InHand
       /\ h = phone.link => InHand = NoMsg /\ InHand' = m
  <2>1. h # None
    BY CenterAssumption DEF CenterAssumption
  <2> QED BY <1>1, <1>3, <1>5, <1>7, <2>1 DEF InHand, PhoneOK
<1>12. ASSUME NEW k \in Keys \ excused' PROVE Follows(k)'
  <2>1. Follows(k) /\ Due(k)' = Due(k)
    BY <1>5, <1>7, <1>12 DEF MirrorInv, Due
  <2>2. CASE k # m.key
    <3>1. Alike(k, Queue, Queue')
      BY <1>1, <1>5, <2>2, FrameTaken DEF m
    <3>2. InHand' = InHand \/ (~OfKey(InHand, k) /\ ~OfKey(InHand', k))
      BY <1>11, <2>2 DEF OfKey, NoMsg, Shaded
    <3>3. notes'[<<phone.id, k>>] = notes[<<phone.id, k>>]
      <4>1. <<phone.id, k>> # <<m.dev, m.key>>
        BY <2>2
      <4>2. <<phone.id, k>> \in Slots /\ notes \in [Slots -> Marks]
        BY <1>12 DEF PhoneOK, Slots, StoreOK
      <4>3. CASE InsertNotification(m.dev, m.key)
        BY <4>1, <4>2, <4>3 DEF InsertNotification
      <4>4. CASE MarkRead(m.dev, m.key)
        BY <4>1, <4>2, <4>4 DEF MarkRead
      <4> QED BY <1>6, <4>3, <4>4
    <3> QED BY <1>5, <2>1, <3>1, <3>2, <3>3, Unaffected
  <2>3. CASE k = m.key
    <3>1. h = phone.link
      BY <1>7, <1>8, <1>12, <2>3 DEF MirrorInv, OneLink
    <3>2. Queue = inbox[h] /\ Queue # <<>> /\ Queue' = Tail(Queue) /\ m = Head(Queue)
      BY <1>1, <1>5, <3>1, FrameTaken DEF m
    <3>3. /\ Speaks(Queue, k)
          /\ \A id : Own(Queue, k, id) => Own(Queue', k, id) /\ m.dev = id
          /\ \A t : Speaks(Queue', k) /\ LastIs(Queue, k, t) => LastIs(Queue', k, t)
          /\ \A t : ~Speaks(Queue', k) /\ LastIs(Queue, k, t) => m.type = t
      BY <2>3, <3>2, QueueOK, TailOf
    <3>4. m.dev = phone.id
      BY <2>1, <3>3 DEF Follows, OfOneDevice
    <3>5. OfOneDevice(k)'
      BY <1>5, <1>11, <2>1, <3>1, <3>3, <3>4 DEF Follows, OfOneDevice
    <3>6. NewestRelay(k)'
      BY <1>5, <2>1 DEF Follows, NewestRelay
    <3>7. ASSUME m.type = Due(k) PROVE Mirrored(k)'
      <4>1. <<phone.id, k>> \in Slots
        BY <1>12 DEF PhoneOK, Slots
      <4>2. \/ m.type = "received" /\ notes'[<<phone.id, k>>] = "unread"
            \/ m.type = "dismissed" /\ notes'[<<phone.id, k>>] \in {"none", "read"}
        BY <1>6, <1>12, <2>3, <3>4, <4>1 DEF InsertNotification, MarkRead, StoreOK
      <4>3. OfKey(InHand', k) /\ InHand'.type = Due(k)
        BY <1>1, <1>11, <2>3, <3>1, <3>7 DEF OfKey
      <4>4. m.type = "received" <=> k \in shade
        BY <3>7 DEF Due
      <4> QED BY <1>5, <2>1, <4>2, <4>3, <4>4 DEF Mirrored
    <3>8. Relayed(k)' => Relayed(k)
      BY <1>5 DEF Relayed
    <3>9. Relayed(k)' => IF Speaks(Queue', k) THEN LastIs(Queue', k, Due(k)') ELSE Mirrored(k)'
      BY <2>1, <3>3, <3>7, <3>8 DEF Follows
    <3> QED BY <3>5, <3>6, <3>9 DEF Follows
  <2> QED BY <2>2, <2>3
<1> QED BY <1>9, <1>10, <1>12 DEF MirrorInv

\* The viewers are told.
LEMMA ChangePublished ==
    ASSUME PhoneOK, LinksOK, HistoryOK, MirrorInv, NEW h \in Handlers, Publish(h)
    PROVE  MirrorInv'
<1> DEFINE m == conn[h].msg
           c == At("idle", conn[h].holder, 0, NoMsg)
<1>1. conn[h].stage = "publish" /\ m \in Messages /\ m.type \in Shaded
  BY DEF Publish, LinksOK, HandlerOK
<1>2. m.key \in Keys /\ m.key # None
  BY <1>1, ShadedMessage, CenterAssumption DEF CenterAssumption
<1>3. c.stage = "idle" /\ c.msg = NoMsg /\ NoMsg.type \notin Shaded
  BY DEF At, NoMsg, Shaded
<1>4. /\ told' = [told EXCEPT ![<<m.dev, m.key>>] = m.type] /\ conn' = [conn EXCEPT ![h] = c]
      /\ UNCHANGED <<phone, shade, relays, outgoing, inbox, notes, moves, excused>>
  BY DEF Publish, phoneVars, dbVars, histVars
<1> HIDE DEF c
<1>5. \A k : k # m.key => told'[<<phone.id, k>>] = told[<<phone.id, k>>]
  BY <1>4 DEF HistoryOK
<1>6. conn'[h] = c /\ \A g \in Handlers \ {h} : conn'[g] = conn[g]
  BY <1>4 DEF LinksOK
<1>7. h # phone.link => m.key \in excused
  BY <1>1, <1>2 DEF MirrorInv, OneLink, KeysIn
<1>8. OneLink'
  <2>1. \A g \in Handlers : KeysIn(g)' \subseteq KeysIn(g)
    BY <1>3, <1>4, <1>6 DEF KeysIn
  <2> QED BY <1>4, <2>1, LinkShrinks DEF MirrorInv
<1>9. InTurn'
  BY <1>4 DEF MirrorInv, InTurn
<1>10. /\ h # phone.link => InHand' = InHand
       /\ h = phone.link => InHand = m /\ InHand' = NoMsg
  <2>1. h # None
    BY CenterAssumption DEF CenterAssumption
  <2> QED BY <1>1, <1>3, <1>4, <1>6, <2>1 DEF InHand, PhoneOK
<1>11. ASSUME NEW k \in Keys \ excused' PROVE Follows(k)'
  <2>1. Follows(k) /\ Due(k)' = Due(k) /\ Queue' = Queue
    BY <1>4, <1>11 DEF MirrorInv, Due, Queue
  <2>2. CASE k # m.key
    <3>1. InHand' = InHand \/ (~OfKey(InHand, k) /\ ~OfKey(InHand', k))
      BY <1>3, <1>10, <2>2 DEF OfKey
    <3> QED BY <1>4, <1>5, <2>1, <2>2, <3>1, Unaffected
  <2>3. CASE k = m.key
    <3>1. h = phone.link
      BY <1>4, <1>7, <1>11, <2>3
    <3>2. OfKey(InHand, k) /\ InHand = m /\ ~OfKey(InHand', k)
      BY <1>1, <1>3, <1>10, <2>3, <3>1 DEF OfKey
    <3>3. m.dev = phone.id
      BY <2>1, <3>2 DEF Follows, OfOneDevice
    <3>4. OfOneDevice(k)' /\ NewestRelay(k)' /\ (Relayed(k)' <=> Relayed(k))
      BY <1>4, <2>1, <3>2 DEF Follows, OfOneDevice, NewestRelay, Relayed
    <3>5. ASSUME Mirrored(k) PROVE Mirrored(k)'
      <4>1. told'[<<phone.id, k>>] = m.type
        <5>1. <<phone.id, k>> \in Slots
          BY <1>11 DEF PhoneOK, Slots
        <5> QED BY <1>4, <2>3, <3>3, <5>1 DEF HistoryOK
      <4>2. k \in shade => m.type = "received"
        BY <3>2, <3>5 DEF Mirrored, Due
      <4> QED BY <1>4, <3>2, <3>5, <4>1, <4>2 DEF Mirrored
    <3> QED BY <2>1, <3>4, <3>5 DEF Follows
  <2> QED BY <2>2, <2>3
<1> QED BY <1>8, <1>9, <1>11 DEF MirrorInv

\* A removal excuses every notification there is.
LEMMA AllExcused ==
    ASSUME PhoneOK, MirrorInv, PhoneOK', LinksOK', excused' = Keys,
           relays' = {} \/ relays' = relays, moves <= moves',
           phone'.link # None => outgoing' = <<>>
    PROVE  MirrorInv'
<1>1. ASSUME NEW g \in Handlers PROVE KeysIn(g)' \ {None} \subseteq Keys
  <2>1. \A i \in DOMAIN inbox'[g] : inbox'[g][i] \in Messages
    BY DEF PhoneOK
  <2>2. conn'[g].msg \in Messages \cup {NoMsg}
    BY DEF LinksOK
  <2>3. \A m \in Messages : m.key \in Keys \cup {None}
    BY ShadedMessage, CenterAssumption DEF Messages
  <2> QED BY <2>1, <2>2, <2>3 DEF KeysIn, NoMsg, Shaded
<1>2. OneLink'
  BY <1>1 DEF OneLink
<1>3. InTurn'
  <2>1. \A m \in relays : m.n \in Nat /\ m.n <= moves
    BY DEF PhoneOK, Messages, MirrorInv, InTurn
  <2>2. moves \in Nat /\ moves' \in Nat
    BY DEF PhoneOK
  <2> QED BY <2>1, <2>2 DEF InTurn
<1> QED BY <1>2, <1>3 DEF MirrorInv

\* A request: it marks a notification read at most.
LEMMA RequestServed ==
    ASSUME PhoneOK, StoreOK, MirrorInv, UNCHANGED <<phoneVars, conn, inbox, told, excused>>,
           moves' \in Nat, moves <= moves',
           notes' = notes \/ \E d, c : MarkRead(d, c)
    PROVE  MirrorInv'
<1>1. OneLink'
  BY DEF MirrorInv, OneLink, KeysIn, phoneVars
<1>2. InTurn'
  <2>1. \A m \in relays : m.n \in Nat /\ m.n <= moves
    BY DEF PhoneOK, Messages, MirrorInv, InTurn
  <2>2. moves \in Nat
    BY DEF PhoneOK
  <2> QED BY <2>1, <2>2 DEF InTurn, phoneVars
<1>3. ASSUME NEW k \in Keys \ excused' PROVE Follows(k)'
  <2>1. Follows(k) /\ Due(k)' = Due(k) /\ Queue' = Queue /\ InHand' = InHand
    BY <1>3 DEF MirrorInv, Due, Queue, InHand, phoneVars
  <2>2. /\ notes'[<<phone.id, k>>] = "none" => notes[<<phone.id, k>>] = "none"
        /\ notes'[<<phone.id, k>>] = "unread" => notes[<<phone.id, k>>] = "unread"
    <3>1. <<phone.id, k>> \in Slots /\ notes \in [Slots -> Marks]
      BY <1>3 DEF PhoneOK, Slots, StoreOK
    <3>2. ASSUME NEW d, NEW c, MarkRead(d, c)
          PROVE  notes'[<<phone.id, k>>] \in {notes[<<phone.id, k>>],
                                             IF notes[<<phone.id, k>>] = "none" THEN "none" ELSE "read"}
      BY <3>1, <3>2 DEF MarkRead
    <3> QED BY <3>2
  <2> QED BY <2>1, <2>2, Unaffected DEF phoneVars
<1> QED BY <1>1, <1>2, <1>3 DEF MirrorInv

LEMMA MirrorStep ==
    ASSUME PackageField = "package", CenterTypes, CenterTypes', MirrorInv, [Next]_vars
    PROVE  MirrorInv'
<1>0. /\ PhoneOK /\ LinksOK /\ StoreOK /\ HistoryOK /\ RequestsOK /\ PhoneOK' /\ LinksOK'
      /\ moves \in Nat /\ moves' \in Nat
  BY DEF CenterTypes, PhoneOK
<1>1. moves <= moves + 1 /\ moves <= moves
  BY <1>0
<1>2. ASSUME NEW k \in Keys, Post(k) \/ Swipe(k) PROVE MirrorInv'
  <2>1. \E t \in Shaded : /\ Relay(t, k)
                          /\ shade' = IF t = "received" THEN shade \cup {k} ELSE shade \ {k}
    BY <1>2 DEF Post, Swipe, Shaded
  <2>2. moves' = moves + 1 /\ UNCHANGED <<phone, outgoing, inbox, conn, notes, told, excused>>
    BY <1>2 DEF Post, Swipe, Move, linkVars, dbVars, histVars
  <2> QED BY <1>0, <2>1, <2>2, ShadeChanges
<1>3. ASSUME Receive PROVE MirrorInv'
  <2>1. UNCHANGED <<phone, outgoing, inbox, conn, notes, told, excused>>
    BY <1>3 DEF Receive, dbVars, histVars
  <2>2. CASE Head(outbox) \in shade
    <3>1. /\ Relay("dismissed", Head(outbox)) /\ moves' = moves + 1 /\ shade' = shade \ {Head(outbox)}
      BY <1>3, <2>2 DEF Receive
    <3>2. Head(outbox) \in Keys /\ "dismissed" \in Shaded /\ "dismissed" # "received"
      BY <1>0, <2>2 DEF PhoneOK, Shaded
    <3> QED BY <1>0, <2>1, <3>1, <3>2, ShadeChanges
  <2>3. CASE Head(outbox) \notin shade
    <3>1. UNCHANGED <<shade, relays, moves>>
      BY <1>3, <2>3 DEF Receive
    <3> QED BY <1>0, <1>1, <2>1, <3>1, RequestServed DEF phoneVars
  <2> QED BY <2>2, <2>3
<1>4. ASSUME NEW d \in Devices, Reinstall(d) PROVE MirrorInv'
  <2>1. excused' = Keys /\ relays' = {} /\ outgoing' = <<>> /\ moves' = moves + 1
    BY <1>4 DEF Reinstall, Move
  <2> QED BY <1>0, <1>1, <2>1, AllExcused
<1>5. ASSUME NEW h \in Handlers, Handle(h) PROVE MirrorInv'
  <2>0. NoMsg.type \notin Shaded /\ None \notin Keys
    BY CenterAssumption DEF CenterAssumption, NoMsg, Shaded
  <2>1. ASSUME ReadHello(h) PROVE MirrorInv'
    <3>0. PICK found \in Found(Head(inbox[h])) :
              conn' = [conn EXCEPT ![h] = At("write", @.holder, found, Head(inbox[h]))]
      BY <2>1 DEF ReadHello
    <3> DEFINE c == At("write", conn[h].holder, found, Head(inbox[h]))
    <3>1. conn[h].stage = "idle" /\ inbox[h] # <<>> /\ Head(inbox[h]).type = "hello"
      BY <2>1 DEF ReadHello, Reading
    <3>2. Head(inbox[h]).type \notin Shaded /\ Head(inbox[h]).key = None
      BY <1>0, <3>1, ReadsMessage, ShadedMessage DEF Shaded
    <3>3. /\ conn' = [conn EXCEPT ![h] = c] /\ inbox' = [inbox EXCEPT ![h] = Tail(@)]
          /\ UNCHANGED <<phone, shade, relays, outgoing, notes, told, excused, moves>>
      BY <2>1, <3>0 DEF ReadHello, phoneVars, dbVars
    <3>4. c.msg.type \notin Shaded
      BY <3>2 DEF At
    <3> HIDE DEF c
    <3> QED BY <1>0, <1>1, <2>0, <3>1, <3>2, <3>3, <3>4, HandlerAside
  <2>2. ASSUME EnterDevice(h) PROVE MirrorInv'
    <3> DEFINE c == At("idle", conn[h].msg.dev, 0, NoMsg)
    <3>1. c.msg.type \notin Shaded /\ conn[h].stage = "write"
      BY <2>0, <2>2 DEF At, EnterDevice
    <3>2. /\ conn' = [conn EXCEPT ![h] = c] /\ moves <= moves'
          /\ UNCHANGED <<phone, shade, relays, outgoing, inbox, notes, told, excused>>
      BY <1>1, <2>2 DEF EnterDevice, phoneVars, Busy, Fine, Move
    <3> HIDE DEF c
    <3> QED BY <1>0, <3>1, <3>2, HandlerAside
  <2>3. ASSUME StoreNotification(h) PROVE MirrorInv'
    <3>1. moves <= moves'
      <4>1. Parses(Head(inbox[h]))
        BY DEF Parses
      <4> QED BY <1>1, <2>3, <4>1 DEF StoreNotification, Busy, Fine, Move
    <3> QED BY <1>0, <2>3, <3>1, ChangeStored
  <2>4. ASSUME inbox[h] # <<>>, Head(inbox[h]).type \notin Shaded, Take(h),
               UNCHANGED <<phone, shade, relays, outgoing, notes, told, excused>>, moves <= moves'
        PROVE  MirrorInv'
    <3>1. conn' = conn /\ inbox' = [inbox EXCEPT ![h] = Tail(@)]
      BY <2>4 DEF Take
    <3>2. Head(inbox[h]).key = None
      BY <1>0, <2>4, ReadsMessage, ShadedMessage
    <3> QED BY <1>0, <2>0, <2>4, <3>1, <3>2, HandlerAside
  <2>5. ASSUME StoreSms(h) \/ StoreCall(h) PROVE MirrorInv'
    <3>1. inbox[h] # <<>> /\ Head(inbox[h]).type \notin Shaded /\ Take(h) /\ moves <= moves'
      BY <1>1, <2>5 DEF StoreSms, StoreCall, Reading, Shaded, Busy, Fine, Move
    <3>2. UNCHANGED <<phone, shade, relays, outgoing, notes, told, excused>>
      BY <2>5 DEF StoreSms, StoreCall, phoneVars
    <3> QED BY <2>4, <3>1, <3>2
  <2>6. ASSUME Unpair(h) PROVE MirrorInv'
    <3>1. inbox[h] # <<>> /\ Head(inbox[h]).type \notin Shaded /\ Take(h) /\ moves <= moves'
      BY <1>1, <2>6 DEF Unpair, Reading, Shaded, Busy, Fine, Move
    <3>2. UNCHANGED <<phone, shade, relays, outgoing, told>>
      BY <2>6 DEF Unpair, phoneVars
    <3>3. CASE UNCHANGED <<notes, excused>>
      BY <2>4, <3>1, <3>2, <3>3
    <3>4. CASE excused' = Keys
      <4>1. phone'.link # None => outgoing' = <<>>
        BY <3>2 DEF MirrorInv, OneLink
      <4> QED BY <1>0, <3>1, <3>2, <3>4, <4>1, AllExcused
    <3> QED BY <2>6, <3>3, <3>4 DEF Unpair, Forget
  <2>7. ASSUME Publish(h) PROVE MirrorInv'
    BY <1>0, <2>7, ChangePublished
  <2>8. ASSUME Close(h) PROVE MirrorInv'
    <3> DEFINE c == At("done", None, 0, NoMsg)
    <3>1. c.msg.type \notin Shaded /\ conn[h].stage = "idle" /\ phone.link # h
      BY <2>0, <2>8 DEF At, Close
    <3>2. /\ conn' = [conn EXCEPT ![h] = c] /\ inbox' = [inbox EXCEPT ![h] = <<>>]
          /\ UNCHANGED <<phone, shade, relays, outgoing, notes, told, excused, moves>>
      BY <2>8 DEF Close, phoneVars, dbVars, histVars
    <3> HIDE DEF c
    <3> QED BY <1>0, <1>1, <3>1, <3>2, HandlerAside
  <2> QED BY <1>5, <2>1, <2>2, <2>3, <2>5, <2>6, <2>7, <2>8 DEF Handle
<1>6. ASSUME NEW r \in Requests, NEW d \in Devices \cup {None}, Ask(r, d) PROVE MirrorInv'
  <2>1. moves' = moves + 1 /\ UNCHANGED <<phoneVars, conn, inbox, told, excused>>
    BY <1>6 DEF Ask, MarkOne, Dismiss, ListUnread, Unregister, SendSms, Dial, FirstQuery, Asks, Move,
                linkVars, histVars
  <2>2. notes' = notes \/ \E e, c : MarkRead(e, c)
    BY <1>6 DEF Ask, MarkOne, Dismiss, ListUnread, Unregister, SendSms, Dial, FirstQuery, dbVars
  <2> QED BY <1>0, <1>1, <2>1, <2>2, RequestServed
<1>7. ASSUME NEW r \in Requests, Serve(r) PROVE MirrorInv'
  <2>1. ASSUME Delete(r) PROVE MirrorInv'
    <3>1. excused' = Keys /\ UNCHANGED <<phone, relays, outgoing, moves>>
      BY <2>1 DEF Delete, Forget, phoneVars
    <3>2. phone'.link # None => outgoing' = <<>>
      BY <3>1 DEF MirrorInv, OneLink
    <3> QED BY <1>0, <1>1, <3>1, <3>2, AllExcused
  <2>2. ASSUME MarkListed(r) \/ TrySend(r) \/ RecordSms(r) \/ NextQuery(r) PROVE MirrorInv'
    <3>1. UNCHANGED <<phoneVars, conn, inbox, told, excused, moves>>
      BY <2>2 DEF MarkListed, TrySend, RecordSms, NextQuery, linkVars, histVars
    <3>2. notes' = notes \/ \E e, c : MarkRead(e, c)
      BY <2>2 DEF MarkListed, TrySend, RecordSms, NextQuery, dbVars
    <3> QED BY <1>0, <1>1, <3>1, <3>2, RequestServed
  <2> QED BY <1>7, <2>1, <2>2 DEF Serve
<1>8. CASE UNCHANGED vars
  BY <1>0, <1>1, <1>8, RequestServed DEF vars, phoneVars, linkVars, dbVars, histVars
<1>9. ASSUME NEW m \in relays, Enter(m) PROVE MirrorInv'
  BY <1>0, <1>9, RelayEnters
<1>10. ASSUME NEW t \in Sends, Other(t) PROVE MirrorInv'
  BY <1>0, <1>10, OtherSent
<1>11. ASSUME NEW h \in Handlers, Connect(h) PROVE MirrorInv'
  BY <1>0, <1>11, LinkBegins
<1>12. ASSUME LinkEnds PROVE MirrorInv'
  BY <1>0, <1>12, LinkStops
<1> QED BY <1>2, <1>3, <1>4, <1>5, <1>6, <1>7, <1>8, <1>9, <1>10, <1>11, <1>12 DEF Next

-----------------------------------------------------------------------------
\* With the app as it is, no handler is in the middle of a notification that came.
PassedOver ==
    /\ NothingArrives
    /\ \A h \in Handlers : conn[h].stage = "publish" => conn[h].msg.type # "received"

LEMMA PassedOverStep ==
    ASSUME PackageField # "package", CenterTypes, PassedOver, [Next]_vars
    PROVE  PassedOver'
<1> USE DEF CenterTypes
<1>1. ASSUME \/ notes' = notes
             \/ \E d, k : MarkRead(d, k)
             \/ \E d : DeleteDevice(d),
             told' = told \/ \E d, k, t : t # "received" /\ told' = [told EXCEPT ![<<d, k>>] = t],
             UNCHANGED conn \/ \E h \in Handlers : \E c :
                 /\ c.stage = "publish" => c.msg.type # "received"
                 /\ conn' = [conn EXCEPT ![h] = c]
      PROVE  PassedOver'
  <2>1. ASSUME NEW s \in Slots PROVE notes'[s] = "none"
    <3>1. notes[s] = "none" /\ notes \in [Slots -> Marks]
      BY DEF PassedOver, NothingArrives, StoreOK
    <3>2. ASSUME NEW d, NEW k, MarkRead(d, k) PROVE notes'[s] = "none"
      BY <3>1, <3>2 DEF MarkRead
    <3>3. ASSUME NEW d, DeleteDevice(d) PROVE notes'[s] = "none"
      BY <3>1, <3>3 DEF DeleteDevice
    <3> QED BY <1>1, <3>1, <3>2, <3>3
  <2>2. ASSUME NEW s \in Slots PROVE told'[s] # "received"
    BY <1>1 DEF PassedOver, NothingArrives, HistoryOK
  <2>3. ASSUME NEW g \in Handlers, conn'[g].stage = "publish" PROVE conn'[g].msg.type # "received"
    BY <1>1, <2>3 DEF PassedOver, LinksOK
  <2> QED BY <2>1, <2>2, <2>3 DEF PassedOver, NothingArrives
<1>2. ASSUME NEW h \in Handlers, Handle(h) PROVE PassedOver'
  <2>0. ASSUME NEW stage, NEW holder, NEW found, NEW m, stage = "publish" => m.type # "received",
               conn' = [conn EXCEPT ![h] = At(stage, holder, found, m)]
        PROVE  \E g \in Handlers : \E c : /\ c.stage = "publish" => c.msg.type # "received"
                                         /\ conn' = [conn EXCEPT ![g] = c]
    <3>1. At(stage, holder, found, m).stage = stage /\ At(stage, holder, found, m).msg = m
      BY DEF At
    <3> QED BY <2>0, <3>1
  <2>1. ASSUME ReadHello(h) PROVE PassedOver'
    <3>1. PICK found \in Found(Head(inbox[h])) :
              conn' = [conn EXCEPT ![h] = At("write", conn[h].holder, found, Head(inbox[h]))]
      BY <2>1 DEF ReadHello
    <3>2. UNCHANGED <<notes, told>>
      BY <2>1 DEF ReadHello, dbVars
    <3> QED BY <1>1, <2>0, <3>1, <3>2
  <2>2. ASSUME EnterDevice(h) PROVE PassedOver'
    <3>1. conn' = [conn EXCEPT ![h] = At("idle", conn[h].msg.dev, 0, NoMsg)]
      BY <2>2 DEF EnterDevice
    <3> QED BY <1>1, <2>0, <2>2, <3>1 DEF EnterDevice
  <2>3. ASSUME StoreNotification(h) PROVE PassedOver'
    <3>1. CASE Head(inbox[h]).type = "received"
      <4>1. UNCHANGED <<conn, notes, told>>
        BY <2>3, <3>1 DEF StoreNotification, Parses
      <4> QED BY <1>1, <4>1
    <3>2. CASE Head(inbox[h]).type # "received"
      <4>1. conn' = [conn EXCEPT ![h] = At("publish", conn[h].holder, 0, Head(inbox[h]))]
        BY <2>3, <3>2 DEF StoreNotification, Parses, Take, Reading
      <4>2. notes' = notes \/ \E d, k : MarkRead(d, k)
        BY <2>3, <3>2 DEF StoreNotification, Parses
      <4>3. told' = told
        BY <2>3 DEF StoreNotification
      <4> QED BY <1>1, <2>0, <3>2, <4>1, <4>2, <4>3
    <3> QED BY <3>1, <3>2
  <2>4. ASSUME Take(h), Head(inbox[h]).type \notin Shaded PROVE UNCHANGED conn
    BY <2>4 DEF Take
  <2>5. ASSUME StoreSms(h) \/ StoreCall(h) PROVE PassedOver'
    <3>1. Head(inbox[h]).type \notin Shaded
      BY <2>5 DEF StoreSms, StoreCall, Reading, Shaded
    <3> QED BY <1>1, <2>4, <2>5, <3>1 DEF StoreSms, StoreCall
  <2>6. ASSUME Unpair(h) PROVE PassedOver'
    <3>1. Head(inbox[h]).type \notin Shaded
      BY <2>6 DEF Unpair, Reading, Shaded
    <3>2. notes' = notes \/ \E d : DeleteDevice(d)
      BY <2>6 DEF Unpair
    <3> QED BY <1>1, <2>4, <2>6, <3>1, <3>2 DEF Unpair
  <2>7. ASSUME Publish(h) PROVE PassedOver'
    <3>1. conn[h].msg.type # "received" /\ UNCHANGED notes
      BY <2>7 DEF Publish, PassedOver, dbVars
    <3>2. /\ told' = [told EXCEPT ![<<conn[h].msg.dev, conn[h].msg.key>>] = conn[h].msg.type]
          /\ conn' = [conn EXCEPT ![h] = At("idle", conn[h].holder, 0, NoMsg)]
      BY <2>7 DEF Publish
    <3>3. \E d, k, t : t # "received" /\ told' = [told EXCEPT ![<<d, k>>] = t]
      BY <3>1, <3>2
    <3> QED BY <1>1, <2>0, <3>1, <3>2, <3>3
  <2>8. ASSUME Close(h) PROVE PassedOver'
    <3>1. conn' = [conn EXCEPT ![h] = At("done", None, 0, NoMsg)] /\ UNCHANGED <<notes, told>>
      BY <2>8 DEF Close, dbVars
    <3> QED BY <1>1, <2>0, <3>1
  <2> QED BY <1>2, <2>1, <2>2, <2>3, <2>5, <2>6, <2>7, <2>8 DEF Handle
<1>3. ASSUME NEW h \in Handlers, Connect(h) PROVE PassedOver'
  <2>1. \A g \in Handlers : conn'[g].stage = "publish" => conn'[g] = conn[g]
    BY <1>3 DEF Connect, LinksOK
  <2> QED BY <1>3, <2>1 DEF Connect, dbVars, PassedOver, NothingArrives
<1>4. ASSUME NEW r \in Requests, Serve(r) PROVE PassedOver'
  <2>1. \/ notes' = notes
        \/ \E d, k : MarkRead(d, k)
        \/ \E d : DeleteDevice(d)
    BY <1>4 DEF Serve, MarkListed, TrySend, RecordSms, Delete, NextQuery, dbVars
  <2>2. UNCHANGED <<conn, told>>
    BY <1>4 DEF Serve, MarkListed, TrySend, RecordSms, Delete, NextQuery, linkVars
  <2> QED BY <1>1, <2>1, <2>2
<1>5. ASSUME NEW r \in Requests, NEW d \in Devices \cup {None}, Ask(r, d) PROVE PassedOver'
  <2>1. notes' = notes \/ \E e, k : MarkRead(e, k)
    BY <1>5 DEF Ask, MarkOne, Dismiss, ListUnread, Unregister, SendSms, Dial, FirstQuery, dbVars
  <2>2. UNCHANGED <<conn, told>>
    BY <1>5 DEF Ask, MarkOne, Dismiss, ListUnread, Unregister, SendSms, Dial, FirstQuery, linkVars
  <2> QED BY <1>1, <2>1, <2>2
<1>6. CASE UNCHANGED vars
  BY <1>1, <1>6 DEF vars, linkVars, dbVars
<1>7. CASE \/ \E k \in Keys : Post(k) \/ Swipe(k)
           \/ \E m \in relays : Enter(m)
           \/ \E t \in Sends : Other(t)
           \/ Receive \/ LinkEnds
           \/ \E d \in Devices : Reinstall(d)
  BY <1>1, <1>7 DEF Post, Swipe, Enter, Other, Receive, LinkEnds, Reinstall, linkVars, dbVars
<1> QED BY <1>2, <1>3, <1>4, <1>5, <1>6, <1>7 DEF Next

\* What keeps MirrorSettles, with either name of the field.
FieldInv == IF PackageField = "package" THEN MirrorInv ELSE PassedOver

\* When nothing is on its way any more, what a phone shows that speaks the
\* protocol has its row and was announced, and what the desktop has unread is
\* shown; but for changes that were lost with a link, refused by the database,
\* overtaken on the phone, or made before a removal. Of what the app as it is
\* posts (Payloads.kt:92) no row is ever written and nothing announced.
THEOREM ShadeIsMirrored == Spec => []MirrorSettles
<1>1. Init => FieldInv
  <2> SUFFICES ASSUME Init PROVE FieldInv
    OBVIOUS
  <2>1. /\ phone.link = None /\ relays = {} /\ outgoing = <<>> /\ shade = {} /\ excused = {}
        /\ \A h \in Handlers : inbox[h] = <<>> /\ conn[h].msg = NoMsg
        /\ \A s \in Slots : notes[s] = "none"
        /\ phone.id \in Devices
    BY DEF Init, NoConn, At
  <2>2. Queue = <<>> /\ InHand = NoMsg /\ NoMsg.type \notin Shaded
    BY <2>1 DEF Queue, InHand, NoMsg, Shaded
  <2>3. OneLink /\ InTurn
    BY <2>1, <2>2 DEF OneLink, InTurn, KeysIn
  <2>4. ASSUME NEW k \in Keys PROVE Follows(k)
    <3>1. notes[<<phone.id, k>>] = "none"
      BY <2>1 DEF Slots
    <3>2. Mirrored(k) /\ ~Speaks(Queue, k)
      BY <2>1, <2>2, <3>1 DEF Mirrored, OfKey, Speaks
    <3>3. OfOneDevice(k) /\ NewestRelay(k)
      BY <2>1, <2>2 DEF OfOneDevice, NewestRelay, Own, OfKey
    <3> QED BY <3>2, <3>3 DEF Follows
  <2>5. PassedOver
    BY <2>1 DEF Init, NoConn, At, PassedOver, NothingArrives
  <2> QED BY <2>1, <2>3, <2>4, <2>5 DEF FieldInv, MirrorInv
<1>2. ASSUME PackageField = "package", CenterTypes, FieldInv PROVE MirrorSettles
  <2>0. PhoneOK /\ MirrorInv
    BY <1>2 DEF CenterTypes, FieldInv
  <2>1. ASSUME Settled, NEW k \in Keys \ excused PROVE Mirrored(k) /\ ~OfKey(InHand, k)
    <3>1. Follows(k) /\ Relayed(k)
      BY <2>0, <2>1 DEF MirrorInv, Settled, Relayed
    <3>2. phone.link \in Handlers
      BY <2>0, <2>1 DEF PhoneOK, Settled
    <3>3. Queue = <<>> /\ InHand = NoMsg
      BY <2>1, <3>2 DEF Settled, Queue, InHand
    <3>4. ~Speaks(Queue, k) /\ ~OfKey(InHand, k)
      BY <3>3 DEF Speaks, OfKey, NoMsg, Shaded
    <3> QED BY <3>1, <3>4 DEF Follows
  <2>2. shade \subseteq Keys
    BY <2>0 DEF PhoneOK
  <2>3. NotificationsArrive
    BY <2>1, <2>2 DEF NotificationsArrive, Mirrored
  <2> QED BY <1>2, <2>1, <2>3 DEF MirrorSettles, Mirrored
<1>3. ASSUME PackageField # "package", CenterTypes, FieldInv PROVE MirrorSettles
  <2>1. NothingArrives /\ phone.id \in Devices
    BY <1>3 DEF CenterTypes, PhoneOK, FieldInv, PassedOver
  <2>2. \A k \in Keys : <<phone.id, k>> \in Slots
    BY <2>1 DEF Slots
  <2> QED BY <1>3, <2>1, <2>2 DEF MirrorSettles, NothingArrives
<1>4. CenterTypes /\ CenterTypes' /\ FieldInv /\ [Next]_vars => FieldInv'
  BY MirrorStep, PassedOverStep DEF FieldInv
<1>5. CenterTypes /\ FieldInv => MirrorSettles
  BY <1>2, <1>3
<1> QED BY <1>1, <1>4, <1>5, CenterTypesInvariant, PTL DEF Spec
===============================================================================
