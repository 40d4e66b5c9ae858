------------------------------ MODULE DeskProofs ------------------------------
(***************************************************************************)
(* Proofs about Desk for any traffic, any configuration files, any number  *)
(* of clicks and sessions and any delays.                                  *)
(***************************************************************************)
EXTENDS Desk, SequenceTheorems, TLAPS

\* The configuration is read once, and the program goes on only with one that
\* load_from accepts.
Configured ==
    /\ proc = "load" => setup \in Setups
    /\ proc \notin {"load", "exit"} => \E s \in Setups : ~RejectedSetup(s) /\ cfg = Config(s)

\* The event under way is the last one, and the map has no entry of it.
UnderWay == presenting # Idle => presenting.event = Len(events) /\ \A r \in map : r.event # presenting.event

\* What is on the screen, filed or pressed is of the event it names.
OfItsEvent ==
    /\ \A t \in open : t.toast = MockPresent(events[t.id])
    /\ \A key \in DOMAIN pending : pending[key] # 0 => key \in MockPresent(events[pending[key]]).actions
    /\ \A r \in map : r = Ref(r.event)
    /\ \A c \in DOMAIN clicks : clicks[c].key \in MockPresent(events[clicks[c].id]).actions

\* A toast that is on the screen, or whose closing is on its way, or came early.
Explained(e) ==
    \/ \E t \in open : t.id = e
    \/ \E i \in DOMAIN closed : closed[i] = e
    \/ e \in early

NoLeak ==
    /\ \A r \in map : Explained(r.event)
    /\ presenting.at = "record" => Explained(presenting.event)

\* The action a click stands for.
ActionOf(c) == ActionForKey(c.key, Ref(c.id))

\* Of the clicks up to p, some were tried, in order; the prompt is of click p;
\* the signals not yet consumed are of later clicks, in order.
Consumed(f, g, p) ==
    /\ \A i, j \in DOMAIN tried : i < j => f[i] < f[j]
    /\ \A i \in DOMAIN tried : f[i] <= p /\ tried[i].action = ActionOf(clicks[f[i]])
    /\ prompt # NoPrompt => /\ p \in DOMAIN clicks /\ clicks[p].id = prompt.event /\ clicks[p].key = "reply"
                            /\ \A i \in DOMAIN tried : f[i] < p
    /\ \A i, j \in DOMAIN invoked : i < j => g[i] < g[j]
    /\ \A i \in DOMAIN invoked : p < g[i] /\ invoked[i] = clicks[g[i]]

InOrder ==
    \E f \in [DOMAIN tried -> DOMAIN clicks], g \in [DOMAIN invoked -> DOMAIN clicks], p \in 0 .. Len(clicks) :
        Consumed(f, g, p)

ActionKinds == {"sms.reply", "notification.read", "notification.dismiss", "call.answer", "call.end"}
Tries == [action : [kind : ActionKinds, event : Nat, to : BOOLEAN, call : BOOLEAN], ok : BOOLEAN]

\* The types, with those of the history of the tries.
DeskTypes == TypeOK /\ tried \in Seq(Tries)

DeskInv == DeskTypes /\ Configured /\ UnderWay /\ OfItsEvent /\ NoLeak /\ InOrder

-----------------------------------------------------------------------------
(***************************************************************************)
(* The tables from events to toasts and from buttons to actions.           *)
(***************************************************************************)
Keys == MessageKeys \cup CallKeys

\* Both backends show what the tests' mock records, and file an address just
\* with what can be replied to by SMS, a call id just with a call's state.
LEMMA ToastTable ==
    ASSUME NEW k \in Kinds
    PROVE  /\ PresentLinux(k).toast = MockPresent(k) /\ TranslateViaEvent(k) = MockPresent(k)
           /\ MockPresent(k).actions \subseteq Keys
           /\ PresentLinux(k).address \in BOOLEAN /\ PresentLinux(k).call \in BOOLEAN
           /\ "reply" \in MockPresent(k).actions => (PresentLinux(k).address <=> k = "sms")
           /\ MockPresent(k).actions \cap CallKeys # {} => (PresentLinux(k).call <=> k \in {"ringing", "offhook"})
<1> USE DEF PresentLinux, MockPresent, TranslateViaEvent, Dispatch, PresentNotification, PresentSms, PresentCallIncoming,
            PresentCallState, PresentActionResult, PresentPhoneOffline, TranslateNotification, TranslateSms,
            TranslateCallIncoming, TranslateCallState, TranslateActionResult, TranslatePhoneOffline, Toast,
            NoToast, ActionList, Keys, MessageKeys, CallKeys
<1>1. CASE k \in {"notification", "sensitive"}
  BY <1>1
<1>2. CASE k = "sms"
  BY <1>2
<1>3. CASE k = "incoming"
  BY <1>3
<1>4. CASE k \in {"ringing", "offhook"}
  BY <1>4
<1>5. CASE k \in {"idle", "sent", "failed", "offline", "device", "garbled"}
  BY <1>5
<1> QED BY <1>1, <1>2, <1>3, <1>4, <1>5 DEF Kinds

Deeds == [kind : ActionKinds, event : Nat, to : BOOLEAN, call : BOOLEAN]

\* A button of a toast stands for an action of the toast's event.
LEMMA ActionTable ==
    ASSUME NEW k \in Kinds, NEW key \in MockPresent(k).actions, NEW n \in Nat, NEW r,
           r = [event |-> n, address |-> PresentLinux(k).address, call |-> PresentLinux(k).call]
    PROVE  /\ ActionForKey(key, r) \in Deeds /\ ActionForKey(key, r).event = n
           /\ ActionForKey(key, r).kind = "sms.reply" => (ActionForKey(key, r).to <=> k = "sms")
           /\ ActionForKey(key, r).kind \in {"call.answer", "call.end"} =>
                  (ActionForKey(key, r).call <=> k \in {"ringing", "offhook"})
<1>1. key \in Keys
  BY ToastTable
<1>2. PICK address \in BOOLEAN, call \in BOOLEAN : r = [event |-> n, address |-> address, call |-> call]
  BY ToastTable
<1>3. r.event = n /\ r.address = address /\ r.call = call
  BY <1>2
<1> DEFINE kindOf == CASE key = "reply" -> "sms.reply"
                       [] key = "mark_read" -> "notification.read"
                       [] key = "dismiss" -> "notification.dismiss"
                       [] key = "answer" -> "call.answer"
                       [] key = "hangup" -> "call.end"
<1>4. PICK kind \in ActionKinds : kind = kindOf
  BY <1>1 DEF ActionKinds, Keys, MessageKeys, CallKeys
<1>5. PICK to \in BOOLEAN, tel \in BOOLEAN : (to <=> key = "reply" /\ address) /\ (tel <=> key \in CallKeys /\ call)
  OBVIOUS
<1>6. ActionForKey(key, r) = [kind |-> kind, event |-> n, to |-> to, call |-> tel]
  <2>1. ActionForKey(key, r) = [kind |-> kindOf, event |-> r.event, to |-> key = "reply" /\ r.address,
                                call |-> key \in CallKeys /\ r.call]
    BY DEF ActionForKey
  <2> HIDE DEF kindOf
  <2> QED BY <1>3, <1>4, <1>5, <2>1
<1>7. /\ kind = "sms.reply" => key = "reply"
      /\ kind \in {"call.answer", "call.end"} => key \in CallKeys
  BY <1>1, <1>4 DEF Keys, MessageKeys, CallKeys
<1>8. /\ key = "reply" => (address <=> k = "sms")
      /\ key \in CallKeys => (call <=> k \in {"ringing", "offhook"})
  <2>1. r.address = PresentLinux(k).address /\ r.call = PresentLinux(k).call
    OBVIOUS
  <2> QED BY <1>3, <2>1, ToastTable
<1>9. [kind |-> kind, event |-> n, to |-> to, call |-> tel] \in Deeds
  BY DEF Deeds
<1> QED BY <1>5, <1>6, <1>7, <1>8, <1>9

-----------------------------------------------------------------------------
(***************************************************************************)
(* Types.                                                                  *)
(***************************************************************************)
LoopTypes ==
    /\ setup \in Setups \cup {NoSetup} /\ platform \in Platforms
    /\ cfg.url \in Urls \cup {"none"}
    /\ proc \in {"load", "dictionary", "backend", "session", "connected", "sleep", "exit"}
    /\ backoff \in InitialBackoff .. MaxBackoff
    /\ failures \in 0 .. MaxFailures /\ ends \in 0 .. MaxEnds
    /\ bound \subseteq {"client", "backend"}

EventTypes ==
    /\ events \in Seq(Kinds)
    /\ presenting = Idle \/ presenting \in [at : {"notify", "record"}, event : Ids]
    /\ \A t \in open : t.id \in Ids
    /\ map \subseteq [event : Ids, address : BOOLEAN, call : BOOLEAN]
    /\ pending \in [Keys -> Ids \cup {0}]

Clicks == [id : Ids, key : Keys]

ClickTypes ==
    /\ consumer \in [Consumers -> {"off", "subscribing", "on", "gone"}]
    /\ invoked \in Seq(Clicks) /\ clicks \in Seq(Clicks)
    /\ closed \in Seq(Ids) /\ early \subseteq Ids
    /\ prompt = NoPrompt \/ prompt \in [at : {"zenity", "kdialog"}, event : Ids]
    /\ tried \in Seq(Tries)

LEMMA TypeParts == DeskTypes <=> LoopTypes /\ EventTypes /\ ClickTypes
BY DEF DeskTypes, TypeOK, LoopTypes, EventTypes, ClickTypes, Clicks, Keys

LEMMA LoopTypesStep == ASSUME DeskTypes, Configured, [Next]_vars PROVE LoopTypes'
<1> LoopTypes
  BY TypeParts
<1> USE DEF LoopTypes
<1>1. CASE UNCHANGED <<confVars, loopVars>>
  BY <1>1 DEF confVars, loopVars
<1>2. CASE LoadConfig
  <2>1. setup \in AllSetups
    BY <1>2, SetupsAssumption DEF LoadConfig, Configured
  <2>2. UrlOf(setup) \in Urls
    BY <2>1 DEF AllSetups, UrlOf, Urls
  <2> QED BY <1>2, <2>2 DEF LoadConfig, Config
<1>3. CASE LoadI18n \/ StartBackend \/ NoSessionBus
  BY <1>3 DEF LoadI18n, StartBackend, NoSessionBus, confVars
<1>4. CASE ConnectOk
  BY <1>4 DEF ConnectOk, confVars
<1>5. CASE ConnectFail
  BY <1>5, DeskAssumption DEF ConnectFail, BackOff, Least, confVars
<1>6. CASE SessionEnd
  BY <1>6, DeskAssumption DEF SessionEnd, BackOff, Least, confVars
<1>7. CASE Wake
  BY <1>7, DeskAssumption DEF Wake, Least, confVars
<1>8. ASSUME NEW c \in Consumers, Subscribe(c) PROVE LoopTypes'
  BY <1>1, <1>8 DEF Subscribe
<1>9. ASSUME NEW k \in Kinds, Receive(k) PROVE LoopTypes'
  BY <1>1, <1>9 DEF Receive
<1>10. ASSUME NEW t \in open, Close(t) \/ \E key \in t.toast.actions : Click(t, key) PROVE LoopTypes'
  BY <1>1, <1>10 DEF Close, Click
<1>11. CASE NotifyOk \/ NotifyFail \/ Record \/ TakeInvoked \/ PromptText \/ PromptNext \/ PromptDrop \/ TakeClosed
  BY <1>1, <1>11 DEF NotifyOk, NotifyFail, Record, TakeInvoked, PromptText, PromptNext, PromptDrop, TakeClosed
<1>12. CASE UNCHANGED vars
  BY <1>1, <1>12 DEF vars
<1> QED BY <1>2, <1>3, <1>4, <1>5, <1>6, <1>7, <1>8, <1>9, <1>10, <1>11, <1>12 DEF Next

\* An event more: its number is new, and those before it keep theirs.
LEMMA EventsGrow ==
    ASSUME DeskTypes, NEW k \in Kinds, events' = Append(events, k)
    PROVE  /\ events' \in Seq(Kinds) /\ Len(events) \in Nat /\ Len(events') = Len(events) + 1
           /\ Ids \subseteq Ids' /\ Len(events) + 1 \in Ids' /\ Len(events) + 1 \notin Ids /\ 0 \notin Ids'
           /\ events'[Len(events) + 1] = k /\ \A n \in Ids : events'[n] = events[n] /\ n \in Nat
BY DEF DeskTypes, TypeOK, Ids

LEMMA IdsOK == ASSUME DeskTypes PROVE /\ Ids \subseteq Nat /\ 0 \notin Ids /\ \A n \in Ids : events[n] \in Kinds
BY DEF DeskTypes, TypeOK, Ids

LEMMA EventTypesStep == ASSUME DeskTypes, [Next]_vars PROVE EventTypes'
<1>0. EventTypes
  BY TypeParts
<1>1. CASE UNCHANGED toastVars
  BY <1>0, <1>1 DEF toastVars, EventTypes, Ids
<1>2. ASSUME NEW k \in Kinds, Receive(k) PROVE EventTypes'
  <2>1. events' = Append(events, k) /\ open' = open /\ map' = map
    BY <1>2 DEF Receive
  <2>2. \/ presenting' = Idle
        \/ presenting' = [at |-> "notify", event |-> Len(events) + 1]
    BY <1>2 DEF Receive
  <2>3. presenting' = Idle \/ presenting' \in [at : {"notify", "record"}, event : Ids']
    BY <2>1, <2>2, EventsGrow
  <2>4. pending' \in [Keys -> Ids' \cup {0}]
    <3>1. DOMAIN pending = Keys /\ \A key \in Keys : pending[key] \in Ids \cup {0}
      BY <1>0 DEF EventTypes
    <3>2. CASE pending' = pending
      BY <1>0, <2>1, <3>2, EventsGrow DEF EventTypes
    <3>3. CASE pending' = FileButtons(Len(events) + 1, k)
      BY <2>1, <3>1, <3>3, EventsGrow DEF FileButtons
    <3> QED BY <1>2, <3>2, <3>3 DEF Receive
  <2>5. (\A t \in open' : t.id \in Ids') /\ map' \subseteq [event : Ids', address : BOOLEAN, call : BOOLEAN]
    <3>1. [event : Ids, address : BOOLEAN, call : BOOLEAN] \subseteq [event : Ids', address : BOOLEAN, call : BOOLEAN]
      BY <2>1, EventsGrow
    <3> QED BY <1>0, <2>1, <3>1, EventsGrow DEF EventTypes
  <2> QED BY <2>1, <2>3, <2>4, <2>5, EventsGrow DEF EventTypes
<1>3. CASE NotifyOk
  <2>1. presenting \in [at : {"notify", "record"}, event : Ids]
    BY <1>0, <1>3 DEF EventTypes, NotifyOk, Idle
  <2>2. presenting' \in [at : {"notify", "record"}, event : Ids]
    BY <1>3, <2>1 DEF NotifyOk
  <2>3. \A t \in open' : t.id \in Ids
    BY <1>0, <1>3, <2>1 DEF EventTypes, NotifyOk
  <2> QED BY <1>0, <1>3, <2>2, <2>3 DEF EventTypes, NotifyOk, Ids
<1>4. CASE NotifyFail
  BY <1>0, <1>4 DEF EventTypes, NotifyFail, Ids
<1>5. CASE Record
  <2>1. presenting.event \in Ids
    BY <1>0, <1>5 DEF EventTypes, Record, Idle
  <2>2. Ref(presenting.event) \in [event : Ids, address : BOOLEAN, call : BOOLEAN]
    <3>1. PICK a \in BOOLEAN, c \in BOOLEAN : a = PresentLinux(events[presenting.event]).address
                                           /\ c = PresentLinux(events[presenting.event]).call
      BY <2>1, IdsOK, ToastTable
    <3>2. Ref(presenting.event) = [event |-> presenting.event, address |-> a, call |-> c]
      BY <3>1, Zenon DEF Ref
    <3> QED BY <2>1, <3>2
  <2> QED BY <1>0, <1>5, <2>2 DEF EventTypes, Record, Ids
<1>6. ASSUME NEW t \in open, Close(t) PROVE EventTypes'
  BY <1>0, <1>6 DEF EventTypes, Close, Ids
<1>7. CASE TakeClosed
  BY <1>0, <1>7 DEF EventTypes, TakeClosed, Ids
<1>8. ASSUME NEW t \in open, NEW key \in t.toast.actions, Click(t, key) PROVE EventTypes'
  BY <1>1, <1>8 DEF Click
<1>9. CASE \/ LoadConfig \/ LoadI18n \/ StartBackend \/ NoSessionBus
           \/ (\E c \in Consumers : Subscribe(c)) \/ ConnectOk \/ ConnectFail \/ SessionEnd \/ Wake
           \/ TakeInvoked \/ PromptText \/ PromptNext \/ PromptDrop
  BY <1>1, <1>9 DEF LoadConfig, LoadI18n, StartBackend, NoSessionBus, Subscribe, ConnectOk, ConnectFail,
                    SessionEnd, Wake, TakeInvoked, PromptText, PromptNext, PromptDrop
<1>10. CASE UNCHANGED vars
  BY <1>1, <1>10 DEF vars
<1> QED BY <1>2, <1>3, <1>4, <1>5, <1>6, <1>7, <1>8, <1>9, <1>10 DEF Next

\* What the click c stands for.
LEMMA ActionOfClick ==
    ASSUME DeskTypes, OfItsEvent, NEW c \in DOMAIN clicks
    PROVE  /\ ActionOf(clicks[c]) \in Deeds /\ ActionOf(clicks[c]).event = clicks[c].id
           /\ clicks[c] \in Clicks /\ clicks[c].id \in Ids /\ clicks[c].key \in MockPresent(events[clicks[c].id]).actions
           /\ ActionOf(clicks[c]).kind = "sms.reply" => (ActionOf(clicks[c]).to <=> events[clicks[c].id] = "sms")
           /\ ActionOf(clicks[c]).kind \in {"call.answer", "call.end"} =>
                  (ActionOf(clicks[c]).call <=> events[clicks[c].id] \in {"ringing", "offhook"})
<1>1. clicks \in Seq(Clicks)
  BY TypeParts DEF ClickTypes
<1>2. clicks[c] \in Clicks /\ clicks[c].id \in Ids
  <2>1. c \in 1 .. Len(clicks)
    BY <1>1, LenProperties
  <2>2. clicks[c] \in Clicks
    BY <1>1, <2>1, ElementOfSeq
  <2> QED BY <2>2 DEF Clicks
<1>3. clicks[c].key \in MockPresent(events[clicks[c].id]).actions
  BY DEF OfItsEvent
<1>4. events[clicks[c].id] \in Kinds /\ clicks[c].id \in Nat
  BY <1>2, IdsOK
<1>5. Ref(clicks[c].id) = [event |-> clicks[c].id, address |-> PresentLinux(events[clicks[c].id]).address,
                           call |-> PresentLinux(events[clicks[c].id]).call]
  BY DEF Ref
<1> QED BY <1>2, <1>3, <1>4, <1>5, ActionTable DEF ActionOf

\* An action that is tried is noted with what came of it.
LEMMA TryNoted ==
    ASSUME NEW a \in Deeds, TrySend(a)
    PROVE  \E x \in Tries : x.action = a /\ tried' = Append(tried, x)
<1>1. PICK ok \in BOOLEAN : ok <=> "backend" \in bound
  OBVIOUS
<1>2. [action |-> a, ok |-> ok] \in Tries
  BY DEF Tries, Deeds
<1>3. tried' = Append(tried, [action |-> a, ok |-> ok])
  <2>1. ok = ("backend" \in bound)
    BY <1>1
  <2> QED BY <2>1, Zenon DEF TrySend
<1> QED BY <1>2, <1>3

\* The first signal is a click; the task tries what it stands for, asks for a
\* text, or does nothing.
LEMMA TakeInvokedForms ==
    ASSUME DeskTypes, OfItsEvent, TakeInvoked, NEW f, NEW g \in [DOMAIN invoked -> DOMAIN clicks], NEW p,
           Consumed(f, g, p)
    PROVE  /\ 1 \in DOMAIN invoked /\ g[1] \in DOMAIN clicks
           /\ \/ tried' = tried /\ prompt' = NoPrompt
              \/ /\ tried' = tried /\ clicks[g[1]].key = "reply"
                 /\ prompt' = [at |-> "zenity", event |-> clicks[g[1]].id]
              \/ /\ prompt' = NoPrompt
                 /\ \E x \in Tries : x.action = ActionOf(clicks[g[1]]) /\ tried' = Append(tried, x)
<1>1. invoked \in Seq(Clicks) /\ invoked # <<>> /\ prompt = NoPrompt
  BY TypeParts DEF ClickTypes, TakeInvoked
<1>2. 1 \in DOMAIN invoked /\ Head(invoked) = invoked[1]
  BY <1>1
<1>3. g[1] \in DOMAIN clicks /\ Head(invoked) = clicks[g[1]]
  BY <1>2 DEF Consumed
<1>4. CASE tried' = tried /\ prompt' = prompt
  BY <1>1, <1>2, <1>3, <1>4
<1>5. CASE tried' = tried /\ Head(invoked).key = "reply" /\ prompt' = [at |-> "zenity", event |-> Head(invoked).id]
  BY <1>2, <1>3, <1>5
<1>6. ASSUME NEW x \in map, x.event = Head(invoked).id, TrySend(ActionForKey(Head(invoked).key, x)), prompt' = prompt
      PROVE  /\ prompt' = NoPrompt
             /\ \E y \in Tries : y.action = ActionOf(clicks[g[1]]) /\ tried' = Append(tried, y)
  <2>1. x = Ref(clicks[g[1]].id)
    BY <1>3, <1>6 DEF OfItsEvent
  <2>2. TrySend(ActionOf(clicks[g[1]]))
    BY <1>3, <1>6, <2>1 DEF ActionOf
  <2>3. ActionOf(clicks[g[1]]) \in Deeds
    BY <1>3, ActionOfClick
  <2> QED BY <1>1, <1>6, <2>2, <2>3, TryNoted
<1> QED BY <1>2, <1>3, <1>4, <1>5, <1>6 DEF TakeInvoked

\* The text is that of the reply the task waits for.
LEMMA PromptForms ==
    ASSUME DeskTypes, OfItsEvent, PromptText, NEW f, NEW g, NEW p, Consumed(f, g, p)
    PROVE  /\ p \in DOMAIN clicks
           /\ \E x \in Tries : x.action = ActionOf(clicks[p]) /\ tried' = Append(tried, x)
<1>1. p \in DOMAIN clicks /\ clicks[p].id = prompt.event /\ clicks[p].key = "reply"
  BY DEF PromptText, Consumed
<1>2. TrySend(ActionOf(clicks[p]))
  BY <1>1 DEF PromptText, ActionOf
<1> QED BY <1>1, <1>2, ActionOfClick, TryNoted

\* Sequences after Append and Tail, position by position.
LEMMA Appended ==
    ASSUME NEW S, NEW s \in Seq(S), NEW e \in S
    PROVE  /\ Append(s, e) \in Seq(S) /\ Len(s) \in Nat /\ DOMAIN s = 1 .. Len(s)
           /\ DOMAIN Append(s, e) = 1 .. Len(s) + 1 /\ Append(s, e)[Len(s) + 1] = e
           /\ \A i \in DOMAIN s : Append(s, e)[i] = s[i] /\ i \in DOMAIN Append(s, e) /\ i < Len(s) + 1 /\ i \in Nat
           /\ \A i \in DOMAIN Append(s, e) : i = Len(s) + 1 \/ i \in DOMAIN s
OBVIOUS

LEMMA Shifted ==
    ASSUME NEW S, NEW s \in Seq(S), s # <<>>
    PROVE  /\ Head(s) \in S /\ Head(s) = s[1] /\ Tail(s) \in Seq(S) /\ 1 \in DOMAIN s
           /\ \A i \in DOMAIN Tail(s) : Tail(s)[i] = s[i + 1] /\ i + 1 \in DOMAIN s /\ i \in Nat /\ 1 < i + 1
           /\ \A i \in DOMAIN s : i = 1 \/ (i - 1 \in DOMAIN Tail(s) /\ Tail(s)[i - 1] = s[i])
OBVIOUS

LEMMA SeqGrows == ASSUME NEW S, NEW T, S \subseteq T, NEW s \in Seq(S) PROVE s \in Seq(T)
OBVIOUS

\* A toast on the screen has buttons of its event.
LEMMA ButtonOK ==
    ASSUME DeskTypes, OfItsEvent, NEW t \in open, NEW key \in t.toast.actions
    PROVE  [id |-> t.id, key |-> key] \in Clicks /\ key \in MockPresent(events[t.id]).actions
<1>1. t.id \in Ids /\ key \in MockPresent(events[t.id]).actions
  BY TypeParts DEF EventTypes, OfItsEvent
<1>2. key \in Keys
  BY <1>1, IdsOK, ToastTable
<1> QED BY <1>1, <1>2 DEF Clicks

LEMMA ClickTypesStep == ASSUME DeskInv, [Next]_vars PROVE ClickTypes'
<1>0. ClickTypes /\ EventTypes /\ DeskTypes /\ OfItsEvent
  BY TypeParts DEF DeskInv
<1>1. ASSUME Ids' = Ids, UNCHANGED <<invoked, closed, prompt, tried, clicks, early>>,
             consumer' \in [Consumers -> {"off", "subscribing", "on", "gone"}]
      PROVE ClickTypes'
  BY <1>0, <1>1 DEF ClickTypes, Clicks
<1>2. ASSUME NEW k \in Kinds, Receive(k) PROVE ClickTypes'
  <2>1. events' = Append(events, k) /\ UNCHANGED clickVars
    BY <1>2 DEF Receive
  <2>2. Ids \subseteq Ids'
    BY <1>0, <2>1, EventsGrow
  <2>3. Clicks \subseteq Clicks'
    BY <2>2 DEF Clicks
  <2>4. invoked' \in Seq(Clicks') /\ clicks' \in Seq(Clicks') /\ closed' \in Seq(Ids')
    BY <1>0, <2>1, <2>2, <2>3, SeqGrows DEF ClickTypes, clickVars
  <2> QED BY <1>0, <2>1, <2>2, <2>4 DEF ClickTypes, clickVars
<1>3. ASSUME NEW t \in open, NEW key \in t.toast.actions, Click(t, key) PROVE ClickTypes'
  <2>1. Ids' = Ids /\ UNCHANGED <<consumer, closed, prompt, tried, early>>
    BY <1>3 DEF Click, toastVars, Ids
  <2>2. [id |-> t.id, key |-> key] \in Clicks
    BY <1>0, ButtonOK
  <2>3. clicks' \in Seq(Clicks) /\ invoked' \in Seq(Clicks)
    BY <1>0, <1>3, <2>2, Appended DEF ClickTypes, Click
  <2> QED BY <1>0, <2>1, <2>3 DEF ClickTypes, Clicks
<1>4. ASSUME NEW t \in open, Close(t) PROVE ClickTypes'
  <2>1. t.id \in Ids /\ Ids' = Ids
    BY <1>0, <1>4 DEF EventTypes, Close, Ids
  <2>2. closed' \in Seq(Ids) /\ early' \subseteq Ids
    BY <1>0, <1>4, <2>1, Appended DEF ClickTypes, Close
  <2> QED BY <1>0, <1>4, <2>1, <2>2 DEF ClickTypes, Clicks, Close
<1>5. CASE TakeInvoked
  <2>1. PICK f \in [DOMAIN tried -> DOMAIN clicks], g \in [DOMAIN invoked -> DOMAIN clicks], p \in 0 .. Len(clicks) :
            Consumed(f, g, p)
    BY DEF DeskInv, InOrder
  <2>2. /\ g[1] \in DOMAIN clicks
        /\ \/ tried' = tried /\ prompt' = NoPrompt
           \/ tried' = tried /\ prompt' = [at |-> "zenity", event |-> clicks[g[1]].id]
           \/ prompt' = NoPrompt /\ \E x \in Tries : tried' = Append(tried, x)
    BY <1>0, <1>5, <2>1, TakeInvokedForms
  <2>3. clicks[g[1]].id \in Ids
    BY <1>0, <2>2, ActionOfClick
  <2>4. tried' \in Seq(Tries) /\ (prompt' = NoPrompt \/ prompt' \in [at : {"zenity", "kdialog"}, event : Ids])
    <3>1. \A n \in Ids : [at |-> "zenity", event |-> n] \in [at : {"zenity", "kdialog"}, event : Ids]
      OBVIOUS
    <3>2. tried' = tried \/ \E x \in Tries : tried' = Append(tried, x)
      BY <2>2
    <3>3. tried' \in Seq(Tries)
      <4>1. tried \in Seq(Tries)
        BY <1>0 DEF ClickTypes
      <4>2. \A x \in Tries : Append(tried, x) \in Seq(Tries)
        BY <4>1, Appended
      <4> QED BY <3>2, <4>1, <4>2
    <3> QED BY <2>2, <2>3, <3>1, <3>3, Zenon
  <2>5. invoked' \in Seq(Clicks) /\ Ids' = Ids /\ UNCHANGED <<consumer, closed, clicks, early>>
    BY <1>0, <1>5, Shifted DEF ClickTypes, TakeInvoked, toastVars, Ids
  <2> QED BY <1>0, <2>4, <2>5 DEF ClickTypes, Clicks
<1>6. CASE PromptText
  <2>1. PICK f \in [DOMAIN tried -> DOMAIN clicks], g \in [DOMAIN invoked -> DOMAIN clicks], p \in 0 .. Len(clicks) :
            Consumed(f, g, p)
    BY DEF DeskInv, InOrder
  <2>2. PICK x \in Tries : tried' = Append(tried, x)
    BY <1>0, <1>6, <2>1, PromptForms
  <2>3. tried' \in Seq(Tries)
    BY <1>0, <2>2, Appended DEF ClickTypes
  <2> QED BY <1>0, <1>6, <2>3 DEF ClickTypes, Clicks, PromptText, toastVars, Ids
<1>7. CASE PromptNext
  <2>1. prompt \in [at : {"zenity", "kdialog"}, event : Ids]
    BY <1>0, <1>7 DEF PromptNext, ClickTypes, NoPrompt
  <2> QED BY <1>0, <1>7, <2>1 DEF ClickTypes, Clicks, PromptNext, toastVars, Ids
<1>8. CASE PromptDrop
  BY <1>0, <1>8 DEF ClickTypes, Clicks, PromptDrop, toastVars, Ids
<1>9. CASE TakeClosed
  <2>1. Head(closed) \in Ids /\ closed' \in Seq(Ids)
    BY <1>0, <1>9, Shifted DEF ClickTypes, TakeClosed
  <2> QED BY <1>0, <1>9, <2>1 DEF ClickTypes, Clicks, TakeClosed, Ids
<1>10. CASE StartBackend \/ \E c \in Consumers : Subscribe(c)
  <2>1. Ids' = Ids /\ UNCHANGED <<invoked, closed, prompt, tried, clicks, early>>
    BY <1>10 DEF StartBackend, Subscribe, toastVars, Ids
  <2>2. consumer' \in [Consumers -> {"off", "subscribing", "on", "gone"}]
    BY <1>0, <1>10 DEF StartBackend, Subscribe, ClickTypes
  <2> QED BY <1>1, <2>1, <2>2
<1>11. CASE \/ LoadConfig \/ LoadI18n \/ NoSessionBus \/ ConnectOk \/ ConnectFail \/ SessionEnd \/ Wake
            \/ NotifyOk \/ NotifyFail \/ Record \/ UNCHANGED vars
  <2>1. UNCHANGED clickVars /\ events' = events
    BY <1>11 DEF LoadConfig, LoadI18n, NoSessionBus, ConnectOk, ConnectFail, SessionEnd, Wake, NotifyOk, NotifyFail,
                 Record, vars, toastVars
  <2> QED BY <1>0, <1>1, <2>1 DEF clickVars, ClickTypes, Ids
<1> QED BY <1>2, <1>3, <1>4, <1>5, <1>6, <1>7, <1>8, <1>9, <1>10, <1>11 DEF Next

LEMMA TypesStep == ASSUME DeskInv, [Next]_vars PROVE DeskTypes'
<1>1. LoopTypes' /\ EventTypes' /\ ClickTypes'
  BY LoopTypesStep, EventTypesStep, ClickTypesStep DEF DeskInv
<1>2. (LoopTypes /\ EventTypes /\ ClickTypes)' => DeskTypes'
  BY DEF DeskTypes, TypeOK, LoopTypes, EventTypes, ClickTypes, Clicks, Keys
<1> QED BY <1>1, <1>2

-----------------------------------------------------------------------------
(***************************************************************************)
(* The configuration.                                                      *)
(***************************************************************************)
LEMMA ConfiguredStep == ASSUME Configured, [Next]_vars PROVE Configured'
<1>1. CASE LoadConfig
  <2>1. setup \in Setups /\ proc' # "load"
    BY <1>1 DEF Configured, LoadConfig
  <2>2. CASE RejectedSetup(setup)
    BY <1>1, <2>2 DEF LoadConfig, Configured
  <2>3. CASE ~RejectedSetup(setup)
    <3>1. cfg' = Config(setup)
      BY <1>1, <2>3 DEF LoadConfig
    <3> QED BY <2>1, <2>3, <3>1 DEF Configured
  <2> QED BY <2>2, <2>3
<1>2. CASE UNCHANGED <<confVars, proc>>
  BY <1>2 DEF confVars, Configured
<1>3. CASE LoadI18n \/ StartBackend \/ NoSessionBus \/ ConnectOk \/ ConnectFail \/ SessionEnd \/ Wake
  <2>1. proc' # "load" /\ proc \notin {"load", "exit"} /\ UNCHANGED confVars
    BY <1>3 DEF LoadI18n, StartBackend, NoSessionBus, ConnectOk, ConnectFail, SessionEnd, Wake, BackOff
  <2> QED BY <2>1 DEF confVars, Configured
<1>4. ASSUME NEW t \in open, Close(t) \/ \E key \in t.toast.actions : Click(t, key) PROVE Configured'
  BY <1>2, <1>4 DEF Close, Click, loopVars
<1>5. CASE \/ (\E c \in Consumers : Subscribe(c)) \/ (\E k \in Kinds : Receive(k)) \/ NotifyOk \/ NotifyFail \/ Record
           \/ TakeInvoked \/ PromptText \/ PromptNext \/ PromptDrop \/ TakeClosed \/ UNCHANGED vars
  BY <1>2, <1>5 DEF Subscribe, Receive, NotifyOk, NotifyFail, Record, TakeInvoked, PromptText, PromptNext, PromptDrop,
                    TakeClosed, vars, loopVars
<1> QED BY <1>1, <1>3, <1>4, <1>5 DEF Next

\* A path ends with another if the last positions agree.
LEMMA EndsWithMeans ==
    ASSUME NEW S, NEW s \in Seq(S), NEW t \in Seq(S), NEW d \in Nat, Len(s) = Len(t) + d
    PROVE  EndsWith(s, t) <=> \A i \in 1 .. Len(t) : s[d + i] = t[i]
<1>1. Len(s) \in Nat /\ Len(t) \in Nat /\ DOMAIN s = 1 .. Len(s)
  BY LenProperties
<1>2. Len(s) - Len(t) + 1 = d + 1 /\ Len(s) >= Len(t)
  BY <1>1
<1>3. \A i \in d + 1 .. Len(s) : s[i] \in S
  BY <1>1, ElementOfSeq
<1> DEFINE u == SubSeq(s, d + 1, Len(s))
<1>4. EndsWith(s, t) <=> u = t
  BY <1>2, Zenon DEF EndsWith
<1>5. /\ u \in Seq(S) /\ Len(u) = IF d + 1 <= Len(s) THEN Len(s) - (d + 1) + 1 ELSE 0
      /\ \A i \in 1 .. Len(s) - (d + 1) + 1 : u[i] = s[d + 1 + i - 1]
  BY <1>1, <1>3, SubSeqProperties
<1> HIDE DEF u
<1>6. /\ Len(s) - (d + 1) + 1 = Len(t) /\ (d + 1 <= Len(s) <=> Len(t) # 0)
      /\ \A i \in 1 .. Len(t) : d + 1 + i - 1 = d + i
  BY <1>1
<1>7. Len(u) = Len(t) /\ \A i \in 1 .. Len(t) : u[i] = s[d + i]
  BY <1>1, <1>5, <1>6
<1>8. u = t <=> \A i \in 1 .. Len(t) : u[i] = t[i]
  BY <1>5, <1>7, SeqEqual
<1> QED BY <1>4, <1>7, <1>8

\* ... for one position, and for two.
LEMMA EndsWithOneOrTwo ==
    ASSUME NEW S, NEW s \in Seq(S), NEW a \in S, NEW b \in S
    PROVE  /\ EndsWith(s, <<a>>) <=> Len(s) >= 1 /\ s[Len(s)] = a
           /\ EndsWith(s, <<a, b>>) <=> Len(s) >= 2 /\ s[Len(s) - 1] = a /\ s[Len(s)] = b
<1>1. Len(s) \in Nat
  OBVIOUS
<1>2. ASSUME NEW t \in Seq(S), Len(t) = 1, t[1] = a PROVE EndsWith(s, t) <=> Len(s) >= 1 /\ s[Len(s)] = a
  <2>1. CASE Len(s) = 0
    BY <1>2, <2>1 DEF EndsWith
  <2>2. CASE Len(s) # 0
    <3>1. PICK d \in Nat : Len(s) = Len(t) + d /\ d + 1 = Len(s)
      BY <1>1, <1>2, <2>2
    <3>2. EndsWith(s, t) <=> \A i \in 1 .. Len(t) : s[d + i] = t[i]
      BY <3>1, EndsWithMeans
    <3>3. (\A i \in 1 .. Len(t) : s[d + i] = t[i]) <=> s[d + 1] = a
      BY <1>2
    <3> QED BY <1>1, <2>2, <3>1, <3>2, <3>3
  <2> QED BY <2>1, <2>2
<1>3. ASSUME NEW t \in Seq(S), Len(t) = 2, t[1] = a, t[2] = b
      PROVE  EndsWith(s, t) <=> Len(s) >= 2 /\ s[Len(s) - 1] = a /\ s[Len(s)] = b
  <2>1. CASE ~(Len(s) >= 2)
    BY <1>3, <2>1 DEF EndsWith
  <2>2. CASE Len(s) >= 2
    <3>1. PICK d \in Nat : Len(s) = Len(t) + d /\ d + 1 = Len(s) - 1 /\ d + 2 = Len(s)
      BY <1>1, <1>3, <2>2
    <3>2. EndsWith(s, t) <=> \A i \in 1 .. Len(t) : s[d + i] = t[i]
      BY <3>1, EndsWithMeans
    <3>3. (\A i \in 1 .. Len(t) : s[d + i] = t[i]) <=> s[d + 1] = a /\ s[d + 2] = b
      BY <1>3
    <3> QED BY <2>2, <3>1, <3>2, <3>3
  <2> QED BY <2>1, <2>2
<1>4. /\ <<a>> \in Seq(S) /\ Len(<<a>>) = 1 /\ <<a>>[1] = a
      /\ <<a, b>> \in Seq(S) /\ Len(<<a, b>>) = 2 /\ <<a, b>>[1] = a /\ <<a, b>>[2] = b
  OBVIOUS
<1> QED BY <1>2, <1>3, <1>4

\* The five paths a daemon may be given by.
LEMMA PathTable ==
    ASSUME NEW path \in Paths PROVE WsPath(path) \in {<<"ws", "display">>, <<"base", "ws", "display">>}
<1>0. PICK S : S = {"ws", "display", "base"}
  OBVIOUS
<1>1. /\ <<>> \in Seq(S) /\ <<"ws">> \in Seq(S) /\ <<"ws", "display">> \in Seq(S) /\ <<"base">> \in Seq(S)
      /\ <<"base", "ws">> \in Seq(S) /\ <<"base", "ws", "display">> \in Seq(S)
      /\ "ws" \in S /\ "display" \in S
  BY <1>0
<1>2. \A s \in Seq(S) : /\ EndsWith(s, <<"ws">>) <=> Len(s) >= 1 /\ s[Len(s)] = "ws"
                        /\ EndsWith(s, <<"ws", "display">>) <=>
                               Len(s) >= 2 /\ s[Len(s) - 1] = "ws" /\ s[Len(s)] = "display"
  BY <1>1, EndsWithOneOrTwo
<1>3. ~EndsWith(<<>>, <<"ws", "display">>) /\ ~EndsWith(<<>>, <<"ws">>)
  <2>1. ~(Len(<<>>) >= 2) /\ ~(Len(<<>>) >= 1)
    OBVIOUS
  <2> QED BY <1>1, <1>2, <2>1, Zenon
<1>4. ~EndsWith(<<"base">>, <<"ws", "display">>) /\ ~EndsWith(<<"base">>, <<"ws">>)
  BY <1>1, <1>2
<1>5. ~EndsWith(<<"ws">>, <<"ws", "display">>) /\ EndsWith(<<"ws">>, <<"ws">>)
  <2>1. ~(Len(<<"ws">>) >= 2) /\ Len(<<"ws">>) >= 1 /\ <<"ws">>[Len(<<"ws">>)] = "ws"
    OBVIOUS
  <2> QED BY <1>1, <1>2, <2>1, Zenon
<1>6. ~EndsWith(<<"base", "ws">>, <<"ws", "display">>) /\ EndsWith(<<"base", "ws">>, <<"ws">>)
  BY <1>1, <1>2
<1>7. EndsWith(<<"ws", "display">>, <<"ws", "display">>) /\ ~EndsWith(<<"ws", "display">>, <<"ws">>)
  BY <1>1, <1>2
<1>8. <<>> \o <<"ws", "display">> = <<"ws", "display">>
  BY <1>1, ConcatEmptySeq
<1>9. <<"base">> \o <<"ws", "display">> = <<"base", "ws", "display">>
  <2>1. /\ <<"base">> \o <<"ws", "display">> \in Seq(S) /\ Len(<<"base">> \o <<"ws", "display">>) = 3
        /\ \A i \in 1 .. 3 : (<<"base">> \o <<"ws", "display">>)[i] =
               IF i <= 1 THEN <<"base">>[i] ELSE <<"ws", "display">>[i - 1]
    BY <1>1, ConcatProperties
  <2>2. \A i \in 1 .. 3 : (<<"base">> \o <<"ws", "display">>)[i] = <<"base", "ws", "display">>[i]
    BY <2>1
  <2> QED BY <1>1, <2>1, <2>2, SeqEqual
<1>10. Append(<<"ws">>, "display") = <<"ws", "display">>
  <2>1. /\ Append(<<"ws">>, "display") \in Seq(S) /\ Len(Append(<<"ws">>, "display")) = 2
        /\ \A i \in 1 .. 2 : Append(<<"ws">>, "display")[i] = <<"ws", "display">>[i]
    BY <1>1
  <2> QED BY <1>1, <2>1, SeqEqual
<1>11. Append(<<"base", "ws">>, "display") = <<"base", "ws", "display">>
  <2>1. /\ Append(<<"base", "ws">>, "display") \in Seq(S) /\ Len(Append(<<"base", "ws">>, "display")) = 3
        /\ \A i \in 1 .. 3 : Append(<<"base", "ws">>, "display")[i] = <<"base", "ws", "display">>[i]
    BY <1>1
  <2> QED BY <1>1, <2>1, SeqEqual
<1> QED BY <1>3, <1>4, <1>5, <1>6, <1>7, <1>8, <1>9, <1>10, <1>11 DEF Paths, WsPath

\* What DialsDaemon takes from the configuration.
LEMMA ConfiguredDials == SetupsAssumption /\ Configured => DialsDaemon
<1> SUFFICES ASSUME SetupsAssumption, Configured, proc = "connected"
             PROVE  /\ cfg.path \in {<<"ws", "display">>, <<"base", "ws", "display">>}
                    /\ cfg.url = "foreign" => cfg.token # ""
  BY DEF DialsDaemon
<1>1. PICK s \in Setups : ~RejectedSetup(s) /\ cfg = Config(s)
  BY DEF Configured
<1>2. s \in AllSetups
  BY SetupsAssumption
<1>3. PathOf(s) \in Paths
  BY <1>2 DEF AllSetups, PathOf, Paths
<1>4. cfg.url = UrlOf(s) /\ cfg.path = WsPath(PathOf(s)) /\ cfg.token = Token(s)
  BY <1>1 DEF Config
<1> QED BY <1>1, <1>3, <1>4, PathTable DEF RejectedSetup

-----------------------------------------------------------------------------
(***************************************************************************)
(* The delay.                                                              *)
(***************************************************************************)
\* The delay after n failures.
Delay(n) == Least(InitialBackoff * 2 ^ n, MaxBackoff)

Delayed ==
    failures < MaxFailures =>
        IF proc = "sleep" THEN failures >= 1 /\ backoff = Delay(failures - 1) ELSE backoff = Delay(failures)

\* One failure more doubles the delay, up to its limit.
LEMMA DelayDoubles ==
    ASSUME NEW n \in 0 .. MaxFailures PROVE Delay(n + 1) = Least(2 * Delay(n), MaxBackoff) /\ Delay(n) \in Nat
<1>1. PICK i \in Nat, x \in Nat, m \in Nat : i = InitialBackoff /\ x = 2 ^ n /\ m = MaxBackoff
  BY DeskAssumption, PowersAssumption
<1>2. 2 ^ (n + 1) = 2 * x
  BY <1>1, PowersAssumption
<1>3. i * x \in Nat /\ i * (2 * x) = 2 * (i * x)
  OBVIOUS
<1>4. \A y \in Nat : Least(2 * y, m) = Least(2 * Least(y, m), m) /\ Least(y, m) \in Nat
  BY DEF Least
<1>5. Delay(n) = Least(i * x, m) /\ Delay(n + 1) = Least(2 * (i * x), m)
  BY <1>1, <1>2, <1>3 DEF Delay
<1> QED BY <1>1, <1>3, <1>4, <1>5

LEMMA DelayedStep == ASSUME LoopTypes, Delayed, [Next]_vars PROVE Delayed'
<1>0. /\ failures \in Nat /\ failures <= MaxFailures /\ MaxFailures \in Nat
      /\ Least(failures + 1, MaxFailures) < MaxFailures => Least(failures + 1, MaxFailures) = failures + 1
      /\ failures + 1 >= 1 /\ (failures + 1) - 1 = failures
  BY DeskAssumption DEF LoopTypes, Least
<1>1. CASE UNCHANGED <<backoff, failures>> /\ proc # "sleep" /\ proc' # "sleep"
  BY <1>1 DEF Delayed
<1>2. ASSUME BackOff, UNCHANGED backoff, proc # "sleep" PROVE Delayed'
  BY <1>0, <1>2 DEF BackOff, Delayed
<1>3. CASE UNCHANGED loopVars
  BY <1>3 DEF loopVars, Delayed
<1>4. CASE LoadConfig \/ LoadI18n \/ StartBackend \/ NoSessionBus \/ ConnectOk
  BY <1>1, <1>4 DEF LoadConfig, LoadI18n, StartBackend, NoSessionBus, ConnectOk
<1>5. CASE ConnectFail
  BY <1>2, <1>5 DEF ConnectFail
<1>6. CASE SessionEnd
  <2>1. CASE BackOff /\ UNCHANGED backoff
    BY <1>2, <1>6, <2>1 DEF SessionEnd
  <2>2. CASE proc' = "session" /\ failures' = 0 /\ backoff' = InitialBackoff
    <3>1. Delay(0) = InitialBackoff
      BY DeskAssumption, PowersAssumption DEF Delay, Least
    <3> QED BY <2>2, <3>1 DEF Delayed
  <2> QED BY <1>6, <2>1, <2>2 DEF SessionEnd
<1>7. CASE Wake
  <2> SUFFICES ASSUME failures < MaxFailures PROVE backoff' = Delay(failures) /\ failures' = failures /\ proc' # "sleep"
    BY <1>7 DEF Wake, Delayed
  <2>1. failures >= 1 /\ backoff = Delay(failures - 1)
    BY <1>7 DEF Wake, Delayed
  <2>2. PICK n \in 0 .. MaxFailures : n = failures - 1 /\ n + 1 = failures
    BY <1>0, <2>1
  <2>3. Delay(n + 1) = Least(2 * backoff, MaxBackoff)
    BY <2>1, <2>2, DelayDoubles
  <2> QED BY <1>7, <2>2, <2>3 DEF Wake
<1>8. ASSUME NEW t \in open, Close(t) \/ \E key \in t.toast.actions : Click(t, key) PROVE Delayed'
  BY <1>3, <1>8 DEF Close, Click
<1>9. CASE \/ (\E c \in Consumers : Subscribe(c)) \/ (\E k \in Kinds : Receive(k)) \/ NotifyOk \/ NotifyFail \/ Record
           \/ TakeInvoked \/ PromptText \/ PromptNext \/ PromptDrop \/ TakeClosed \/ UNCHANGED vars
  BY <1>3, <1>9 DEF Subscribe, Receive, NotifyOk, NotifyFail, Record, TakeInvoked, PromptText, PromptNext, PromptDrop,
                    TakeClosed, vars
<1> QED BY <1>4, <1>5, <1>6, <1>7, <1>8, <1>9 DEF Next

-----------------------------------------------------------------------------
(***************************************************************************)
(* What is on the screen, in the map and among the clicks is of its event. *)
(***************************************************************************)
LEMMA UnderWayStep == ASSUME DeskTypes, UnderWay, [Next]_vars PROVE UnderWay'
<1>0. EventTypes
  BY TypeParts
<1>1. CASE UNCHANGED toastVars
  BY <1>1 DEF toastVars, UnderWay
<1>2. ASSUME NEW k \in Kinds, Receive(k) PROVE UnderWay'
  <2>1. events' = Append(events, k) /\ map' = map
    BY <1>2 DEF Receive
  <2>2. presenting' = Idle \/ presenting' = [at |-> "notify", event |-> Len(events) + 1]
    BY <1>2 DEF Receive
  <2>3. Len(events') = Len(events) + 1 /\ \A r \in map : r.event # Len(events) + 1
    BY <1>0, <2>1, EventsGrow DEF EventTypes
  <2> QED BY <2>1, <2>2, <2>3 DEF UnderWay
<1>3. CASE NotifyOk
  <2>1. presenting # Idle /\ presenting'.event = presenting.event
    BY <1>0, <1>3 DEF NotifyOk, EventTypes, Idle
  <2> QED BY <1>3, <2>1 DEF NotifyOk, UnderWay
<1>4. CASE NotifyFail \/ Record
  BY <1>4 DEF NotifyFail, Record, UnderWay
<1>5. ASSUME NEW t \in open, Close(t) PROVE UnderWay'
  BY <1>5 DEF Close, UnderWay
<1>6. CASE TakeClosed
  BY <1>6 DEF TakeClosed, UnderWay
<1>7. ASSUME NEW t \in open, NEW key \in t.toast.actions, Click(t, key) PROVE UnderWay'
  BY <1>1, <1>7 DEF Click
<1>8. CASE \/ LoadConfig \/ LoadI18n \/ StartBackend \/ NoSessionBus
           \/ (\E c \in Consumers : Subscribe(c)) \/ ConnectOk \/ ConnectFail \/ SessionEnd \/ Wake
           \/ TakeInvoked \/ PromptText \/ PromptNext \/ PromptDrop \/ UNCHANGED vars
  BY <1>1, <1>8 DEF LoadConfig, LoadI18n, StartBackend, NoSessionBus, Subscribe, ConnectOk, ConnectFail,
                    SessionEnd, Wake, TakeInvoked, PromptText, PromptNext, PromptDrop, vars
<1> QED BY <1>2, <1>3, <1>4, <1>5, <1>6, <1>7, <1>8 DEF Next

LEMMA OfItsEventStep == ASSUME DeskTypes, OfItsEvent, [Next]_vars PROVE OfItsEvent'
<1>0. EventTypes /\ ClickTypes
  BY TypeParts
<1>1. CASE UNCHANGED <<toastVars, clicks>>
  BY <1>1 DEF toastVars, OfItsEvent, Ref
<1>2. ASSUME NEW k \in Kinds, Receive(k) PROVE OfItsEvent'
  <2>1. events' = Append(events, k) /\ UNCHANGED <<open, map, clicks>>
    BY <1>2 DEF Receive, clickVars
  <2>2. \A n \in Ids : events'[n] = events[n]
    BY <2>1, EventsGrow
  <2>3. \A t \in open : t.toast = MockPresent(events'[t.id])
    BY <1>0, <2>2 DEF EventTypes, OfItsEvent
  <2>4. \A r \in map : r.event \in Ids /\ r = [event |-> r.event, address |-> PresentLinux(events'[r.event]).address,
                                              call |-> PresentLinux(events'[r.event]).call]
    <3> SUFFICES ASSUME NEW r \in map
                 PROVE  r.event \in Ids /\ r = [event |-> r.event, address |-> PresentLinux(events'[r.event]).address,
                                                call |-> PresentLinux(events'[r.event]).call]
      OBVIOUS
    <3>1. r.event \in Ids
      BY <1>0 DEF EventTypes
    <3>2. r = [event |-> r.event, address |-> PresentLinux(events[r.event]).address,
               call |-> PresentLinux(events[r.event]).call]
      BY Zenon DEF OfItsEvent, Ref
    <3>3. events'[r.event] = events[r.event]
      BY <2>2, <3>1
    <3> QED BY <3>1, <3>2, <3>3
  <2>5. \A c \in DOMAIN clicks : clicks[c].key \in MockPresent(events'[clicks[c].id]).actions
    <3>1. \A c \in DOMAIN clicks : clicks[c].id \in Ids
      BY ActionOfClick
    <3> QED BY <2>2, <3>1 DEF OfItsEvent
  <2>6. \A key \in DOMAIN pending' : pending'[key] # 0 => key \in MockPresent(events'[pending'[key]]).actions
    <3>1. DOMAIN pending = Keys /\ \A key \in Keys : pending[key] \in Ids \cup {0}
      BY <1>0 DEF EventTypes
    <3>2. ASSUME NEW key \in Keys, pending[key] # 0 PROVE key \in MockPresent(events'[pending[key]]).actions
      <4>1. pending[key] \in Ids /\ key \in MockPresent(events[pending[key]]).actions
        BY <3>1, <3>2 DEF OfItsEvent
      <4> QED BY <2>2, <4>1
    <3>3. CASE pending' = pending
      BY <3>1, <3>2, <3>3
    <3>4. CASE pending' = FileButtons(Len(events) + 1, k)
      <4>1. events'[Len(events) + 1] = k
        BY <2>1, EventsGrow
      <4>2. ASSUME NEW key \in DOMAIN pending', pending'[key] # 0
            PROVE  key \in MockPresent(events'[pending'[key]]).actions
        <5>1. key \in Keys
          BY <3>1, <3>4, <4>2 DEF FileButtons
        <5>2. CASE key \in TranslateViaEvent(k).actions
          <6>1. pending'[key] = Len(events) + 1
            BY <3>1, <3>4, <5>1, <5>2 DEF FileButtons
          <6>2. key \in MockPresent(k).actions
            BY <5>2, ToastTable
          <6> QED BY <4>1, <6>1, <6>2
        <5>3. CASE key \notin TranslateViaEvent(k).actions
          <6>1. pending'[key] = pending[key]
            BY <3>1, <3>4, <5>1, <5>3 DEF FileButtons
          <6> QED BY <3>2, <4>2, <5>1, <6>1
        <5> QED BY <5>2, <5>3
      <4> QED BY <4>2
    <3> QED BY <1>2, <3>3, <3>4 DEF Receive
  <2> QED BY <2>1, <2>3, <2>4, <2>5, <2>6, Zenon DEF OfItsEvent, Ref
<1>3. CASE NotifyOk
  <2>1. presenting.event \in Ids
    BY <1>0, <1>3 DEF NotifyOk, EventTypes, Idle
  <2>2. PresentLinux(events[presenting.event]).toast = MockPresent(events[presenting.event])
    BY <2>1, IdsOK, ToastTable
  <2>3. \A t \in open' : t.toast = MockPresent(events[t.id])
    BY <1>3, <2>2 DEF NotifyOk, OfItsEvent
  <2> QED BY <1>3, <2>3 DEF NotifyOk, OfItsEvent, Ref, clickVars
<1>4. CASE NotifyFail
  BY <1>4 DEF NotifyFail, OfItsEvent, Ref, clickVars
<1>5. CASE Record
  <2>1. Ref(presenting.event).event = presenting.event
    BY DEF Ref
  <2>2. \A r \in map' : r = Ref(r.event)
    BY <1>5, <2>1 DEF Record, OfItsEvent
  <2> QED BY <1>5, <2>2 DEF Record, OfItsEvent, Ref, clickVars
<1>6. ASSUME NEW t \in open, Close(t) PROVE OfItsEvent'
  BY <1>6 DEF Close, OfItsEvent, Ref
<1>7. CASE TakeClosed
  BY <1>7 DEF TakeClosed, OfItsEvent, Ref
<1>8. ASSUME NEW t \in open, NEW key \in t.toast.actions, Click(t, key) PROVE OfItsEvent'
  <2>1. UNCHANGED toastVars
    BY <1>8 DEF Click
  <2>2. [id |-> t.id, key |-> key] \in Clicks /\ key \in MockPresent(events[t.id]).actions
    BY ButtonOK
  <2>3. clicks' = Append(clicks, [id |-> t.id, key |-> key])
    BY <1>8 DEF Click
  <2>4. \A c \in DOMAIN clicks' : clicks'[c].key \in MockPresent(events[clicks'[c].id]).actions
    BY <1>0, <2>2, <2>3, Appended DEF ClickTypes, OfItsEvent
  <2> QED BY <2>1, <2>4 DEF toastVars, OfItsEvent, Ref
<1>9. CASE \/ LoadConfig \/ LoadI18n \/ StartBackend \/ NoSessionBus
           \/ (\E c \in Consumers : Subscribe(c)) \/ ConnectOk \/ ConnectFail \/ SessionEnd \/ Wake
           \/ TakeInvoked \/ PromptText \/ PromptNext \/ PromptDrop \/ UNCHANGED vars
  BY <1>1, <1>9 DEF LoadConfig, LoadI18n, StartBackend, NoSessionBus, Subscribe, ConnectOk, ConnectFail,
                    SessionEnd, Wake, TakeInvoked, PromptText, PromptNext, PromptDrop, vars, clickVars
<1> QED BY <1>2, <1>3, <1>4, <1>5, <1>6, <1>7, <1>8, <1>9 DEF Next

-----------------------------------------------------------------------------
(***************************************************************************)
(* The map.                                                                *)
(***************************************************************************)
LEMMA NoLeakStep == ASSUME DeskTypes, UnderWay, NoLeak, [Next]_vars PROVE NoLeak'
<1>0. EventTypes /\ ClickTypes
  BY TypeParts
<1>1. ASSUME UNCHANGED <<open, closed, early>>, NEW e PROVE Explained(e) <=> Explained(e)'
  BY <1>1 DEF Explained
<1>2. ASSUME UNCHANGED <<open, closed, early, map>>, presenting' = presenting \/ presenting'.at # "record"
      PROVE  NoLeak'
  BY <1>2 DEF NoLeak, Explained
<1>3. ASSUME NEW k \in Kinds, Receive(k) PROVE NoLeak'
  <2>1. presenting'.at # "record"
    BY <1>3 DEF Receive, Idle
  <2> QED BY <1>2, <1>3, <2>1 DEF Receive, clickVars
<1>4. CASE NotifyOk
  <2>1. presenting'.event = presenting.event /\ UNCHANGED <<map, closed, early>>
    BY <1>0, <1>4 DEF NotifyOk, EventTypes, Idle, clickVars
  <2>2. open \subseteq open' /\ \E t \in open' : t.id = presenting.event
    <3>1. PICK new : new = [id |-> presenting.event, toast |-> PresentLinux(events[presenting.event]).toast]
      OBVIOUS
    <3>2. open' = open \cup {new}
      BY <1>4, <3>1 DEF NotifyOk
    <3>3. new.id = presenting.event
      BY <3>1
    <3> QED BY <3>2, <3>3
  <2> QED BY <2>1, <2>2 DEF NoLeak, Explained
<1>5. CASE NotifyFail
  BY <1>2, <1>5 DEF NotifyFail, Idle, clickVars
<1>6. CASE Record
  <2>1. Explained(presenting.event) /\ Ref(presenting.event).event = presenting.event
    BY <1>6 DEF Record, NoLeak, Ref
  <2>2. UNCHANGED <<open, closed, early>> /\ presenting'.at # "record"
    BY <1>6 DEF Record, Idle, clickVars
  <2>3. \A r \in map' : Explained(r.event)
    BY <1>6, <2>1 DEF Record, NoLeak
  <2> QED BY <2>2, <2>3 DEF NoLeak, Explained
<1>7. ASSUME NEW t \in open, Close(t) PROVE NoLeak'
  <2>1. open' = open \ {t} /\ UNCHANGED <<map, presenting>>
    BY <1>7 DEF Close
  <2>2. t.id \in early' \/ \E i \in DOMAIN closed' : closed'[i] = t.id
    <3>1. closed \in Seq(Ids) /\ t.id \in Ids
      BY <1>0 DEF EventTypes, ClickTypes
    <3>2. Len(closed) + 1 \in DOMAIN Append(closed, t.id) /\ Append(closed, t.id)[Len(closed) + 1] = t.id
      BY <3>1, Appended
    <3> QED BY <1>7, <3>2 DEF Close
  <2>3. early \subseteq early' /\ \A i \in DOMAIN closed : i \in DOMAIN closed' /\ closed'[i] = closed[i]
    BY <1>0, <1>7, Appended DEF EventTypes, ClickTypes, Close
  <2>4. ASSUME NEW e, Explained(e)
        PROVE  \/ \E u \in open' : u.id = e
               \/ \E i \in DOMAIN closed' : closed'[i] = e
               \/ e \in early'
    BY <2>1, <2>2, <2>3, <2>4 DEF Explained
  <2> QED BY <2>1, <2>4 DEF NoLeak, Explained
<1>8. CASE TakeClosed
  <2>1. UNCHANGED <<open, presenting>> /\ early \subseteq early' /\ map' = {r \in map : r.event # Head(closed)}
        /\ ((\A r \in map : r.event # Head(closed)) => Head(closed) \in early')
    BY <1>8 DEF TakeClosed
  <2>2. \A i \in DOMAIN closed : closed[i] = Head(closed) \/ \E j \in DOMAIN closed' : closed'[j] = closed[i]
    <3>1. closed \in Seq(Ids) /\ closed # <<>> /\ closed' = Tail(closed)
      BY <1>0, <1>8 DEF ClickTypes, TakeClosed
    <3> QED BY <3>1, Shifted
  <2>3. ASSUME NEW e, Explained(e), e # Head(closed) \/ \A r \in map : r.event # e
        PROVE  \/ \E u \in open' : u.id = e
               \/ \E i \in DOMAIN closed' : closed'[i] = e
               \/ e \in early'
    BY <2>1, <2>2, <2>3 DEF Explained
  <2>4. presenting.at = "record" => \A r \in map : r.event # presenting.event
    BY DEF UnderWay, Idle
  <2> QED BY <2>1, <2>3, <2>4 DEF NoLeak, Explained
<1>9. ASSUME NEW t \in open, NEW key \in t.toast.actions, Click(t, key) PROVE NoLeak'
  BY <1>2, <1>9 DEF Click, toastVars
<1>10. CASE \/ LoadConfig \/ LoadI18n \/ StartBackend \/ NoSessionBus
            \/ (\E c \in Consumers : Subscribe(c)) \/ ConnectOk \/ ConnectFail \/ SessionEnd \/ Wake
            \/ TakeInvoked \/ PromptText \/ PromptNext \/ PromptDrop \/ UNCHANGED vars
  BY <1>2, <1>10 DEF LoadConfig, LoadI18n, StartBackend, NoSessionBus, Subscribe, ConnectOk, ConnectFail,
                     SessionEnd, Wake, TakeInvoked, PromptText, PromptNext, PromptDrop, vars, toastVars, clickVars
<1> QED BY <1>3, <1>4, <1>5, <1>6, <1>7, <1>8, <1>9, <1>10 DEF Next

-----------------------------------------------------------------------------
(***************************************************************************)
(* The order of the clicks.                                                *)
(***************************************************************************)
\* The click behind an action tried last.
LEMMA TriedMore ==
    ASSUME DeskTypes, NEW x \in Tries, tried' = Append(tried, x), NEW c \in DOMAIN clicks, c \in Nat,
           NEW f \in [DOMAIN tried -> DOMAIN clicks],
           \A i, j \in DOMAIN tried : i < j => f[i] < f[j], \A i \in DOMAIN tried : f[i] < c
    PROVE  \E F \in [DOMAIN tried' -> DOMAIN clicks] :
              /\ \A i, j \in DOMAIN tried' : i < j => F[i] < F[j]
              /\ \A i \in DOMAIN tried' : (F[i] = c /\ tried'[i] = x)
                                          \/ (i \in DOMAIN tried /\ F[i] = f[i] /\ tried'[i] = tried[i])
<1>1. tried \in Seq(Tries)
  BY DEF DeskTypes
<1>2. /\ Len(tried) \in Nat /\ DOMAIN tried = 1 .. Len(tried) /\ DOMAIN tried' = 1 .. Len(tried) + 1
      /\ tried'[Len(tried) + 1] = x
      /\ \A i \in DOMAIN tried : tried'[i] = tried[i] /\ i \in DOMAIN tried' /\ i < Len(tried) + 1 /\ i \in Nat
      /\ \A i \in DOMAIN tried' : i = Len(tried) + 1 \/ i \in DOMAIN tried
      /\ Len(tried) + 1 \notin DOMAIN tried /\ ~(Len(tried) + 1 < Len(tried) + 1)
      /\ \A i \in DOMAIN tried : ~(Len(tried) + 1 < i)
  BY <1>1, Appended
<1> DEFINE F == [i \in DOMAIN tried' |-> IF i \in DOMAIN tried THEN f[i] ELSE c]
<1>3. F \in [DOMAIN tried' -> DOMAIN clicks]
  OBVIOUS
<1>4. F[Len(tried) + 1] = c /\ \A i \in DOMAIN tried : F[i] = f[i]
  BY <1>2
<1> HIDE DEF F
<1>5. \A i, j \in DOMAIN tried' : i < j => F[i] < F[j]
  BY <1>2, <1>4
<1>6. \A i \in DOMAIN tried' : (F[i] = c /\ tried'[i] = x)
                               \/ (i \in DOMAIN tried /\ F[i] = f[i] /\ tried'[i] = tried[i])
  BY <1>2, <1>4
<1> QED BY <1>3, <1>5, <1>6

\* The clicks behind the signals, when the first is consumed.
LEMMA InvokedLess ==
    ASSUME DeskTypes, invoked # <<>>, invoked' = Tail(invoked), NEW g \in [DOMAIN invoked -> DOMAIN clicks],
           \A i, j \in DOMAIN invoked : i < j => g[i] < g[j], \A i \in DOMAIN invoked : invoked[i] = clicks[g[i]]
    PROVE  \E G \in [DOMAIN invoked' -> DOMAIN clicks] :
              /\ \A i, j \in DOMAIN invoked' : i < j => G[i] < G[j]
              /\ \A i \in DOMAIN invoked' : g[1] < G[i] /\ invoked'[i] = clicks[G[i]]
<1>1. invoked \in Seq(Clicks)
  BY TypeParts DEF ClickTypes
<1>2. /\ 1 \in DOMAIN invoked
      /\ \A i \in DOMAIN invoked' : invoked'[i] = invoked[i + 1] /\ i + 1 \in DOMAIN invoked /\ i \in Nat /\ 1 < i + 1
  BY <1>1, Shifted
<1> DEFINE G == [i \in DOMAIN invoked' |-> g[i + 1]]
<1>3. G \in [DOMAIN invoked' -> DOMAIN clicks] /\ \A i \in DOMAIN invoked' : G[i] = g[i + 1]
  BY <1>2
<1> HIDE DEF G
<1>4. \A i, j \in DOMAIN invoked' : i < j => i + 1 < j + 1
  BY <1>2
<1>5. \A i, j \in DOMAIN invoked' : i < j => G[i] < G[j]
  BY <1>2, <1>3, <1>4
<1>6. \A i \in DOMAIN invoked' : g[1] < G[i] /\ invoked'[i] = clicks[G[i]]
  BY <1>2, <1>3
<1> QED BY <1>3, <1>5, <1>6

LEMMA InOrderStep == ASSUME DeskInv, [Next]_vars PROVE InOrder'
<1>0. DeskTypes /\ OfItsEvent /\ ClickTypes /\ EventTypes
  BY TypeParts DEF DeskInv
<1>1. PICK f \in [DOMAIN tried -> DOMAIN clicks], g \in [DOMAIN invoked -> DOMAIN clicks], p \in 0 .. Len(clicks) :
          Consumed(f, g, p)
  BY DEF DeskInv, InOrder
<1>2. clicks \in Seq(Clicks) /\ DOMAIN clicks = 1 .. Len(clicks) /\ Len(clicks) \in Nat /\ DOMAIN clicks \subseteq Nat
  BY <1>0 DEF ClickTypes
<1>4. CASE UNCHANGED <<events, tried, prompt, invoked, clicks>>
  <2>1. Consumed(f, g, p)'
    BY <1>1, <1>4 DEF Consumed, ActionOf, Ref
  <2> QED BY <1>1, <1>4, <2>1 DEF InOrder
<1>5. ASSUME NEW k \in Kinds, Receive(k) PROVE InOrder'
  <2>1. events' = Append(events, k) /\ UNCHANGED clickVars
    BY <1>5 DEF Receive
  <2>2. ASSUME NEW c \in DOMAIN clicks PROVE ActionForKey(clicks[c].key, Ref(clicks[c].id)') = ActionOf(clicks[c])
    <3>1. clicks[c].id \in Ids
      BY <1>0, ActionOfClick
    <3>2. events'[clicks[c].id] = events[clicks[c].id]
      BY <1>0, <2>1, <3>1, EventsGrow
    <3> QED BY <2>1, <3>2 DEF ActionOf, Ref, clickVars
  <2>3. Consumed(f, g, p)'
    BY <1>1, <2>1, <2>2 DEF Consumed, ActionOf, clickVars
  <2> QED BY <1>1, <2>1, <2>3 DEF InOrder, clickVars
<1>6. ASSUME NEW t \in open, NEW key \in t.toast.actions, Click(t, key) PROVE InOrder'
  <2>1. UNCHANGED <<events, tried, prompt>>
    BY <1>6 DEF Click, toastVars
  <2>2. PICK c \in Clicks : c = [id |-> t.id, key |-> key]
    BY <1>0, ButtonOK
  <2>3. clicks' = Append(clicks, c) /\ (invoked' = Append(invoked, c) \/ invoked' = invoked)
    BY <1>6, <2>2 DEF Click
  <2>4. /\ DOMAIN clicks' = 1 .. Len(clicks) + 1 /\ Len(clicks') = Len(clicks) + 1 /\ clicks'[Len(clicks) + 1] = c
        /\ \A i \in DOMAIN clicks : clicks'[i] = clicks[i] /\ i \in DOMAIN clicks' /\ i < Len(clicks) + 1
        /\ p \in 0 .. Len(clicks') /\ Len(clicks) + 1 \in DOMAIN clicks' /\ p < Len(clicks) + 1
    BY <1>2, <2>3, Appended
  <2>5. f \in [DOMAIN tried' -> DOMAIN clicks']
    BY <2>1, <2>4
  <2>6. \A i \in DOMAIN tried : tried'[i].action = ActionForKey(clicks'[f[i]].key, Ref(clicks'[f[i]].id))
    BY <1>1, <2>1, <2>4 DEF Consumed, ActionOf
  <2>7. ASSUME NEW G \in [DOMAIN invoked' -> DOMAIN clicks'],
               \A i, j \in DOMAIN invoked' : i < j => G[i] < G[j],
               \A i \in DOMAIN invoked' : p < G[i] /\ invoked'[i] = clicks'[G[i]]
        PROVE  InOrder'
    <3>1. Consumed(f, G, p)'
      BY <1>1, <2>1, <2>4, <2>6, <2>7 DEF Consumed, ActionOf, Ref
    <3> QED BY <2>4, <2>5, <3>1 DEF InOrder
  <2>8. CASE invoked' = invoked
    <3>1. g \in [DOMAIN invoked' -> DOMAIN clicks']
      BY <2>4, <2>8
    <3>2. /\ \A i, j \in DOMAIN invoked' : i < j => g[i] < g[j]
          /\ \A i \in DOMAIN invoked' : p < g[i] /\ invoked'[i] = clicks'[g[i]]
      BY <1>1, <2>4, <2>8 DEF Consumed
    <3> QED BY <2>7, <3>1, <3>2
  <2>9. CASE invoked' = Append(invoked, c)
    <3>1. invoked \in Seq(Clicks)
      BY <1>0 DEF ClickTypes
    <3>2. /\ Len(invoked) \in Nat /\ DOMAIN invoked' = 1 .. Len(invoked) + 1 /\ invoked'[Len(invoked) + 1] = c
          /\ \A i \in DOMAIN invoked : invoked'[i] = invoked[i] /\ i < Len(invoked) + 1 /\ i \in Nat
          /\ \A i \in DOMAIN invoked' : i = Len(invoked) + 1 \/ i \in DOMAIN invoked
          /\ Len(invoked) + 1 \notin DOMAIN invoked /\ ~(Len(invoked) + 1 < Len(invoked) + 1)
          /\ \A i \in DOMAIN invoked : ~(Len(invoked) + 1 < i)
          /\ Len(invoked) + 1 \in DOMAIN invoked'
      BY <2>9, <3>1, Appended
    <3> DEFINE G == [i \in DOMAIN invoked' |-> IF i \in DOMAIN invoked THEN g[i] ELSE Len(clicks) + 1]
    <3>3. G \in [DOMAIN invoked' -> DOMAIN clicks']
      BY <2>4
    <3>4. G[Len(invoked) + 1] = Len(clicks) + 1 /\ \A i \in DOMAIN invoked : i \in DOMAIN invoked' => G[i] = g[i]
      BY <3>2
    <3> HIDE DEF G
    <3>5. \A i \in DOMAIN invoked : g[i] \in DOMAIN clicks /\ p < g[i] /\ invoked[i] = clicks[g[i]]
      BY <1>1 DEF Consumed
    <3>6. \A i, j \in DOMAIN invoked' : i < j => G[i] < G[j]
      BY <1>1, <2>4, <3>2, <3>4, <3>5 DEF Consumed
    <3>7. \A i \in DOMAIN invoked' : p < G[i] /\ invoked'[i] = clicks'[G[i]]
      BY <2>4, <3>2, <3>4, <3>5
    <3> QED BY <2>7, <3>3, <3>6, <3>7
  <2> QED BY <2>3, <2>8, <2>9
<1>7. CASE TakeInvoked
  <2>1. invoked # <<>> /\ invoked' = Tail(invoked) /\ UNCHANGED <<events, clicks>> /\ prompt = NoPrompt
    BY <1>7 DEF TakeInvoked, toastVars
  <2>2. PICK q \in DOMAIN clicks : q = g[1] /\ 1 \in DOMAIN invoked
    BY <1>0, <1>1, <1>7, TakeInvokedForms
  <2>3. q \in Nat /\ q \in 0 .. Len(clicks) /\ p < q
    BY <1>1, <1>2, <2>2 DEF Consumed
  <2>4. PICK G \in [DOMAIN invoked' -> DOMAIN clicks] :
            /\ \A i, j \in DOMAIN invoked' : i < j => G[i] < G[j]
            /\ \A i \in DOMAIN invoked' : q < G[i] /\ invoked'[i] = clicks[G[i]]
    BY <1>0, <1>1, <2>1, <2>2, InvokedLess DEF Consumed
  <2>5. \A i \in DOMAIN tried : f[i] <= q /\ f[i] < q
    <3>1. \A i \in DOMAIN tried : f[i] \in Nat /\ f[i] <= p
      BY <1>1, <1>2 DEF Consumed
    <3> QED BY <2>3, <3>1
  <2>6. \A i \in DOMAIN tried : tried[i].action = ActionForKey(clicks[f[i]].key, Ref(clicks[f[i]].id))
    BY <1>1 DEF Consumed, ActionOf
  <2>7. CASE tried' = tried /\ prompt' = NoPrompt
    <3>1. Consumed(f, G, q)'
      BY <1>1, <2>1, <2>4, <2>5, <2>6, <2>7 DEF Consumed, ActionOf, Ref
    <3> QED BY <2>1, <2>3, <2>4, <2>7, <3>1 DEF InOrder
  <2>8. CASE tried' = tried /\ clicks[q].key = "reply" /\ prompt' = [at |-> "zenity", event |-> clicks[q].id]
    <3>1. prompt'.event = clicks[q].id
      BY <2>8
    <3>2. Consumed(f, G, q)'
      BY <1>1, <2>1, <2>4, <2>5, <2>6, <2>8, <3>1 DEF Consumed, ActionOf, Ref
    <3> QED BY <2>1, <2>3, <2>4, <2>8, <3>2 DEF InOrder
  <2>9. ASSUME prompt' = NoPrompt, NEW x \in Tries, x.action = ActionOf(clicks[q]), tried' = Append(tried, x)
        PROVE  InOrder'
    <3>1. PICK F \in [DOMAIN tried' -> DOMAIN clicks] :
              /\ \A i, j \in DOMAIN tried' : i < j => F[i] < F[j]
              /\ \A i \in DOMAIN tried' : (F[i] = q /\ tried'[i] = x)
                                          \/ (i \in DOMAIN tried /\ F[i] = f[i] /\ tried'[i] = tried[i])
      BY <1>0, <1>1, <2>3, <2>5, <2>9, TriedMore DEF Consumed
    <3>2. \A i \in DOMAIN tried' :
              F[i] <= q /\ tried'[i].action = ActionForKey(clicks[F[i]].key, Ref(clicks[F[i]].id))
      <4>1. q <= q /\ x.action = ActionForKey(clicks[q].key, Ref(clicks[q].id))
        BY <2>3, <2>9 DEF ActionOf
      <4> QED BY <2>5, <2>6, <3>1, <4>1
    <3>3. Consumed(F, G, q)'
      BY <2>1, <2>4, <2>9, <3>1, <3>2 DEF Consumed, ActionOf, Ref
    <3> QED BY <2>1, <2>3, <2>4, <3>1, <3>3 DEF InOrder
  <2> QED BY <1>0, <1>1, <1>7, <2>2, <2>7, <2>8, <2>9, TakeInvokedForms
<1>8. CASE PromptText
  <2>1. UNCHANGED <<events, clicks, invoked>> /\ prompt # NoPrompt /\ prompt' = NoPrompt
    BY <1>8 DEF PromptText, toastVars
  <2>2. PICK x \in Tries : x.action = ActionOf(clicks[p]) /\ tried' = Append(tried, x)
    BY <1>0, <1>1, <1>8, PromptForms
  <2>3. p \in DOMAIN clicks /\ p \in Nat /\ \A i \in DOMAIN tried : f[i] < p
    BY <1>1, <1>2, <2>1 DEF Consumed
  <2>4. PICK F \in [DOMAIN tried' -> DOMAIN clicks] :
            /\ \A i, j \in DOMAIN tried' : i < j => F[i] < F[j]
            /\ \A i \in DOMAIN tried' : (F[i] = p /\ tried'[i] = x)
                                        \/ (i \in DOMAIN tried /\ F[i] = f[i] /\ tried'[i] = tried[i])
    BY <1>0, <1>1, <2>2, <2>3, TriedMore DEF Consumed
  <2>5. \A i \in DOMAIN tried' :
            F[i] <= p /\ tried'[i].action = ActionForKey(clicks[F[i]].key, Ref(clicks[F[i]].id))
    BY <1>1, <2>2, <2>3, <2>4 DEF Consumed, ActionOf
  <2>6. Consumed(F, g, p)'
    BY <1>1, <2>1, <2>4, <2>5 DEF Consumed, ActionOf, Ref
  <2> QED BY <2>1, <2>4, <2>6 DEF InOrder
<1>9. CASE PromptNext
  <2>1. UNCHANGED <<events, clicks, invoked, tried>> /\ prompt # NoPrompt /\ prompt'.event = prompt.event
    BY <1>0, <1>9 DEF PromptNext, toastVars, NoPrompt, ClickTypes
  <2>2. Consumed(f, g, p)'
    BY <1>1, <2>1 DEF Consumed, ActionOf, Ref
  <2> QED BY <1>1, <2>1, <2>2 DEF InOrder
<1>10. CASE PromptDrop
  <2>1. UNCHANGED <<events, clicks, invoked, tried>> /\ prompt' = NoPrompt
    BY <1>10 DEF PromptDrop, toastVars
  <2>2. Consumed(f, g, p)'
    BY <1>1, <2>1 DEF Consumed, ActionOf, Ref
  <2> QED BY <1>1, <2>1, <2>2 DEF InOrder
<1>11. ASSUME NEW t \in open, Close(t) PROVE InOrder'
  BY <1>4, <1>11 DEF Close
<1>12. CASE TakeClosed \/ (\E c \in Consumers : Subscribe(c)) \/ StartBackend
  BY <1>4, <1>12 DEF TakeClosed, Subscribe, StartBackend, toastVars
<1>13. CASE \/ LoadConfig \/ LoadI18n \/ NoSessionBus \/ ConnectOk \/ ConnectFail \/ SessionEnd \/ Wake
            \/ NotifyOk \/ NotifyFail \/ Record \/ UNCHANGED vars
  BY <1>4, <1>13 DEF LoadConfig, LoadI18n, NoSessionBus, ConnectOk, ConnectFail, SessionEnd, Wake, NotifyOk, NotifyFail,
                     Record, vars, toastVars, clickVars
<1> QED BY <1>5, <1>6, <1>7, <1>8, <1>9, <1>10, <1>11, <1>12, <1>13 DEF Next

-----------------------------------------------------------------------------
(***************************************************************************)
(* The theorems.                                                           *)
(***************************************************************************)
LEMMA InitInv == Init => DeskInv /\ Delayed
<1> SUFFICES ASSUME Init PROVE DeskInv /\ Delayed
  OBVIOUS
<1>1. LoopTypes
  <2>1. cfg.url = "none"
    BY DEF Init, NoConfig
  <2>2. InitialBackoff \in InitialBackoff .. MaxBackoff /\ 0 \in 0 .. MaxFailures /\ 0 \in 0 .. MaxEnds
    BY DeskAssumption
  <2> QED BY <2>1, <2>2, Zenon DEF Init, LoopTypes
<1>2. EventTypes
  BY DEF Init, EventTypes, NoButtons, Ids, Keys
<1>3. ClickTypes
  BY DEF Init, ClickTypes, Clicks, NoPrompt
<1>4. Configured /\ UnderWay /\ NoLeak
  BY DEF Init, Configured, UnderWay, NoLeak, Idle
<1>5. OfItsEvent
  BY DEF Init, OfItsEvent, NoButtons
<1>6. InOrder
  <2>1. DOMAIN tried = {} /\ DOMAIN invoked = {} /\ DOMAIN clicks = {} /\ prompt = NoPrompt /\ Len(clicks) = 0
    BY DEF Init
  <2>2. PICK f \in [DOMAIN tried -> DOMAIN clicks] : f \in [DOMAIN invoked -> DOMAIN clicks]
    <3>1. [x \in {} |-> x] \in [{} -> {}]
      OBVIOUS
    <3> QED BY <2>1, <3>1
  <2>3. Consumed(f, f, 0)
    BY <2>1 DEF Consumed
  <2>4. 0 \in 0 .. Len(clicks)
    BY <2>1
  <2> QED BY <2>2, <2>3, <2>4 DEF InOrder
<1>7. Delayed
  <2>1. Delay(0) = InitialBackoff
    BY DeskAssumption, PowersAssumption DEF Delay, Least
  <2> QED BY <2>1 DEF Init, Delayed
<1> QED BY <1>1, <1>2, <1>3, <1>4, <1>5, <1>6, <1>7, TypeParts DEF DeskInv

LEMMA StepInv == ASSUME DeskInv, [Next]_vars PROVE DeskInv'
BY TypesStep, ConfiguredStep, UnderWayStep, OfItsEventStep, NoLeakStep, InOrderStep DEF DeskInv

\* The types of the display program.
THEOREM DeskTypeCorrect == Spec => []TypeOK
<1>1. DeskInv => TypeOK
  BY DEF DeskInv, DeskTypes
<1> QED BY <1>1, InitInv, StepInv, PTL DEF Spec

\* Whatever is configured, a daemon is dialled at its display endpoint, and one
\* on another host not without a token.
THEOREM EndpointIsDialled == Spec => []DialsDaemon
<1>1. DeskInv => DialsDaemon
  BY ConfiguredDials, SetupsAssumption DEF DeskInv
<1> QED BY <1>1, InitInv, StepInv, PTL DEF Spec

\* The delay before an attempt is doubled by each failure since the last clean
\* end, up to its limit.
THEOREM BackoffDoubles == Spec => []BackoffShape
<1>1. DeskInv /\ Delayed /\ [Next]_vars => Delayed'
  BY DelayedStep, TypeParts DEF DeskInv
<1>2. Delayed => BackoffShape
  BY DEF Delayed, Delay, BackoffShape
<1> QED BY <1>1, <1>2, InitInv, StepInv, PTL DEF Spec

\* A toast shows its event, and an action tried is one the user chose of that
\* event, with the address or the call id the event came with.
THEOREM ActionsMatchToasts == Spec => []ActionMatchesToast
<1>1. DeskInv => ActionMatchesToast
  <2> SUFFICES ASSUME DeskInv PROVE ActionMatchesToast
    OBVIOUS
  <2>1. PICK f \in [DOMAIN tried -> DOMAIN clicks], g \in [DOMAIN invoked -> DOMAIN clicks], p \in 0 .. Len(clicks) :
            Consumed(f, g, p)
    BY DEF DeskInv, InOrder
  <2>2. ASSUME NEW i \in DOMAIN tried
        PROVE  \E c \in DOMAIN clicks :
                  /\ clicks[c].id = tried[i].action.event
                  /\ clicks[c].key \in MockPresent(events[tried[i].action.event]).actions
                  /\ tried[i].action.kind = ActionForKey(clicks[c].key, Ref(tried[i].action.event)).kind
                  /\ tried[i].action.kind = "sms.reply" =>
                         (tried[i].action.to <=> events[tried[i].action.event] = "sms")
                  /\ tried[i].action.kind \in {"call.answer", "call.end"} =>
                         (tried[i].action.call <=> events[tried[i].action.event] \in {"ringing", "offhook"})
    <3>1. f[i] \in DOMAIN clicks /\ tried[i].action = ActionOf(clicks[f[i]])
      BY <2>1 DEF Consumed
    <3>2. PICK c \in DOMAIN clicks : c = f[i]
      BY <3>1
    <3>3. tried[i].action.kind = ActionForKey(clicks[c].key, Ref(clicks[c].id)).kind
      BY <3>1, <3>2 DEF ActionOf
    <3> QED BY <3>1, <3>2, <3>3, ActionOfClick DEF DeskInv
  <2> QED BY <2>2 DEF DeskInv, OfItsEvent, ActionMatchesToast
<1> QED BY <1>1, InitInv, StepInv, PTL DEF Spec

\* What the clicks stand for is tried in the order of the clicks, each once at
\* most.
THEOREM ClicksActInOrder == Spec => []InClickOrder
<1>1. DeskInv => InClickOrder
  <2> SUFFICES ASSUME DeskInv PROVE InClickOrder
    OBVIOUS
  <2>1. PICK f \in [DOMAIN tried -> DOMAIN clicks], g \in [DOMAIN invoked -> DOMAIN clicks], p \in 0 .. Len(clicks) :
            Consumed(f, g, p)
    BY DEF DeskInv, InOrder
  <2>2. ASSUME NEW i \in DOMAIN tried
        PROVE  /\ clicks[f[i]].id = tried[i].action.event
               /\ ActionForKey(clicks[f[i]].key, Ref(clicks[f[i]].id)).kind = tried[i].action.kind
    <3>1. f[i] \in DOMAIN clicks /\ tried[i].action = ActionOf(clicks[f[i]])
      BY <2>1 DEF Consumed
    <3>2. PICK c \in DOMAIN clicks : c = f[i]
      BY <3>1
    <3> QED BY <3>1, <3>2, ActionOfClick DEF DeskInv, ActionOf
  <2> QED BY <2>1, <2>2 DEF Consumed, InClickOrder
<1> QED BY <1>1, InitInv, StepInv, PTL DEF Spec

\* No entry of the map outlives its toast, but for those whose closing came too
\* early or to nobody.
THEOREM MapLeaksNoOtherWay == Spec => []StaleEntriesExplained
<1>1. DeskInv => StaleEntriesExplained
  BY DEF DeskInv, NoLeak, Explained, StaleEntriesExplained
<1> QED BY <1>1, InitInv, StepInv, PTL DEF Spec
================================================================================
