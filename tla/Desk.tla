--------------------------------- MODULE Desk ---------------------------------
(***************************************************************************)
(* DeskDisplay, the desktop program that shows the phone's events as toasts *)
(* of the operating system and turns their buttons into actions:           *)
(*   - configuration and start-up (config.rs, i18n.rs, main.rs);           *)
(*   - the connection loop with its backoff (client.rs, actions.rs);       *)
(*   - the Linux backend (backends/linux.rs): Notify calls, the map from   *)
(*     toast ids to events, and the two independent tasks that consume the *)
(*     signals ActionInvoked and NotificationClosed; the Windows backend's *)
(*     table of pending buttons (backends/windows.rs).                     *)
(*                                                                         *)
(* An event is named by its number. The notification service gives the     *)
(* toast of event n the id n (ids are fresh: replaces_id is 0). Nothing     *)
(* binds the backend's own ActionSink, so no action ever enters the channel *)
(* of a session, and the task that writes them to the daemon has no step.   *)
(***************************************************************************)
EXTENDS Naturals, Sequences, FiniteSets

CONSTANTS Traffic,         \* bound: the sequences of events the server sends
          MaxClicks,       \* bound: buttons the user presses
          MaxEnds,         \* bound: sessions that end
          MaxFailures,     \* bound: failures in a row that are told apart
          Setups,          \* configuration files tried
          InitialBackoff, MaxBackoff   \* 500 ms and 30 s in the code

ASSUME DeskAssumption ==
    /\ MaxClicks \in Nat /\ MaxEnds \in Nat /\ MaxFailures \in Nat
    /\ InitialBackoff \in Nat \ {0}
    /\ MaxBackoff \in Nat /\ MaxBackoff >= InitialBackoff

\* Arithmetic, for the proofs: no prover knows what ^ is.
ASSUME PowersAssumption ==
    2 ^ 0 = 1 /\ \A n \in 0 .. MaxFailures : 2 ^ n \in Nat /\ 2 ^ (n + 1) = 2 * 2 ^ n

VARIABLES
    setup,      \* what the configuration files hold, until they are read
    platform,   \* target_os of the build
    cfg,        \* DisplayConfig, once loaded
    proc,       \* where main() and the client loop are
    backoff,    \* delay before the next attempt
    failures,   \* history: sessions in error since the last clean end
    ends,       \* sessions that have ended
    bound,      \* ActionSinks that hold a channel
    events,     \* kinds of the events received, in order
    presenting, \* the event whose present() is under way, and how far
    open,       \* toasts on the screen
    map,        \* NotificationMap.by_notif_id
    pending,    \* PendingMap.by_action_key of the Windows backend
    consumer,   \* the two signal consumer tasks
    invoked,    \* ActionInvoked signals not yet consumed
    closed,     \* NotificationClosed signals not yet consumed
    prompt,     \* the reply prompt the ActionInvoked consumer waits for
    tried,      \* history: actions given to ActionSink::try_send, in order
    clicks,     \* history: buttons pressed, in order
    early       \* history: toasts whose closing was consumed before the
                \* map had them

confVars  == <<setup, platform, cfg>>
loopVars  == <<proc, backoff, failures, ends, bound>>
toastVars == <<events, presenting, open, map, pending>>
clickVars == <<consumer, invoked, closed, prompt, tried, clicks, early>>
vars == <<confVars, loopVars, toastVars, clickVars>>

-----------------------------------------------------------------------------
(***************************************************************************)
(* Configuration.                                                          *)
(***************************************************************************)
Urls   == {"loopback", "foreign", "malformed"}
Paths  == {<<>>, <<"ws">>, <<"ws", "display">>, <<"base">>, <<"base", "ws">>}
AllSetups ==
    [toml : {"absent", "bad", "ok"}, url : Urls, path : Paths,
     token : {"", "literal"}, tokenFile : {"none", "missing", "", "file"},
     default : {"none", "unreadable", "", "default"}]

ASSUME SetupsAssumption == Setups \subseteq AllSetups

EndsWith(p, q) ==
    /\ Len(p) >= Len(q)
    /\ SubSeq(p, Len(p) - Len(q) + 1, Len(p)) = q

\* Mutant: the prefix the daemon is mounted under is dropped.
WsPathFlat(p) == <<"ws", "display">>

\* The path ws_url dials, given the path of the daemon's URL.
WsPath(p) == CASE EndsWith(p, <<"ws", "display">>) -> p
               [] EndsWith(p, <<"ws">>) -> Append(p, "display")
               [] OTHER -> p \o <<"ws", "display">>

\* The token of the TOML file: token_file wins over a literal token.
TomlToken(s) == CASE s.toml = "absent" -> ""
                  [] s.tokenFile = "none" -> s.token
                  [] OTHER -> s.tokenFile

\* ... and where that is empty, the file beside the configuration.
Token(s) == IF TomlToken(s) = "" /\ s.default # "none" THEN s.default ELSE TomlToken(s)

UrlOf(s)  == IF s.toml = "absent" THEN "loopback" ELSE s.url
PathOf(s) == IF s.toml = "absent" THEN <<>> ELSE s.path

\* Mutant: an empty token is accepted for any URL.
RejectedSetupLax(s) == s.toml = "bad" \/ Token(s) \in {"missing", "unreadable"}

\* A file that does not parse or cannot be read is fatal, and so is a URL
\* that is not loopback without a token.
RejectedSetup(s) ==
    \/ s.toml = "bad"
    \/ Token(s) \in {"missing", "unreadable"}
    \/ Token(s) = "" /\ UrlOf(s) # "loopback"

NoConfig  == [url |-> "none", path |-> <<>>, token |-> ""]
NoSetup   == [toml |-> "read"]
Config(s) == [url |-> UrlOf(s), path |-> WsPath(PathOf(s)), token |-> Token(s)]

-----------------------------------------------------------------------------
(***************************************************************************)
(* From an event to a toast. Titles and bodies are tokens that say where   *)
(* the text comes from.                                                    *)
(***************************************************************************)
Kinds == {"notification", "sensitive", "sms", "incoming", "ringing", "offhook", "idle",
          "sent", "failed", "offline", "device", "garbled"}
ASSUME TrafficAssumption == Traffic \subseteq Seq(Kinds)

MessageKeys == {"reply", "mark_read", "dismiss"}
CallKeys    == {"answer", "hangup"}

\* action_list_for.
ActionList(surface) == CASE surface \in {"sms", "notification"} -> MessageKeys
                         [] surface = "call" -> CallKeys
                         [] OTHER -> {}

Toast(kind, title, body, actions) ==
    [kind |-> kind, title |-> title, body |-> body, actions |-> actions]
NoToast == Toast("none", "", "", {})

\* The translate_* functions: what each kind of event is shown as. Content
\* marked sensitive is masked; a call that is over shows nothing.
TranslateNotification(k) ==
    Toast("Notification", "app or title", IF k = "sensitive" THEN "mask" ELSE "content",
          ActionList("notification"))
TranslateSms == Toast("Sms", "SMS from", "body", ActionList("sms"))
TranslateCallIncoming == Toast("CallIncoming", "call from", "contact", ActionList("call"))
TranslateCallState(k) ==
    IF k \notin {"ringing", "offhook"} THEN NoToast
    ELSE Toast("CallOngoing", IF k = "offhook" THEN "ongoing" ELSE "call from", "",
               ActionList("call"))
TranslateActionResult(k) ==
    Toast("ActionResult", IF k = "sent" THEN "sent" ELSE "failed", "", {})
TranslatePhoneOffline == Toast("PhoneOffline", "offline", "", {})

\* dispatch_toast's arguments: the toast, and whether an address and a call id
\* are filed with it.
Dispatch(toast, address, call) == [toast |-> toast, address |-> address, call |-> call]

\* The present_* functions of the Linux backend.
PresentNotification(k) == Dispatch(TranslateNotification(k), FALSE, FALSE)
PresentSms             == Dispatch(TranslateSms, TRUE, FALSE)
PresentCallIncoming    == Dispatch(TranslateCallIncoming, TRUE, FALSE)
PresentCallState(k)    == Dispatch(TranslateCallState(k), TRUE, TRUE)
PresentActionResult(k) == Dispatch(TranslateActionResult(k), FALSE, FALSE)
PresentPhoneOffline    == Dispatch(TranslatePhoneOffline, FALSE, FALSE)

\* Mutant: a call's state is filed without the call id.
PresentLinuxNoCall(k) ==
    CASE k \in {"notification", "sensitive"} -> PresentNotification(k)
      [] k = "sms" -> PresentSms
      [] k = "incoming" -> PresentCallIncoming
      [] k \in {"ringing", "offhook", "idle"} -> Dispatch(TranslateCallState(k), TRUE, FALSE)
      [] k \in {"sent", "failed"} -> PresentActionResult(k)
      [] k = "offline" -> PresentPhoneOffline
      [] OTHER -> Dispatch(NoToast, FALSE, FALSE)

\* present of the Linux backend; what it does not know it ignores.
PresentLinux(k) ==
    CASE k \in {"notification", "sensitive"} -> PresentNotification(k)
      [] k = "sms" -> PresentSms
      [] k = "incoming" -> PresentCallIncoming
      [] k \in {"ringing", "offhook", "idle"} -> PresentCallState(k)
      [] k \in {"sent", "failed"} -> PresentActionResult(k)
      [] k = "offline" -> PresentPhoneOffline
      [] OTHER -> Dispatch(NoToast, FALSE, FALSE)

\* translate_via_event, the dispatch the Windows backend uses.
TranslateViaEvent(k) ==
    CASE k \in {"notification", "sensitive"} -> TranslateNotification(k)
      [] k = "sms" -> TranslateSms
      [] k = "incoming" -> TranslateCallIncoming
      [] k \in {"ringing", "offhook", "idle"} -> TranslateCallState(k)
      [] k \in {"sent", "failed"} -> TranslateActionResult(k)
      [] k = "offline" -> TranslatePhoneOffline
      [] OTHER -> NoToast

\* present_via_linux_logic, the dispatch of the tests' mock backend.
MockPresent(k) ==
    CASE k \in {"notification", "sensitive"} -> TranslateNotification(k)
      [] k = "sms" -> TranslateSms
      [] k = "incoming" -> TranslateCallIncoming
      [] k \in {"ringing", "offhook", "idle"} -> TranslateCallState(k)
      [] k \in {"sent", "failed"} -> TranslateActionResult(k)
      [] k = "offline" -> TranslatePhoneOffline
      [] OTHER -> NoToast

\* The NotifRef of event n.
Ref(n) == [event |-> n, address |-> PresentLinux(events[n]).address,
           call |-> PresentLinux(events[n]).call]

\* action_for_key: the DisplayAction a button stands for.
ActionForKey(key, r) ==
    [kind |-> CASE key = "reply" -> "sms.reply"
                [] key = "mark_read" -> "notification.read"
                [] key = "dismiss" -> "notification.dismiss"
                [] key = "answer" -> "call.answer"
                [] key = "hangup" -> "call.end",
     event |-> r.event,
     to |-> key = "reply" /\ r.address,
     call |-> key \in CallKeys /\ r.call]

-----------------------------------------------------------------------------
(***************************************************************************)
(* Start-up.                                                               *)
(***************************************************************************)
Consumers == {"invoked", "closed"}
Idle      == [at |-> "idle", event |-> 0]
NoPrompt  == [at |-> "none", event |-> 0]

Platforms == {"linux", "windows", "stub"}
NoButtons == [key \in MessageKeys \cup CallKeys |-> 0]

Init ==
    /\ setup \in Setups
    /\ platform \in Platforms
    /\ cfg = NoConfig
    /\ proc = "load" /\ backoff = InitialBackoff /\ failures = 0 /\ ends = 0
    /\ bound = {}
    /\ events = <<>> /\ presenting = Idle
    /\ open = {} /\ map = {} /\ pending = NoButtons
    /\ consumer = [c \in Consumers |-> "off"]
    /\ invoked = <<>> /\ closed = <<>> /\ prompt = NoPrompt
    /\ tried = <<>> /\ clicks = <<>> /\ early = {}

\* DisplayConfig::load_from; an error makes main() exit with code 2.
LoadConfig ==
    /\ proc = "load"
    /\ setup' = NoSetup
    /\ IF RejectedSetup(setup)
       THEN proc' = "exit" /\ cfg' = cfg
       ELSE proc' = "dictionary" /\ cfg' = Config(setup)
    /\ UNCHANGED <<platform, backoff, failures, ends, bound, toastVars, clickVars>>

\* DisplayI18n::load: whatever the daemon answers, there is a dictionary with
\* every key, so this step cannot fail.
LoadI18n ==
    /\ proc = "dictionary" /\ proc' = "backend"
    /\ UNCHANGED <<confVars, backoff, failures, ends, bound, toastVars, clickVars>>

\* backends::create and start. Linux needs the session bus, and starts the
\* two tasks that consume its signals; the other backends do nothing.
StartBackend ==
    /\ proc = "backend" /\ proc' = "session"
    /\ consumer' = [c \in Consumers |-> IF platform = "linux" THEN "subscribing" ELSE "off"]
    /\ UNCHANGED <<confVars, backoff, failures, ends, bound, toastVars>>
    /\ UNCHANGED <<invoked, closed, prompt, tried, clicks, early>>

NoSessionBus ==
    /\ proc = "backend" /\ platform = "linux" /\ proc' = "exit"
    /\ UNCHANGED <<confVars, backoff, failures, ends, bound, toastVars, clickVars>>

\* A task that cannot subscribe ends; nothing starts it again.
Subscribe(c) ==
    /\ consumer[c] = "subscribing"
    /\ \E s \in {"on", "gone"} : consumer' = [consumer EXCEPT ![c] = s]
    /\ UNCHANGED <<confVars, loopVars, toastVars>>
    /\ UNCHANGED <<invoked, closed, prompt, tried, clicks, early>>

-----------------------------------------------------------------------------
(***************************************************************************)
(* DisplayClient::run and session.                                         *)
(***************************************************************************)
Least(a, b) == IF a <= b THEN a ELSE b

\* session() returned an error: sleep, and double the next delay.
BackOff ==
    /\ proc' = "sleep"
    /\ failures' = Least(failures + 1, MaxFailures)

ConnectOk ==
    /\ proc = "session" /\ cfg.url # "malformed"
    /\ proc' = "connected"
    /\ bound' = bound \cup {"client"}
    /\ UNCHANGED <<confVars, backoff, failures, ends, toastVars, clickVars>>

\* ws_url fails for a malformed URL, connect_async for any other reason.
ConnectFail ==
    /\ proc = "session" /\ BackOff
    /\ UNCHANGED <<confVars, backoff, ends, bound, toastVars, clickVars>>

\* Mutant: a clean end does not reset the delay.
SessionEndNoReset ==
    /\ proc = "connected" /\ presenting = Idle /\ ends < MaxEnds
    /\ ends' = ends + 1
    /\ bound' = bound \ {"client"}
    /\ \/ BackOff /\ UNCHANGED backoff
       \/ proc' = "session" /\ failures' = 0 /\ backoff' = backoff
    /\ UNCHANGED <<confVars, toastVars, clickVars>>

\* The reader ends, with an error or cleanly (a Close frame or the end of the
\* stream): then the loop connects again at once. A present() in progress is
\* finished first, and the writer's failure alone ends nothing.
SessionEnd ==
    /\ proc = "connected" /\ presenting = Idle /\ ends < MaxEnds
    /\ ends' = ends + 1
    /\ bound' = bound \ {"client"}
    /\ \/ BackOff /\ UNCHANGED backoff
       \/ proc' = "session" /\ failures' = 0 /\ backoff' = InitialBackoff
    /\ UNCHANGED <<confVars, toastVars, clickVars>>

\* Mutant: the delay grows without limit.
WakeUncapped ==
    /\ proc = "sleep" /\ proc' = "session"
    /\ backoff' = 2 * backoff
    /\ UNCHANGED <<confVars, failures, ends, bound, toastVars, clickVars>>

\* Mutant: the loop gives up once the delay cannot grow.
WakeGivesUp ==
    /\ proc = "sleep" /\ backoff < MaxBackoff /\ proc' = "session"
    /\ backoff' = Least(2 * backoff, MaxBackoff)
    /\ UNCHANGED <<confVars, failures, ends, bound, toastVars, clickVars>>

\* The delay is over; the next one is twice as long, up to MaxBackoff.
Wake ==
    /\ proc = "sleep" /\ proc' = "session"
    /\ backoff' = Least(2 * backoff, MaxBackoff)
    /\ UNCHANGED <<confVars, failures, ends, bound, toastVars, clickVars>>

-----------------------------------------------------------------------------
(***************************************************************************)
(* DisplayBackend::present.                                                *)
(***************************************************************************)
\* show_translated of the Windows backend: each button is filed under its key
\* alone, so a later toast takes the keys of an earlier one over.
FileButtons(n, k) == [key \in DOMAIN pending |->
                         IF key \in TranslateViaEvent(k).actions THEN n ELSE pending[key]]

\* An event arrives. Linux calls Notify, and the reader waits for the answer;
\* the stub only logs.
Receive(k) ==
    LET n == Len(events) + 1
    IN  /\ proc = "connected" /\ presenting = Idle
        /\ \E s \in Traffic : Len(s) >= n /\ SubSeq(s, 1, n) = Append(events, k)
        /\ events' = Append(events, k)
        /\ presenting' = IF platform = "linux" /\ PresentLinux(k).toast # NoToast
                         THEN [at |-> "notify", event |-> n] ELSE Idle
        /\ pending' = IF platform = "windows" THEN FileButtons(n, k) ELSE pending
        /\ UNCHANGED <<confVars, loopVars, open, map, clickVars>>

\* The notification service shows the toast and answers with its id.
NotifyOk ==
    /\ presenting.at = "notify"
    /\ open' = open \cup {[id |-> presenting.event,
                          toast |-> PresentLinux(events[presenting.event]).toast]}
    /\ presenting' = [presenting EXCEPT !.at = "record"]
    /\ UNCHANGED <<confVars, loopVars, events, map, pending, clickVars>>

NotifyFail ==
    /\ presenting.at = "notify" /\ presenting' = Idle
    /\ UNCHANGED <<confVars, loopVars, events, open, map, pending, clickVars>>

\* dispatch_toast inserts the id once Notify has answered.
Record ==
    /\ presenting.at = "record" /\ presenting' = Idle
    /\ map' = map \cup {Ref(presenting.event)}
    /\ UNCHANGED <<confVars, loopVars, events, open, pending, clickVars>>

-----------------------------------------------------------------------------
(***************************************************************************)
(* The user, and the signals of the notification service. A signal reaches *)
(* only a task that has subscribed.                                        *)
(***************************************************************************)
Click(t, key) ==
    /\ t \in open /\ key \in t.toast.actions /\ Len(clicks) < MaxClicks
    /\ clicks' = Append(clicks, [id |-> t.id, key |-> key])
    /\ invoked' = IF consumer["invoked"] = "on"
                  THEN Append(invoked, [id |-> t.id, key |-> key]) ELSE invoked
    /\ UNCHANGED <<confVars, loopVars, toastVars, consumer, closed, prompt, tried, early>>

\* A toast goes away: dismissed, expired, or after one of its buttons.
Close(t) ==
    /\ t \in open /\ open' = open \ {t}
    /\ closed' = IF consumer["closed"] = "on" THEN Append(closed, t.id) ELSE closed
    /\ early' = IF consumer["closed"] = "on" THEN early ELSE early \cup {t.id}
    /\ UNCHANGED <<confVars, loopVars, events, presenting, map, pending>>
    /\ UNCHANGED <<consumer, invoked, prompt, tried, clicks>>

\* ActionSink::try_send of the backend's own sink.
TrySend(action) == tried' = Append(tried, [action |-> action, ok |-> "backend" \in bound])

\* Mutant: the task goes on to the next click while a prompt is open.
TakeInvokedAnyTime ==
    /\ invoked # <<>> /\ invoked' = Tail(invoked)
    /\ LET c == Head(invoked)
           r == {x \in map : x.event = c.id}
       IN  IF r = {} THEN UNCHANGED <<prompt, tried>>
           ELSE IF c.key = "reply"
           THEN prompt' = [at |-> "zenity", event |-> c.id] /\ UNCHANGED tried
           ELSE \E x \in r : TrySend(ActionForKey(c.key, x)) /\ UNCHANGED prompt
    /\ UNCHANGED <<confVars, loopVars, toastVars, consumer, closed, clicks, early>>

\* The task that consumes ActionInvoked. A toast the map does not hold (not
\* yet, or no longer) loses its click; a reply asks for its text first, and
\* the task waits for the prompt.
TakeInvoked ==
    /\ invoked # <<>> /\ prompt = NoPrompt /\ invoked' = Tail(invoked)
    /\ LET c == Head(invoked)
           r == {x \in map : x.event = c.id}
       IN  IF r = {} THEN UNCHANGED <<prompt, tried>>
           ELSE IF c.key = "reply"
           THEN prompt' = [at |-> "zenity", event |-> c.id] /\ UNCHANGED tried
           ELSE \E x \in r : TrySend(ActionForKey(c.key, x)) /\ UNCHANGED prompt
    /\ UNCHANGED <<confVars, loopVars, toastVars, consumer, closed, clicks, early>>

\* collect_reply_text returns a text. What the reply names was copied from
\* the map before the prompt.
PromptText ==
    /\ prompt # NoPrompt /\ prompt' = NoPrompt
    /\ TrySend(ActionForKey("reply", Ref(prompt.event)))
    /\ UNCHANGED <<confVars, loopVars, toastVars, consumer, invoked, closed, clicks, early>>

\* zenity is missing, or was cancelled: kdialog is next.
PromptNext ==
    /\ prompt.at = "zenity" /\ prompt' = [prompt EXCEPT !.at = "kdialog"]
    /\ UNCHANGED <<confVars, loopVars, toastVars>>
    /\ UNCHANGED <<consumer, invoked, closed, tried, clicks, early>>

\* An empty text or a program that fails; or kdialog, missing or cancelled.
PromptDrop ==
    /\ prompt # NoPrompt /\ prompt' = NoPrompt
    /\ UNCHANGED <<confVars, loopVars, toastVars>>
    /\ UNCHANGED <<consumer, invoked, closed, tried, clicks, early>>

\* Mutant: a closing removes no entry.
TakeClosedKeep ==
    /\ closed # <<>> /\ closed' = Tail(closed)
    /\ map' = map
    /\ early' = IF \E r \in map : r.event = Head(closed) THEN early ELSE early \cup {Head(closed)}
    /\ UNCHANGED <<confVars, loopVars, events, presenting, open, pending>>
    /\ UNCHANGED <<consumer, invoked, prompt, tried, clicks>>

\* The task that consumes NotificationClosed. A closing that overtakes
\* Record finds nothing to remove.
TakeClosed ==
    /\ closed # <<>> /\ closed' = Tail(closed)
    /\ map' = {r \in map : r.event # Head(closed)}
    /\ early' = IF \E r \in map : r.event = Head(closed) THEN early ELSE early \cup {Head(closed)}
    /\ UNCHANGED <<confVars, loopVars, events, presenting, open, pending>>
    /\ UNCHANGED <<consumer, invoked, prompt, tried, clicks>>

Next ==
    \/ LoadConfig \/ LoadI18n \/ StartBackend \/ NoSessionBus
    \/ \E c \in Consumers : Subscribe(c)
    \/ ConnectOk \/ ConnectFail \/ SessionEnd \/ Wake
    \/ \E k \in Kinds : Receive(k)
    \/ NotifyOk \/ NotifyFail \/ Record
    \/ \E t \in open : Close(t) \/ \E key \in t.toast.actions : Click(t, key)
    \/ TakeInvoked \/ PromptText \/ PromptNext \/ PromptDrop \/ TakeClosed

\* The program's own steps are taken; a call to the notification service and
\* an attempt to connect end one way or the other, and the daemon is not
\* unreachable for ever.
Fairness ==
    /\ WF_vars(LoadConfig \/ LoadI18n \/ StartBackend \/ NoSessionBus)
    /\ WF_vars(ConnectOk \/ ConnectFail) /\ SF_vars(ConnectOk) /\ WF_vars(Wake)
    /\ WF_vars(NotifyOk \/ NotifyFail) /\ WF_vars(Record) /\ WF_vars(TakeClosed)

Spec == Init /\ [][Next]_vars /\ Fairness

-----------------------------------------------------------------------------
(***************************************************************************)
(* Properties.                                                             *)
(***************************************************************************)
Ids == 1 .. Len(events)

\* Type of every variable of the display program.
TypeOK ==
    /\ setup \in Setups \cup {NoSetup} /\ platform \in Platforms
    /\ cfg.url \in Urls \cup {"none"}
    /\ proc \in {"load", "dictionary", "backend", "session", "connected", "sleep", "exit"}
    /\ backoff \in InitialBackoff .. MaxBackoff
    /\ failures \in 0 .. MaxFailures /\ ends \in 0 .. MaxEnds
    /\ bound \subseteq {"client", "backend"}
    /\ events \in Seq(Kinds)
    /\ presenting = Idle \/ presenting \in [at : {"notify", "record"}, event : Ids]
    /\ \A t \in open : t.id \in Ids
    /\ map \subseteq [event : Ids, address : BOOLEAN, call : BOOLEAN]
    /\ pending \in [MessageKeys \cup CallKeys -> Ids \cup {0}]
    /\ consumer \in [Consumers -> {"off", "subscribing", "on", "gone"}]
    /\ invoked \in Seq([id : Ids, key : MessageKeys \cup CallKeys])
    /\ clicks \in Seq([id : Ids, key : MessageKeys \cup CallKeys])
    /\ closed \in Seq(Ids) /\ early \subseteq Ids
    /\ prompt = NoPrompt \/ prompt \in [at : {"zenity", "kdialog"}, event : Ids]

\* The daemon dialled is at <base>/ws/display, and a daemon on another host is
\* dialled only with a token (config.rs load_from, ws_url).
DialsDaemon ==
    proc = "connected" =>
        /\ cfg.path \in {<<"ws", "display">>, <<"base", "ws", "display">>}
        /\ cfg.url = "foreign" => cfg.token # ""

\* The delay is InitialBackoff doubled once per failure since the last clean
\* end, up to MaxBackoff, whatever sessions came in between (client.rs run).
\* A failure still asleep has not doubled it yet.
BackoffShape ==
    LET slept == IF proc = "sleep" THEN failures - 1 ELSE failures
    IN  failures < MaxFailures => backoff = Least(InitialBackoff * 2 ^ slept, MaxBackoff)

\* The toast on the screen is the one the mock backend of the tests records
\* for the same event, and an action of it that is tried names that event with
\* the number the event carried: the ids, the map and the prompt never mix two
\* toasts up. A button filed on Windows belongs to the toast it is filed for
\* (linux.rs present, dispatch_toast, action_for_key; windows.rs; mock.rs).
ActionMatchesToast ==
    /\ \A t \in open : t.toast = MockPresent(events[t.id])
    /\ \A key \in DOMAIN pending :
           pending[key] # 0 => key \in MockPresent(events[pending[key]]).actions
    /\ \A i \in DOMAIN tried :
           LET a == tried[i].action
               k == events[a.event]
           IN  \E c \in DOMAIN clicks :
                   /\ clicks[c].id = a.event /\ clicks[c].key \in MockPresent(k).actions
                   /\ a.kind = ActionForKey(clicks[c].key, Ref(a.event)).kind
                   /\ a.kind = "sms.reply" => (a.to <=> k = "sms")
                   /\ a.kind \in {"call.answer", "call.end"} =>
                          (a.call <=> k \in {"ringing", "offhook"})

\* Clicks are acted on in the order they were made, each at most once: the
\* task that waits for a reply's text holds the later ones back (linux.rs
\* spawn_action_invoked_consumer).
InClickOrder ==
    \E f \in [DOMAIN tried -> DOMAIN clicks] :
        /\ \A i, j \in DOMAIN tried : i < j => f[i] < f[j]
        /\ \A i \in DOMAIN tried :
               /\ clicks[f[i]].id = tried[i].action.event
               /\ ActionForKey(clicks[f[i]].key, Ref(clicks[f[i]].id)).kind = tried[i].action.kind

\* An entry of the map whose toast is gone, with no closing still to be
\* consumed, is one whose closing came before the entry was made or while the
\* closing task did not listen: the map leaks in no other way (linux.rs
\* dispatch_toast, spawn_notification_closed_consumer).
StaleEntriesExplained ==
    \A r \in map : \/ \E t \in open : t.id = r.event
                   \/ \E i \in DOMAIN closed : closed[i] = r.event
                   \/ r.event \in early

\* After any failure or end the client gets a session again, unless the URL
\* does not parse (client.rs run).
Reconnects == (proc \in {"session", "sleep"} /\ cfg.url # "malformed") ~> (proc = "connected")
=============================================================================
