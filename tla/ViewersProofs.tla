----------------------------- MODULE ViewersProofs -----------------------------
(***************************************************************************)
(* Proofs about Viewers for any finite set of displays, any consoles and   *)
(* phones, any capacities of the bus and of a display's queue.             *)
(***************************************************************************)
EXTENDS Viewers, FiniteSetTheorems, SequenceTheorems, TLAPS

\* The bridge and the loop of a console hold one event at most; so does the writer.
OneHeld == /\ \A v \in Viewers : hold[v] = <<>> \/ \E n \in Nat : hold[v] = <<n>>
           /\ \A v \in Displays : writing[v] = <<>> \/ \E n \in Nat : writing[v] = <<n>>

\* The invariant that keeps the types.
ViewersTypes == TypeOK /\ OneHeld

\* The counter is the number of displays that are subscribed.
Counted == count = Cardinality(sub \cap Displays)

\* A connection without a subscription has nothing on its way, nor has a
\* display without its writer, but for what the bridge holds.
Emptied(v) ==
    /\ stage[v] = "new" => v \notin sub /\ v \notin writer
    /\ v \notin sub => Way(v) = <<>>
    /\ v \in Displays /\ v \notin writer => seen[v] = <<>> /\ writing[v] = <<>> /\ queue[v] = <<>>

\* What is on its way is in order and was received before the next.
InOrder(v) ==
    /\ cur[v] <= Last(BusOf(v)) + 1
    /\ \A i, j \in DOMAIN Way(v) : i < j => Way(v)[i] < Way(v)[j]
    /\ v \in sub => \A i \in DOMAIN Way(v) : Way(v)[i] < cur[v]

\* What the subscription was owed and did not get was overwritten.
Owed(v) ==
    v \in sub /\ (v \in Displays => v \in writer) =>
        \A e \in from[v] .. Last(BusOf(v)) :
            e >= cur[v] \/ e < Oldest(BusOf(v)) \/ \E i \in DOMAIN Way(v) : Way(v)[i] = e

Flow(v) == Emptied(v) /\ InOrder(v) /\ Owed(v)

FlowInv == ViewersTypes /\ Counted /\ \A v \in Viewers : Flow(v)

-----------------------------------------------------------------------------
\* The reader has finished with line n of v, or will by its next result.
Before(v, n) ==
    /\ n <= moves /\ \A i \in DOMAIN lines[v] : n < lines[v][i]
    /\ ~At(v, "none") => n < act[v].id

Begun(v, n) ==
    /\ n <= moves /\ \A i \in DOMAIN lines[v] : n < lines[v][i]
    /\ ~At(v, "none") => IF At(v, "result") THEN n <= act[v].id ELSE n < act[v].id

\* The lines of a client are numbered in the order they came.
Numbered(v) ==
    /\ \A i \in DOMAIN lines[v] : lines[v][i] <= moves
    /\ \A i, j \in DOMAIN lines[v] : i < j => lines[v][i] < lines[v][j]
    /\ ~At(v, "none") => act[v].id <= moves /\ \A i \in DOMAIN lines[v] : act[v].id < lines[v][i]
    /\ \A n \in DOMAIN done[v] : Before(v, done[v][n].id)
    /\ \A m, n \in DOMAIN done[v] : m < n => done[v][m].id < done[v][n].id

\* What a phone's channel accepted is what was answered with ok.
Answered(v) ==
    /\ \A n \in Nat : <<v, n>> \in accepted => Begun(v, n)
    /\ At(v, "result") /\ act[v].asked => (act[v].ok <=> <<v, act[v].id>> \in accepted)
    /\ \A n \in DOMAIN done[v] : done[v][n].asked => (done[v][n].ok <=> <<v, done[v][n].id>> \in accepted)

\* What the bus says of the actions.
Told(v) ==
    /\ \A i \in Results(v) :
          /\ \E n \in DOMAIN done[v] : done[v][n].id = log["display"][i].n /\ done[v][n].ok = log["display"][i].ok
          /\ \A j \in Results(v) : i < j => log["display"][i].n < log["display"][j].n
    /\ \A i \in 1 .. Last("display") :
          log["display"][i].kind = "phone.offline" /\ log["display"][i].by = v =>
              /\ <<v, log["display"][i].n>> \notin accepted /\ Begun(v, log["display"][i].n)
              /\ \A j \in Results(v) : log["display"][j].n = log["display"][i].n => i < j

ActionInv == ViewersTypes /\ \A v \in Displays : Numbered(v) /\ Answered(v) /\ Told(v)

-----------------------------------------------------------------------------
\* The parts of the types.
BusOK ==
    /\ log \in [Buses -> Seq(Events)] /\ count \in Nat
    /\ sub \subseteq Viewers /\ from \in [Viewers -> Nat] /\ cur \in [Viewers -> Nat]

PipeOK ==
    /\ hold \in [Viewers -> Seq(Nat)] /\ queue \in [Displays -> Seq(Nat)]
    /\ \A v \in Displays : Len(queue[v]) <= QueueCap
    /\ writer \subseteq Displays /\ writing \in [Displays -> Seq(Nat)]
    /\ seen \in [Viewers -> Seq(Nat)]
    /\ OneHeld

AnAction == [at : (Kinds \ {"garbage"}) \cup {"offline"}, id : Nat, dev : Devices, complete : BOOLEAN]
AResult  == [at : {"result"}, id : Nat, ok : BOOLEAN, asked : BOOLEAN]

ReaderOK ==
    /\ lines \in [Displays -> Seq(Nat)]
    /\ act \in [Displays -> {NoAction} \cup AnAction \cup AResult]
    /\ done \in [Displays -> Seq([id : Nat, ok : BOOLEAN, asked : BOOLEAN])]
    /\ accepted \subseteq Displays \X Nat

EnvOK == stage \in [Viewers -> {"new", "hello", "up", "ending", "done"}] /\ online \subseteq Devices /\ moves \in Nat

LEMMA TypeParts == ViewersTypes <=> BusOK /\ PipeOK /\ ReaderOK /\ EnvOK
BY DEF ViewersTypes, TypeOK, OneHeld, BusOK, PipeOK, ReaderOK, AnAction, AResult, EnvOK

LEMMA InitTypes == Init => ViewersTypes
<1> SUFFICES ASSUME Init PROVE ViewersTypes
  OBVIOUS
<1>1. BusOK
  BY DEF Init, BusOK
<1>2. PipeOK
  BY ViewersAssumption DEF Init, PipeOK, OneHeld
<1>3. ReaderOK /\ EnvOK
  BY DEF Init, ReaderOK, EnvOK
<1> QED BY <1>1, <1>2, <1>3, TypeParts

\* What is known of an action by where it is.
LEMMA ActionForms ==
    ASSUME ReaderOK, NEW v \in Displays
    PROVE  /\ ~At(v, "none") => act[v].id \in Nat
           /\ At(v, "result") => act[v] \in AResult
           /\ ~At(v, "none") /\ ~At(v, "result") => act[v] \in AnAction
<1>1. act[v] = NoAction \/ act[v] \in AnAction \/ act[v] \in AResult
  BY DEF ReaderOK
<1>2. CASE act[v] = NoAction
  BY <1>2 DEF NoAction, At
<1>3. CASE act[v] \in AnAction
  BY <1>3 DEF AnAction, At, Kinds, ToPhone
<1>4. CASE act[v] \in AResult
  BY <1>4 DEF AResult, At
<1> QED BY <1>1, <1>2, <1>3, <1>4

\* The events a reader publishes.
LEMMA EventForms ==
    /\ SinkEvent \in Events
    /\ \A v \in Displays, n \in Nat : [kind |-> "phone.offline", by |-> v, n |-> n] \in Events
    /\ \A v \in Displays, n \in Nat : \A b \in BOOLEAN :
           [kind |-> "action.result", by |-> v, n |-> n, ok |-> b] \in Events
<1>1. SinkEvent \in Events
  BY DEF Events
<1>2. \A v \in Displays, n \in Nat : [kind |-> "phone.offline", by |-> v, n |-> n] \in Events
  BY DEF Events
<1>3. \A v \in Displays, n \in Nat : \A b \in BOOLEAN :
           [kind |-> "action.result", by |-> v, n |-> n, ok |-> b] \in Events
  BY DEF Events
<1> QED BY <1>1, <1>2, <1>3

\* A sequence after Append, position by position.
LEMMA Appended ==
    ASSUME NEW S, NEW s \in Seq(S), NEW e \in S
    PROVE  /\ Append(s, e) \in Seq(S) /\ Len(s) \in Nat
           /\ Len(Append(s, e)) = Len(s) + 1
           /\ DOMAIN Append(s, e) = 1..(Len(s) + 1) /\ DOMAIN s = 1..Len(s)
           /\ Append(s, e)[Len(s) + 1] = e
           /\ \A i \in 1..Len(s) : Append(s, e)[i] = s[i]
           /\ \A i \in 1..(Len(s) + 1) : i = Len(s) + 1 \/ i \in 1..Len(s)
OBVIOUS

\* The ways the buses change.
BusStep(v) ==
    \/ UNCHANGED busVars
    \/ Subscribe(v) /\ stage[v] = "new" /\ UNCHANGED log
    \/ DropSub(v) /\ UNCHANGED log
    \/ Recv(v) /\ UNCHANGED <<log, count, sub, from>>
    \/ \E e \in Events : Publish(e) /\ UNCHANGED <<count, sub, from, cur>>

LEMMA BusSteps ==
    ASSUME ReaderOK, [Next]_vars
    PROVE  UNCHANGED busVars \/ (\E v \in Viewers : BusStep(v)) \/ (\E e \in Emitted : Emit(e))
<1>1. CASE UNCHANGED vars
  BY <1>1 DEF vars
<1>2. ASSUME NEW v \in Displays, Display(v) PROVE BusStep(v)
  <2>1. ASSUME PhoneOffline(v) PROVE BusStep(v)
    <3>1. act[v].id \in Nat
      BY <2>1, ActionForms DEF PhoneOffline, At
    <3> QED BY <2>1, <3>1, EventForms DEF PhoneOffline, BusStep
  <2>2. ASSUME ActionResult(v) PROVE BusStep(v)
    <3>1. act[v].id \in Nat /\ act[v].ok \in BOOLEAN
      BY <2>2, ActionForms DEF ActionResult, At, AResult
    <3> QED BY <2>2, <3>1, EventForms DEF ActionResult, BusStep
  <2>3. ASSUME Upgrade(v) PROVE BusStep(v)
    BY <2>3 DEF Upgrade, MayConnect, BusStep, busVars
  <2> QED BY <1>2, <2>1, <2>2, <2>3
    DEF Display, BridgeRecv, BridgeSend, BridgeEnds, WriterTake, WriterSent, WriterFails, SendLine,
        ReadLine, Unknown, SmsReply, NotificationRead, NotificationDismiss, CallAnswer, CallEnd, ReaderEnds,
        Abort, BusStep
<1>3. ASSUME NEW v \in Consoles, Console(v) PROVE BusStep(v)
  BY <1>3 DEF Console, ConsoleUpgrade, MayConnect, ConsoleHello, ConsoleRecv, ConsoleSend, ConsoleEnds,
     BusStep
<1>4. CASE Registry
  BY <1>4 DEF Registry
<1> QED BY <1>1, <1>2, <1>3, <1>4 DEF Next, Viewers

\* The buses keep their types.
LEMMA BusTypes == ASSUME BusOK, ReaderOK, [Next]_vars PROVE BusOK'
<1>0. \A b \in Buses : Last(b) \in Nat /\ Oldest(b) \in Nat
  BY ViewersAssumption DEF BusOK, Last, Oldest
<1>00. \A v : BusOf(v) \in Buses
  BY DEF BusOf, Buses
<1>1. CASE UNCHANGED busVars
  BY <1>1 DEF busVars, BusOK
<1>2. ASSUME NEW v \in Viewers, BusStep(v) PROVE BusOK'
  <2>1. CASE UNCHANGED busVars
    BY <1>1, <2>1
  <2>2. CASE Subscribe(v) /\ UNCHANGED log
    BY <1>0, <1>00, <2>2 DEF Subscribe, BusOK
  <2>3. CASE DropSub(v) /\ UNCHANGED log
    BY <2>3 DEF DropSub, BusOK
  <2>4. CASE Recv(v) /\ UNCHANGED <<log, count, sub, from>>
    <3>1. AfterLag(BusOf(v)) \in Nat /\ cur[v] + 1 \in Nat
      BY <1>0, <1>00 DEF AfterLag, BusOK
    <3>2. cur' = [cur EXCEPT ![v] = AfterLag(BusOf(v))] \/ cur' = [cur EXCEPT ![v] = cur[v] + 1]
      BY <2>4 DEF Recv
    <3>3. cur' \in [Viewers -> Nat]
      BY <3>1, <3>2 DEF BusOK
    <3> QED BY <2>4, <3>3 DEF BusOK
  <2>5. ASSUME NEW e \in Events, Publish(e), UNCHANGED <<count, sub, from, cur>> PROVE BusOK'
    <3>1. log["display"] \in Seq(Events)
      BY DEF BusOK, Buses
    <3>2. Append(log["display"], e) \in Seq(Events)
      BY <3>1, Appended
    <3>3. \A S : \A x \in S, f \in [Buses -> S] : [f EXCEPT !["display"] = x] \in [Buses -> S]
      OBVIOUS
    <3>4. log' = log \/ log' = [log EXCEPT !["display"] = Append(log["display"], e)]
      BY <2>5 DEF Publish
    <3>5. log' \in [Buses -> Seq(Events)]
      BY <3>2, <3>3, <3>4, Zenon DEF BusOK
    <3> QED BY <2>5, <3>5 DEF BusOK
  <2> QED BY <1>2, <2>1, <2>2, <2>3, <2>4, <2>5 DEF BusStep
<1>3. ASSUME NEW e \in Emitted, Emit(e) PROVE BusOK'
  <2>1. \A b \in Buses : log'[b] = log[b] \/ log'[b] = Append(log[b], SinkEvent)
    BY <1>3 DEF Emit
  <2>2. log' = [b \in Buses |-> log'[b]] /\ UNCHANGED <<count, sub, from, cur>>
    BY <1>3 DEF Emit
  <2>3. \A b \in Buses : log'[b] \in Seq(Events)
    <3>1. \A b \in Buses : Append(log[b], SinkEvent) \in Seq(Events)
      BY EventForms, Appended DEF BusOK
    <3> QED BY <2>1, <3>1 DEF BusOK
  <2> QED BY <2>2, <2>3 DEF BusOK
<1> QED BY <1>1, <1>2, <1>3, BusSteps

\* A sequence after Tail, position by position.
LEMMA Shifted ==
    ASSUME NEW S, NEW s \in Seq(S), s # <<>>
    PROVE  /\ Head(s) \in S /\ Head(s) = s[1] /\ Tail(s) \in Seq(S)
           /\ Len(s) \in Nat \ {0} /\ Len(Tail(s)) = Len(s) - 1
           /\ DOMAIN s = 1..Len(s) /\ DOMAIN Tail(s) = 1..(Len(s) - 1)
           /\ \A i \in 1..(Len(s) - 1) : Tail(s)[i] = s[i + 1] /\ i + 1 \in 1..Len(s)
           /\ \A i \in 1..Len(s) : i = 1 \/ i - 1 \in 1..(Len(s) - 1)
OBVIOUS

\* The steps that touch the pipe of v.
PipeStep(v) ==
    \/ UNCHANGED pipeVars
    \/ v \in Displays /\ writer' = writer \cup {v} /\ UNCHANGED <<hold, queue, writing, seen>>
    \/ Recv(v) /\ UNCHANGED <<queue, writer, writing, seen>>
    \/ v \in Displays /\ (BridgeSend(v) \/ BridgeEnds(v) \/ WriterTake(v) \/ WriterSent(v) \/ WriterFails(v)
                             \/ Abort(v))
    \/ v \in Consoles /\ (ConsoleSend(v) \/ ConsoleEnds(v))

LEMMA PipeSteps == ASSUME [Next]_vars PROVE UNCHANGED pipeVars \/ \E v \in Viewers : PipeStep(v)
<1>1. CASE UNCHANGED vars
  BY <1>1 DEF vars
<1>2. ASSUME NEW v \in Displays, Display(v) PROVE PipeStep(v)
  <2>1. ASSUME Upgrade(v) PROVE PipeStep(v)
    BY <2>1 DEF Upgrade, PipeStep, pipeVars
  <2> QED BY <1>2, <2>1
    DEF Display, BridgeRecv, SendLine, ReadLine, Unknown, PhoneOffline, SmsReply, NotificationRead,
        NotificationDismiss, CallAnswer, CallEnd, ActionResult, ReaderEnds, PipeStep
<1>3. ASSUME NEW v \in Consoles, Console(v) PROVE PipeStep(v)
  BY <1>3 DEF Console, ConsoleUpgrade, ConsoleHello, ConsoleRecv, PipeStep
<1>4. ASSUME NEW e \in Emitted, Emit(e) PROVE UNCHANGED pipeVars
  BY <1>4 DEF Emit
<1>5. CASE Registry
  BY <1>5 DEF Registry
<1> QED BY <1>1, <1>2, <1>3, <1>4, <1>5 DEF Next, Viewers

\* What is held is one event, and is held no longer when it is sent.
LEMMA Singles ==
    /\ \A n \in Nat : <<n>> \in Seq(Nat) /\ Len(<<n>>) = 1 /\ <<n>> # <<>>
    /\ <<>> \in Seq(Nat) /\ Len(<<>>) = 0
    /\ \A s, t \in Seq(Nat) : s \o t \in Seq(Nat) /\ Len(s \o t) = Len(s) + Len(t)
    /\ \A s \in Seq(Nat) : Len(s) \in Nat
<1>1. \A n \in Nat : <<n>> \in Seq(Nat) /\ Len(<<n>>) = 1 /\ <<n>> # <<>>
  OBVIOUS
<1>2. <<>> \in Seq(Nat) /\ Len(<<>>) = 0 /\ \A s \in Seq(Nat) : Len(s) \in Nat
  OBVIOUS
<1>3. \A s, t \in Seq(Nat) : s \o t \in Seq(Nat) /\ Len(s \o t) = Len(s) + Len(t)
  BY ConcatProperties
<1> QED BY <1>1, <1>2, <1>3

\* The pipes keep their types.
LEMMA PipeTypes == ASSUME BusOK, PipeOK, [Next]_vars PROVE PipeOK'
<1> USE DEF Viewers
<1>1. CASE UNCHANGED pipeVars
  BY <1>1 DEF pipeVars, PipeOK, OneHeld
<1>2. ASSUME NEW v \in Viewers, PipeStep(v) PROVE PipeOK'
  <2>1. ASSUME v \in Displays, writer' = writer \cup {v}, UNCHANGED <<hold, queue, writing, seen>> PROVE PipeOK'
    BY <2>1 DEF PipeOK, OneHeld
  <2>2. ASSUME Recv(v), UNCHANGED <<queue, writer, writing, seen>> PROVE PipeOK'
    <3>1. cur[v] \in Nat
      BY DEF BusOK
    <3>2. hold' = hold \/ hold' = [hold EXCEPT ![v] = <<cur[v]>>]
      BY <2>2 DEF Recv
    <3>3. hold' \in [Viewers -> Seq(Nat)]
      BY <3>1, <3>2, Singles DEF PipeOK
    <3>4. OneHeld'
      BY <2>2, <3>1, <3>2 DEF PipeOK, OneHeld
    <3> QED BY <2>2, <3>3, <3>4 DEF PipeOK
  <2>3. ASSUME v \in Displays, BridgeSend(v) PROVE PipeOK'
    <3>1. queue[v] \in Seq(Nat) /\ hold[v] \in Seq(Nat) /\ Len(hold[v]) = 1
      BY <2>3, Singles DEF BridgeSend, PipeOK, OneHeld
    <3>2. queue[v] \o hold[v] \in Seq(Nat) /\ Len(queue[v] \o hold[v]) = Len(queue[v]) + 1 /\ Len(queue[v]) \in Nat
      BY <3>1, Singles
    <3>3. /\ queue' = [queue EXCEPT ![v] = queue[v] \o hold[v]] /\ hold' = [hold EXCEPT ![v] = <<>>]
          /\ UNCHANGED <<writer, writing, seen>>
      BY <2>3 DEF BridgeSend
    <3>4. Len(queue[v] \o hold[v]) <= QueueCap
      <4>1. Len(queue[v]) < QueueCap /\ QueueCap \in Nat
        BY <2>3, ViewersAssumption DEF BridgeSend
      <4> QED BY <3>2, <4>1
    <3> QED BY <2>3, <3>2, <3>3, <3>4, Singles DEF PipeOK, OneHeld
  <2>4. ASSUME v \in Displays, BridgeEnds(v) PROVE PipeOK'
    BY <2>4, Singles DEF BridgeEnds, PipeOK, OneHeld
  <2>5. ASSUME v \in Displays, WriterTake(v) PROVE PipeOK'
    <3>1. queue[v] \in Seq(Nat) /\ Len(queue[v]) <= QueueCap /\ queue[v] # <<>>
      BY <2>5 DEF WriterTake, PipeOK
    <3>2. /\ Head(queue[v]) \in Nat /\ Tail(queue[v]) \in Seq(Nat) /\ Len(Tail(queue[v])) <= QueueCap
      BY <3>1, Shifted, ViewersAssumption
    <3>3. <<Head(queue[v])>> \in Seq(Nat)
      BY <3>2, Singles
    <3>4. /\ queue' = [queue EXCEPT ![v] = Tail(queue[v])]
          /\ writing' = [writing EXCEPT ![v] = <<Head(queue[v])>>]
          /\ UNCHANGED <<hold, writer, seen>>
      BY <2>5 DEF WriterTake
    <3> QED BY <2>5, <3>2, <3>3, <3>4 DEF PipeOK, OneHeld
  <2>6. ASSUME v \in Displays, WriterSent(v) PROVE PipeOK'
    <3>1. seen[v] \o writing[v] \in Seq(Nat)
      BY <2>6, Singles DEF PipeOK
    <3> QED BY <2>6, <3>1, Singles DEF WriterSent, PipeOK, OneHeld
  <2>7. ASSUME v \in Displays, WriterFails(v) PROVE PipeOK'
    <3>1. /\ queue' = [queue EXCEPT ![v] = <<>>] /\ writing' = [writing EXCEPT ![v] = <<>>]
          /\ seen' = [seen EXCEPT ![v] = <<>>] /\ writer' = writer \ {v}
          /\ hold' = hold \/ hold' = [hold EXCEPT ![v] = <<>>]
      BY <2>7 DEF WriterFails
    <3>2. \A w \in Displays : Len(queue'[w]) <= QueueCap
      BY <3>1, Singles, ViewersAssumption DEF PipeOK
    <3>3. OneHeld'
      BY <3>1 DEF PipeOK, OneHeld
    <3> QED BY <3>1, <3>2, <3>3, Singles DEF PipeOK
  <2>8. ASSUME v \in Displays, Abort(v) PROVE PipeOK'
    <3>1. /\ queue' = [queue EXCEPT ![v] = <<>>] /\ writing' = [writing EXCEPT ![v] = <<>>]
          /\ seen' = [seen EXCEPT ![v] = <<>>] /\ writer' = writer \ {v}
          /\ hold' = hold \/ hold' = [hold EXCEPT ![v] = <<>>]
      BY <2>8 DEF Abort
    <3>2. \A w \in Displays : Len(queue'[w]) <= QueueCap
      BY <3>1, Singles, ViewersAssumption DEF PipeOK
    <3>3. OneHeld'
      BY <3>1 DEF PipeOK, OneHeld
    <3> QED BY <3>1, <3>2, <3>3, Singles DEF PipeOK
  <2>9. ASSUME v \in Consoles, ConsoleSend(v) PROVE PipeOK'
    <3>1. seen[v] \o hold[v] \in Seq(Nat)
      BY <2>9, Singles DEF PipeOK
    <3> QED BY <2>9, <3>1, Singles DEF ConsoleSend, PipeOK, OneHeld
  <2>10. ASSUME v \in Consoles, ConsoleEnds(v) PROVE PipeOK'
    BY <2>10, Singles DEF ConsoleEnds, PipeOK, OneHeld
  <2> QED BY <1>1, <1>2, <2>1, <2>2, <2>3, <2>4, <2>5, <2>6, <2>7, <2>8, <2>9, <2>10 DEF PipeStep
<1> QED BY <1>1, <1>2, PipeSteps

\* The result an action goes on to.
Ended(v, ok) == [at |-> "result", id |-> act[v].id, ok |-> ok, asked |-> ~At(v, "notification.read")]

LEMMA EndedOK ==
    ASSUME ReaderOK, NEW v \in Displays, ~At(v, "none"), NEW ok \in BOOLEAN
    PROVE  /\ Ended(v, ok) \in AResult /\ Ended(v, ok).at = "result"
           /\ Ended(v, ok).id = act[v].id /\ Ended(v, ok).ok = ok
           /\ (Ended(v, ok).asked <=> ~At(v, "notification.read"))
<1>1. act[v].id \in Nat
  BY ActionForms
<1>2. (~At(v, "notification.read")) \in BOOLEAN
  OBVIOUS
<1>3. \A n \in Nat : \A a, b \in BOOLEAN : [at |-> "result", id |-> n, ok |-> a, asked |-> b] \in AResult
  BY DEF AResult
<1>4. Ended(v, ok) \in AResult
  BY <1>1, <1>2, <1>3, Zenon DEF Ended
<1>5. /\ Ended(v, ok).at = "result" /\ Ended(v, ok).id = act[v].id /\ Ended(v, ok).ok = ok
      /\ (Ended(v, ok).asked <=> ~At(v, "notification.read"))
  BY DEF Ended
<1> QED BY <1>4, <1>5

\* The ways the reader of v moves: it ends an action, with or without an
\* envelope that was accepted, ...
EndsAction(v) ==
    /\ ~At(v, "none") /\ ~At(v, "result") /\ UNCHANGED <<lines, done, moves>>
    /\ \E ok \in BOOLEAN :
          /\ act' = [act EXCEPT ![v] = Ended(v, ok)]
          /\ \/ accepted' = accepted \cup {<<v, act[v].id>>} /\ ok /\ ~At(v, "notification.read")
                /\ UNCHANGED log
             \/ accepted' = accepted /\ (ok => At(v, "notification.read"))
                /\ (UNCHANGED log \/ Publish([kind |-> "phone.offline", by |-> v, n |-> act[v].id]))

\* ... it answers it, takes a line, gets one, or loses them.
ReaderStep(v) ==
    \/ EndsAction(v)
    \/ ActionResult(v)
    \/ SendLine(v)
    \/ \E a \in Requested : ReadLine(v, a)
    \/ ReaderEnds(v)

\* Every step of a reader is one of these; what else is published is no display's.
Aside ==
    /\ UNCHANGED readerVars /\ moves' \in {moves, moves + 1}
    /\ log'["display"] = log["display"] \/ log'["display"] = Append(log["display"], SinkEvent)

LEMMA ReaderSteps ==
    ASSUME BusOK, ReaderOK, [Next]_vars PROVE Aside \/ \E v \in Displays : ReaderStep(v)
<1>1. CASE UNCHANGED vars
  BY <1>1 DEF vars, busVars, envVars, Aside
<1>2. ASSUME NEW v \in Displays, Display(v) PROVE Aside \/ ReaderStep(v)
  <2>1. ASSUME TrySend(v), ~At(v, "none"), ~At(v, "result"), ~At(v, "notification.read"),
               UNCHANGED <<busVars, lines, done, envVars>>
        PROVE EndsAction(v)
    <3>1. CASE Finish(v, FALSE) /\ UNCHANGED accepted
      BY <2>1, <3>1, Zenon DEF Finish, Goto, EndsAction, Ended, busVars, envVars
    <3>2. CASE Finish(v, TRUE) /\ accepted' = accepted \cup {<<v, act[v].id>>}
      BY <2>1, <3>2, Zenon DEF Finish, Goto, EndsAction, Ended, busVars, envVars
    <3> QED BY <2>1, <3>1, <3>2 DEF TrySend
  <2>2. ASSUME Unknown(v) PROVE EndsAction(v)
    <3>1. ~At(v, "none") /\ ~At(v, "result") /\ ~At(v, "notification.read")
      BY <2>2 DEF Unknown, At
    <3> QED BY <2>2, <3>1, Zenon DEF Unknown, Finish, Goto, EndsAction, Ended, busVars, envVars
  <2>3. ASSUME PhoneOffline(v) PROVE EndsAction(v)
    <3>1. ~At(v, "none") /\ ~At(v, "result") /\ ~At(v, "notification.read")
      BY <2>3 DEF PhoneOffline, At
    <3> QED BY <2>3, <3>1, Zenon DEF PhoneOffline, Finish, Goto, EndsAction, Ended, envVars
  <2>4. ASSUME SmsReply(v) PROVE EndsAction(v)
    <3>1. ~At(v, "none") /\ ~At(v, "result") /\ ~At(v, "notification.read")
      BY <2>4 DEF SmsReply, At
    <3>2. TrySend(v) \/ (Finish(v, FALSE) /\ UNCHANGED accepted)
      BY <2>4 DEF SmsReply
    <3>3. TrySend(v)
      BY <3>2 DEF TrySend
    <3>4. UNCHANGED <<busVars, lines, done, envVars>>
      BY <2>4 DEF SmsReply
    <3> QED BY <2>1, <3>1, <3>3, <3>4
  <2>5. ASSUME NotificationRead(v) PROVE EndsAction(v)
    <3>1. ~At(v, "none") /\ ~At(v, "result") /\ At(v, "notification.read")
      BY <2>5 DEF NotificationRead, At
    <3> QED BY <2>5, <3>1, Zenon DEF NotificationRead, Finish, Goto, EndsAction, Ended, busVars, envVars
  <2>6. ASSUME NotificationDismiss(v) PROVE EndsAction(v)
    <3>1. ~At(v, "none") /\ ~At(v, "result") /\ ~At(v, "notification.read")
      BY <2>6 DEF NotificationDismiss, At
    <3> QED BY <2>1, <2>6, <3>1 DEF NotificationDismiss
  <2>7. ASSUME CallAnswer(v) PROVE EndsAction(v)
    <3>1. ~At(v, "none") /\ ~At(v, "result") /\ ~At(v, "notification.read")
      BY <2>7 DEF CallAnswer, At
    <3> QED BY <2>1, <2>7, <3>1 DEF CallAnswer
  <2>8. ASSUME CallEnd(v) PROVE EndsAction(v)
    <3>1. ~At(v, "none") /\ ~At(v, "result") /\ ~At(v, "notification.read")
      BY <2>8 DEF CallEnd, At
    <3> QED BY <2>1, <2>8, <3>1 DEF CallEnd
  <2>9. ASSUME \/ Upgrade(v) \/ BridgeRecv(v) \/ BridgeSend(v) \/ BridgeEnds(v)
               \/ WriterTake(v) \/ WriterSent(v) \/ WriterFails(v) \/ Abort(v)
        PROVE  Aside
    BY <2>9 DEF Upgrade, BridgeRecv, BridgeSend, BridgeEnds, WriterTake, WriterSent, WriterFails, Abort,
                Aside, readerVars, busVars, envVars
  <2> QED BY <1>2, <2>2, <2>3, <2>4, <2>5, <2>6, <2>7, <2>8, <2>9 DEF Display, ReaderStep
<1>3. ASSUME NEW v \in Consoles, Console(v) PROVE Aside
  BY <1>3 DEF Console, ConsoleUpgrade, ConsoleHello, ConsoleRecv, ConsoleSend, ConsoleEnds, Aside, busVars,
              envVars
<1>4. ASSUME NEW e \in Emitted, Emit(e) PROVE Aside
  BY <1>4 DEF Emit, Buses, Aside
<1>5. CASE Registry
  BY <1>5 DEF Registry, Aside, busVars
<1> QED BY <1>1, <1>2, <1>3, <1>4, <1>5 DEF Next

\* The readers keep their types.
LEMMA ReaderTypes == ASSUME BusOK, ReaderOK, EnvOK, [Next]_vars PROVE ReaderOK'
<1>1. CASE Aside
  BY <1>1 DEF Aside, readerVars, ReaderOK
<1>2. ASSUME NEW v \in Displays, ReaderStep(v) PROVE ReaderOK'
  <2>1. CASE EndsAction(v)
    <3>1. PICK ok \in BOOLEAN : act' = [act EXCEPT ![v] = Ended(v, ok)]
      BY <2>1 DEF EndsAction
    <3>2. Ended(v, ok) \in AResult /\ act[v].id \in Nat
      BY <2>1, EndedOK, ActionForms DEF EndsAction
    <3>3. act' \in [Displays -> {NoAction} \cup AnAction \cup AResult]
      BY <3>1, <3>2 DEF ReaderOK
    <3>4. accepted' \subseteq Displays \X Nat
      BY <2>1, <3>2 DEF EndsAction, ReaderOK
    <3> QED BY <2>1, <3>3, <3>4 DEF EndsAction, ReaderOK
  <2>2. CASE ActionResult(v)
    <3>1. act[v] \in AResult
      BY <2>2, ActionForms DEF ActionResult
    <3>2. [id |-> act[v].id, ok |-> act[v].ok, asked |-> act[v].asked] \in [id : Nat, ok : BOOLEAN, asked : BOOLEAN]
      BY <3>1 DEF AResult
    <3>3. Append(done[v], [id |-> act[v].id, ok |-> act[v].ok, asked |-> act[v].asked])
              \in Seq([id : Nat, ok : BOOLEAN, asked : BOOLEAN])
      BY <3>2, Appended DEF ReaderOK
    <3>4. done' = [done EXCEPT ![v] = Append(done[v], [id |-> act[v].id, ok |-> act[v].ok, asked |-> act[v].asked])]
      BY <2>2 DEF ActionResult
    <3>5. done' \in [Displays -> Seq([id : Nat, ok : BOOLEAN, asked : BOOLEAN])]
      BY <3>3, <3>4, Zenon DEF ReaderOK
    <3>6. act' = [act EXCEPT ![v] = NoAction] /\ UNCHANGED <<lines, accepted>>
      BY <2>2 DEF ActionResult, Goto
    <3> QED BY <3>5, <3>6 DEF ReaderOK
  <2>3. CASE SendLine(v)
    <3>1. Append(lines[v], moves + 1) \in Seq(Nat)
      BY Appended DEF ReaderOK, EnvOK
    <3> QED BY <2>3, <3>1 DEF SendLine, ReaderOK
  <2>4. ASSUME NEW a \in Requested, ReadLine(v, a) PROVE ReaderOK'
    <3>1. Head(lines[v]) \in Nat /\ Tail(lines[v]) \in Seq(Nat)
      BY <2>4, Shifted DEF ReadLine, ReaderOK
    <3>2. a.kind \in Kinds /\ a.complete \in BOOLEAN /\ a.dev \in Devices
      BY RequestedAssumption DEF Actions
    <3>3. lines' \in [Displays -> Seq(Nat)]
      BY <2>4, <3>1 DEF ReadLine, ReaderOK
    <3>4. a.kind # "garbage" =>
              [at |-> IF a.dev \notin online THEN "offline" ELSE a.kind,
               id |-> Head(lines[v]), dev |-> a.dev, complete |-> a.complete] \in AnAction
      BY <3>1, <3>2 DEF AnAction
    <3>5. \/ act' = act
          \/ /\ a.kind # "garbage"
             /\ act' = [act EXCEPT ![v] = [at |-> IF a.dev \notin online THEN "offline" ELSE a.kind,
                                         id |-> Head(lines[v]), dev |-> a.dev, complete |-> a.complete]]
      BY <2>4 DEF ReadLine, Goto
    <3>6. act' \in [Displays -> {NoAction} \cup AnAction \cup AResult]
      BY <3>4, <3>5, Zenon DEF ReaderOK
    <3> QED BY <2>4, <3>3, <3>6 DEF ReadLine, ReaderOK
  <2>5. CASE ReaderEnds(v)
    BY <2>5, Singles DEF ReaderEnds, ReaderOK
  <2> QED BY <1>2, <2>1, <2>2, <2>3, <2>4, <2>5 DEF ReaderStep
<1> QED BY <1>1, <1>2, ReaderSteps

\* So do the connections, the registry and the clock of the environment.
LEMMA EnvTypes == ASSUME EnvOK, [Next]_vars PROVE EnvOK'
<1>1. CASE UNCHANGED vars
  BY <1>1 DEF vars, envVars, EnvOK
<1>2. ASSUME NEW v \in Displays, Display(v) PROVE EnvOK'
  <2>1. CASE Upgrade(v) \/ ReaderEnds(v) \/ Abort(v) \/ SendLine(v)
    BY <2>1 DEF Upgrade, ReaderEnds, Abort, SendLine, envVars, EnvOK
  <2>2. CASE UNCHANGED <<stage, envVars>>
    BY <2>2 DEF envVars, EnvOK
  <2> QED BY <1>2, <2>1, <2>2
    DEF Display, BridgeRecv, BridgeSend, BridgeEnds, WriterTake, WriterSent, WriterFails, ReadLine, Unknown,
        PhoneOffline, SmsReply, NotificationRead, NotificationDismiss, CallAnswer, CallEnd, ActionResult
<1>3. ASSUME NEW v \in Consoles, Console(v) PROVE EnvOK'
  BY <1>3 DEF Console, ConsoleUpgrade, ConsoleHello, ConsoleRecv, ConsoleSend, ConsoleEnds, envVars, EnvOK
<1>4. ASSUME NEW e \in Emitted, Emit(e) PROVE EnvOK'
  BY <1>4 DEF Emit, EnvOK
<1>5. CASE Registry
  BY <1>5 DEF Registry, EnvOK
<1> QED BY <1>1, <1>2, <1>3, <1>4, <1>5 DEF Next

LEMMA StepTypes == ASSUME ViewersTypes, [Next]_vars PROVE ViewersTypes'
<1>1. BusOK /\ PipeOK /\ ReaderOK /\ EnvOK
  BY TypeParts
<1>2. BusOK' /\ PipeOK' /\ ReaderOK' /\ EnvOK'
  BY <1>1, BusTypes, PipeTypes, ReaderTypes, EnvTypes
<1>3. (BusOK /\ PipeOK /\ ReaderOK /\ EnvOK)' => ViewersTypes'
  BY DEF ViewersTypes, TypeOK, OneHeld, BusOK, PipeOK, ReaderOK, AnAction, AResult, EnvOK
<1> QED BY <1>2, <1>3

\* Every variable of the viewers keeps its type, and no queue its bound exceeds.
THEOREM ViewersTypeCorrect == Spec => []TypeOK
<1>1. ViewersTypes => TypeOK
  BY DEF ViewersTypes
<1> QED BY <1>1, InitTypes, StepTypes, PTL DEF Spec

-----------------------------------------------------------------------------
\* The log of a bus only grows.
LEMMA LogGrows ==
    ASSUME ViewersTypes, [Next]_vars
    PROVE  \A b \in Buses : Last(b) \in Nat /\ Last(b)' \in Nat /\ Last(b) <= Last(b)'
<1>0. BusOK /\ ReaderOK /\ BusOK'
  BY TypeParts, BusTypes
<1>1. \A b \in Buses : Last(b) \in Nat /\ Last(b)' \in Nat
  BY <1>0 DEF BusOK, Last
<1>2. \A b \in Buses : log'[b] = log[b] \/ \E e \in Events : log'[b] = Append(log[b], e)
  <2>1. CASE UNCHANGED log
    BY <2>1
  <2>2. ASSUME NEW e \in Events, Publish(e)
        PROVE  \A b \in Buses : log'[b] = log[b] \/ log'[b] = Append(log[b], e)
    BY <1>0, <2>2 DEF Publish, BusOK
  <2>3. ASSUME NEW e \in Emitted, Emit(e)
        PROVE  \A b \in Buses : log'[b] = log[b] \/ log'[b] = Append(log[b], SinkEvent)
    BY <2>3 DEF Emit
  <2>4. SinkEvent \in Events
    BY EventForms
  <2> QED BY <1>0, <2>1, <2>2, <2>3, <2>4, BusSteps DEF BusStep, busVars
<1>3. \A b \in Buses : \A e \in Events : Len(Append(log[b], e)) = Len(log[b]) + 1 /\ Len(log[b]) \in Nat
  <2>1. \A b \in Buses : log[b] \in Seq(Events)
    BY <1>0 DEF BusOK
  <2> QED BY <2>1, Appended
<1>4. ASSUME NEW b \in Buses PROVE Last(b) <= Last(b)'
  <2>1. CASE log'[b] = log[b]
    BY <1>1, <2>1 DEF Last
  <2>2. ASSUME NEW e \in Events, log'[b] = Append(log[b], e) PROVE Last(b) <= Last(b)'
    BY <1>3, <2>2 DEF Last
  <2> QED BY <1>2, <2>1, <2>2
<1> QED BY <1>1, <1>4

\* A step has nothing to do with v.
Untouched(v) ==
    /\ stage'[v] = stage[v] /\ from'[v] = from[v] /\ cur'[v] = cur[v]
    /\ hold'[v] = hold[v] /\ seen'[v] = seen[v]
    /\ v \in Displays => queue'[v] = queue[v] /\ writing'[v] = writing[v]
    /\ (v \in sub' <=> v \in sub) /\ (v \in writer' <=> v \in writer)

LEMMA ViewersMoveOneByOne ==
    ASSUME ViewersTypes, [Next]_vars
    PROVE  \/ \A v \in Viewers : Untouched(v)
           \/ \E w \in Displays : Display(w) /\ \A v \in Viewers : v # w => Untouched(v)
           \/ \E w \in Consoles : Console(w) /\ \A v \in Viewers : v # w => Untouched(v)
<1>0. BusOK /\ PipeOK /\ EnvOK
  BY TypeParts
<1>1. CASE UNCHANGED vars
  BY <1>1 DEF vars, busVars, pipeVars, Untouched
<1>2. ASSUME NEW w \in Displays, Display(w), NEW v \in Viewers, v # w PROVE Untouched(v)
  <2>1. stage'[v] = stage[v]
    BY <1>0, <1>2 DEF Display, Upgrade, BridgeRecv, BridgeSend, BridgeEnds, WriterTake, WriterSent, WriterFails,
        SendLine, ReadLine, Unknown, PhoneOffline, SmsReply, NotificationRead, NotificationDismiss, CallAnswer,
        CallEnd, ActionResult, ReaderEnds, Abort, EnvOK
  <2>2. CASE UNCHANGED <<sub, from, cur, pipeVars>>
    BY <2>1, <2>2 DEF pipeVars, Untouched
  <2>3. CASE Upgrade(w) \/ BridgeRecv(w) \/ BridgeEnds(w) \/ Abort(w)
    BY <1>0, <1>2, <2>1, <2>3 DEF Upgrade, BridgeRecv, BridgeEnds, Abort, Subscribe, DropSub, Recv,
        BusOK, PipeOK, Untouched, pipeVars
  <2>4. CASE BridgeSend(w) \/ WriterTake(w) \/ WriterSent(w) \/ WriterFails(w)
    BY <1>0, <1>2, <2>1, <2>4 DEF BridgeSend, WriterTake, WriterSent, WriterFails, PipeOK, Untouched, busVars
  <2> QED BY <1>2, <2>2, <2>3, <2>4
    DEF Display, SendLine, ReadLine, Unknown, PhoneOffline, SmsReply, NotificationRead,
        NotificationDismiss, CallAnswer, CallEnd, ActionResult, ReaderEnds, busVars
<1>3. ASSUME NEW w \in Consoles, Console(w), NEW v \in Viewers, v # w PROVE Untouched(v)
  BY <1>0, <1>3 DEF Console, ConsoleUpgrade, ConsoleHello, ConsoleRecv, ConsoleSend, ConsoleEnds, Subscribe, DropSub,
     Recv, BusOK, PipeOK, EnvOK, Untouched, busVars, pipeVars
<1>4. ASSUME NEW e \in Emitted, Emit(e), NEW v \in Viewers PROVE Untouched(v)
  BY <1>4 DEF Emit, pipeVars, Untouched
<1>5. ASSUME Registry, NEW v \in Viewers PROVE Untouched(v)
  BY <1>5 DEF Registry, busVars, pipeVars, Untouched
<1> QED BY <1>1, <1>2, <1>3, <1>4, <1>5 DEF Next

\* The events on the way are a sequence of numbers.
LEMMA WaySeq ==
    ASSUME ViewersTypes, NEW v \in Viewers
    PROVE  /\ Way(v) \in Seq(Nat) /\ DOMAIN Way(v) = 1 .. Len(Way(v)) /\ Len(Way(v)) \in Nat
           /\ \A i \in DOMAIN Way(v) : Way(v)[i] \in Nat
<1>1. Way(v) \in Seq(Nat)
  <2>1. seen[v] \in Seq(Nat) /\ hold[v] \in Seq(Nat)
    BY DEF ViewersTypes, TypeOK
  <2>2. (IF v \in Displays THEN writing[v] \o queue[v] ELSE <<>>) \in Seq(Nat)
    BY Singles DEF ViewersTypes, TypeOK
  <2> QED BY <2>1, <2>2, Singles DEF Way
<1> QED BY <1>1, LenProperties

\* A step that leaves v the events on its way.
LEMMA SameWay ==
    ASSUME ViewersTypes, ViewersTypes', [Next]_vars, NEW v \in Viewers, Flow(v),
           Way(v)' = Way(v), from'[v] = from[v], cur'[v] = cur[v], v \in sub' <=> v \in sub,
           v \in writer' <=> v \in writer, stage'[v] = "new" => stage[v] = "new",
           v \in Displays /\ v \notin writer => seen'[v] = <<>> /\ writing'[v] = <<>> /\ queue'[v] = <<>>
    PROVE  Flow(v)'
<1>1. Emptied(v)'
  BY DEF Flow, Emptied
<1>2. /\ BusOf(v) \in Buses /\ Last(BusOf(v)) \in Nat /\ Last(BusOf(v))' \in Nat
      /\ Last(BusOf(v)) <= Last(BusOf(v))' /\ cur[v] \in Nat /\ from[v] \in Nat /\ BusCap \in Nat
  BY LogGrows, ViewersAssumption DEF BusOf, Buses, ViewersTypes, TypeOK
<1>3. InOrder(v)'
  BY <1>2 DEF Flow, InOrder
<1>4. Oldest(BusOf(v)) <= Oldest(BusOf(v))' /\ Oldest(BusOf(v)) \in Nat /\ Oldest(BusOf(v))' \in Nat
  BY <1>2, ViewersAssumption DEF Oldest
<1>5. Owed(v)'
  <2> SUFFICES ASSUME v \in sub, v \in Displays => v \in writer, NEW e \in from[v] .. Last(BusOf(v))'
               PROVE  \/ e >= cur[v] \/ e < Oldest(BusOf(v))'
                      \/ \E i \in DOMAIN Way(v) : Way(v)[i] = e
    BY DEF Owed
  <2>1. e \in Int /\ (e \in from[v] .. Last(BusOf(v)) \/ e >= Last(BusOf(v)) + 1)
    BY <1>2
  <2>2. CASE e >= Last(BusOf(v)) + 1
    BY <1>2, <2>1, <2>2 DEF Flow, InOrder
  <2>3. CASE e \in from[v] .. Last(BusOf(v))
    BY <1>2, <1>4, <2>1, <2>3 DEF Flow, Owed
  <2> QED BY <2>1, <2>2, <2>3
<1> QED BY <1>1, <1>3, <1>5 DEF Flow

LEMMA UntouchedFlow ==
    ASSUME ViewersTypes, ViewersTypes', [Next]_vars, NEW v \in Viewers, Flow(v), Untouched(v) PROVE Flow(v)'
<1>1. Way(v)' = Way(v)
  BY DEF Untouched, Way
<1>2. v \in Displays /\ v \notin writer => seen'[v] = <<>> /\ writing'[v] = <<>> /\ queue'[v] = <<>>
  BY DEF Untouched, Flow, Emptied
<1>3. /\ from'[v] = from[v] /\ cur'[v] = cur[v] /\ stage'[v] = stage[v]
      /\ (v \in sub' <=> v \in sub) /\ (v \in writer' <=> v \in writer)
  BY DEF Untouched
<1> QED BY <1>1, <1>2, <1>3, SameWay

\* A head and what follows it.
LEMMA HeadThenTail == ASSUME NEW s \in Seq(Nat), s # <<>> PROVE <<Head(s)>> \o Tail(s) = s
<1>1. Head(s) \in Nat /\ Tail(s) \in Seq(Nat) /\ Len(Tail(s)) = Len(s) - 1 /\ Len(s) \in Nat \ {0}
  BY Shifted
<1>2. <<Head(s)>> \in Seq(Nat) /\ Len(<<Head(s)>>) = 1 /\ <<Head(s)>>[1] = Head(s)
  BY <1>1
<1> DEFINE t == <<Head(s)>> \o Tail(s)
<1>3. /\ t \in Seq(Nat) /\ Len(t) = Len(s)
      /\ \A i \in 1 .. 1 + Len(Tail(s)) : t[i] = IF i <= 1 THEN <<Head(s)>>[i] ELSE Tail(s)[i - 1]
  BY <1>1, <1>2, ConcatProperties
<1> HIDE DEF t
<1>4. ASSUME NEW i \in 1 .. Len(t) PROVE t[i] = s[i]
  <2>1. CASE i = 1
    BY <1>1, <1>2, <1>3, <2>1, Shifted
  <2>2. CASE i # 1
    <3>1. i \in 1 .. 1 + Len(Tail(s)) /\ i - 1 \in 1 .. Len(s) - 1 /\ ~(i <= 1) /\ (i - 1) + 1 = i
      BY <1>1, <1>3, <2>2
    <3> QED BY <1>3, <3>1, Shifted
  <2> QED BY <2>1, <2>2
<1>5. t = s
  BY <1>3, <1>4, SeqEqual
<1> QED BY <1>5 DEF t

\* The pipe of v: what the client has seen, the rest, what is held.
LEMMA PipeSeqs ==
    ASSUME ViewersTypes, NEW v \in Viewers
    PROVE  /\ seen[v] \in Seq(Nat) /\ hold[v] \in Seq(Nat) /\ <<>> \in Seq(Nat)
           /\ v \in Displays => /\ writing[v] \in Seq(Nat) /\ queue[v] \in Seq(Nat)
                               /\ Way(v) = (seen[v] \o (writing[v] \o queue[v])) \o hold[v]
           /\ v \notin Displays => Way(v) = seen[v] \o hold[v]
<1>1. seen[v] \in Seq(Nat) /\ hold[v] \in Seq(Nat) /\ <<>> \in Seq(Nat)
  BY DEF ViewersTypes, TypeOK
<1>2. v \in Displays => writing[v] \in Seq(Nat) /\ queue[v] \in Seq(Nat)
  BY DEF ViewersTypes, TypeOK
<1>3. seen[v] \o <<>> = seen[v]
  BY <1>1, ConcatEmptySeq
<1> QED BY <1>1, <1>2, <1>3 DEF Way

\* Concatenation is associative.
LEMMA Regrouped == \A s, t, u \in Seq(Nat) : (s \o t) \o u = s \o (t \o u)
<1> SUFFICES ASSUME NEW s \in Seq(Nat), NEW t \in Seq(Nat), NEW u \in Seq(Nat)
             PROVE  (s \o t) \o u = s \o (t \o u)
  OBVIOUS
<1> QED BY ConcatAssociative

LEMMA RegroupedTwice ==
    \A s, t, u, r \in Seq(Nat) : (s \o (t \o u)) \o r = s \o (t \o (u \o r))
<1> SUFFICES ASSUME NEW s \in Seq(Nat), NEW t \in Seq(Nat), NEW u \in Seq(Nat), NEW r \in Seq(Nat)
             PROVE  (s \o (t \o u)) \o r = s \o (t \o (u \o r))
  OBVIOUS
<1> DEFINE tu == t \o u
<1>1. tu \in Seq(Nat) /\ tu \o r = t \o (u \o r)
  BY Regrouped, ConcatProperties
<1> HIDE DEF tu
<1>2. (s \o tu) \o r = s \o (tu \o r)
  BY <1>1, Regrouped, Zenon
<1> QED BY <1>1, <1>2 DEF tu

\* An event is handed on within the pipe of a display.
LEMMA HandedOn ==
    ASSUME ViewersTypes, ViewersTypes', NEW v \in Displays, BridgeSend(v) \/ WriterTake(v) \/ WriterSent(v)
    PROVE  Way(v)' = Way(v)
<1> v \in Viewers
  BY DEF Viewers
<1>0. hold \in [Viewers -> Seq(Nat)] /\ queue \in [Displays -> Seq(Nat)]
      /\ writing \in [Displays -> Seq(Nat)] /\ seen \in [Viewers -> Seq(Nat)]
  BY DEF ViewersTypes, TypeOK
<1> DEFINE s == seen[v]  w == writing[v]  q == queue[v]  h == hold[v]
<1>1. s \in Seq(Nat) /\ w \in Seq(Nat) /\ q \in Seq(Nat) /\ h \in Seq(Nat) /\ Way(v) = (s \o (w \o q)) \o h
  BY PipeSeqs
<1>2. Way(v)' = (seen'[v] \o (writing'[v] \o queue'[v])) \o hold'[v]
  BY Zenon DEF Way
<1>3. CASE BridgeSend(v)
  <2>1. seen'[v] = s /\ writing'[v] = w /\ queue'[v] = q \o h /\ hold'[v] = <<>>
    BY <1>0, <1>3 DEF BridgeSend
  <2> HIDE DEF s, w, q, h
  <2>2. q \o h \in Seq(Nat) /\ w \o q \in Seq(Nat) /\ w \o (q \o h) \in Seq(Nat)
    BY <1>1, ConcatProperties
  <2>3. s \o (w \o (q \o h)) \in Seq(Nat)
    BY <1>1, <2>2, ConcatProperties
  <2>4. (s \o (w \o (q \o h))) \o <<>> = s \o (w \o (q \o h))
    BY <2>3, ConcatEmptySeq
  <2>5. (s \o (w \o q)) \o h = s \o (w \o (q \o h))
    <3>1. \A t, u \in Seq(Nat) : \A r \in Seq(Nat) : (s \o (t \o u)) \o r = s \o (t \o (u \o r))
      BY <1>1, RegroupedTwice, Zenon
    <3>2. \A r \in Seq(Nat) : (s \o (w \o q)) \o r = s \o (w \o (q \o r))
      BY <1>1, <3>1, Zenon
    <3> QED BY <1>1, <3>2, Zenon
  <2> QED BY <1>1, <1>2, <2>1, <2>4, <2>5
<1>4. CASE WriterTake(v)
  <2>1. /\ seen'[v] = s /\ writing'[v] = <<Head(q)>> /\ queue'[v] = Tail(q) /\ hold'[v] = h
        /\ w = <<>> /\ q # <<>>
    BY <1>0, <1>4 DEF WriterTake
  <2> HIDE DEF s, w, q, h
  <2>2. <<Head(q)>> \o Tail(q) = q /\ <<>> \o q = q
    BY <1>1, <2>1, HeadThenTail, ConcatEmptySeq
  <2> QED BY <1>1, <1>2, <2>1, <2>2
<1>5. CASE WriterSent(v)
  <2>1. seen'[v] = s \o w /\ writing'[v] = <<>> /\ queue'[v] = q /\ hold'[v] = h
    BY <1>0, <1>5 DEF WriterSent
  <2> HIDE DEF s, w, q, h
  <2>2. <<>> \o q = q
    BY <1>1, ConcatEmptySeq
  <2>3. (s \o w) \o q = s \o (w \o q)
    BY <1>1, Regrouped, Zenon
  <2> QED BY <1>1, <1>2, <2>1, <2>2, <2>3
<1> QED BY <1>3, <1>4, <1>5

\* So is one within the loop of a console.
LEMMA ConsoleHandedOn ==
    ASSUME ViewersTypes, NEW v \in Consoles, ConsoleSend(v) PROVE Way(v)' = Way(v)
<1> v \in Viewers /\ v \notin Displays
  BY ViewersAssumption DEF Viewers
<1>1. seen[v] \in Seq(Nat) /\ hold[v] \in Seq(Nat) /\ Way(v) = seen[v] \o hold[v]
  BY PipeSeqs
<1>2. seen'[v] = seen[v] \o hold[v] /\ hold'[v] = <<>>
  BY DEF ConsoleSend, ViewersTypes, TypeOK
<1>3. Way(v)' = (seen'[v] \o <<>>) \o hold'[v]
  BY DEF Way
<1>4. seen[v] \o hold[v] \in Seq(Nat)
  BY <1>1, ConcatProperties
<1>5. (seen[v] \o hold[v]) \o <<>> = seen[v] \o hold[v]
  BY <1>4, ConcatEmptySeq
<1> QED BY <1>1, <1>2, <1>3, <1>5

\* A viewer that receives: the event is the last on its way, or some are overwritten.
LEMMA RecvFlow ==
    ASSUME ViewersTypes, ViewersTypes', [Next]_vars, NEW v \in Viewers, Flow(v), Recv(v), stage'[v] = stage[v],
           UNCHANGED <<log, sub, from, queue, writer, writing, seen>>
    PROVE  Flow(v)'
<1>1. /\ BusOf(v) \in Buses /\ Last(BusOf(v)) \in Nat /\ Last(BusOf(v))' = Last(BusOf(v))
      /\ cur[v] \in Nat /\ from[v] \in Nat /\ cur[v] <= Last(BusOf(v)) /\ v \in sub
      /\ Oldest(BusOf(v)) \in Nat /\ Oldest(BusOf(v))' = Oldest(BusOf(v))
      /\ Oldest(BusOf(v)) <= Last(BusOf(v)) + 1
  <2>1. BusOf(v) \in Buses /\ Last(BusOf(v)) \in Nat /\ cur[v] \in Nat /\ from[v] \in Nat
    BY LogGrows DEF BusOf, Buses, ViewersTypes, TypeOK
  <2>2. Last(BusOf(v))' = Last(BusOf(v)) /\ Oldest(BusOf(v))' = Oldest(BusOf(v))
    BY DEF Last, Oldest
  <2>3. Oldest(BusOf(v)) \in Nat /\ Oldest(BusOf(v)) <= Last(BusOf(v)) + 1
    BY <2>1, ViewersAssumption DEF Oldest
  <2> QED BY <2>1, <2>2, <2>3 DEF Recv
<1>2. CASE cur[v] < Oldest(BusOf(v))
  <2>1. cur'[v] = Oldest(BusOf(v)) /\ hold' = hold
    BY <1>2 DEF Recv, AfterLag, ViewersTypes, TypeOK
  <2>2. Way(v)' = Way(v)
    BY <2>1 DEF Way
  <2>3. Emptied(v)'
    BY <2>2 DEF Flow, Emptied
  <2>4. InOrder(v)'
    BY <1>1, <1>2, <2>1, <2>2, WaySeq DEF Flow, InOrder
  <2>5. Owed(v)'
    <3> SUFFICES ASSUME v \in Displays => v \in writer, NEW e \in from[v] .. Last(BusOf(v))
                 PROVE  \/ e >= Oldest(BusOf(v)) \/ e < Oldest(BusOf(v))
                        \/ \E i \in DOMAIN Way(v) : Way(v)[i] = e
      BY <1>1, <2>1, <2>2 DEF Owed
    <3> QED BY <1>1
  <2> QED BY <2>3, <2>4, <2>5 DEF Flow
<1>3. CASE ~(cur[v] < Oldest(BusOf(v)))
  <2>1. cur'[v] = cur[v] + 1 /\ hold'[v] = <<cur[v]>> /\ hold[v] = <<>>
    BY <1>3 DEF Recv, ViewersTypes, TypeOK
  <2> DEFINE w == Way(v)  c == cur[v]
  <2>2. w \in Seq(Nat) /\ <<c>> \in Seq(Nat) /\ Len(<<c>>) = 1 /\ <<c>>[1] = c /\ c \in Nat /\ Len(w) \in Nat
    BY <1>1, WaySeq
  <2>3. Way(v)' = w \o <<c>>
    <3>1. CASE v \in Displays
      <4>1. seen[v] \o (writing[v] \o queue[v]) \in Seq(Nat)
        BY <3>1, PipeSeqs, Singles
      <4>2. w = seen[v] \o (writing[v] \o queue[v])
        BY <2>1, <3>1, <4>1, PipeSeqs, ConcatEmptySeq
      <4> QED BY <2>1, <3>1, <4>2 DEF Way
    <3>2. CASE v \notin Displays
      <4>1. seen[v] \in Seq(Nat) /\ w = seen[v] \o <<>>
        BY <2>1, <3>2, PipeSeqs
      <4>2. w = seen[v] /\ seen[v] \o <<>> = seen[v]
        BY <4>1, ConcatEmptySeq
      <4> QED BY <2>1, <3>2, <4>2 DEF Way
    <3> QED BY <3>1, <3>2
  <2> HIDE DEF w, c
  <2>4. /\ DOMAIN Way(v)' = 1 .. (Len(w) + 1) /\ DOMAIN w = 1 .. Len(w)
        /\ Way(v)'[Len(w) + 1] = c
        /\ \A i \in 1 .. Len(w) : Way(v)'[i] = w[i]
    <3>1. /\ w \o <<c>> \in Seq(Nat) /\ Len(w \o <<c>>) = Len(w) + 1
          /\ \A i \in 1 .. Len(w) + 1 : (w \o <<c>>)[i] = IF i <= Len(w) THEN w[i] ELSE <<c>>[i - Len(w)]
      BY <2>2, ConcatProperties
    <3>2. DOMAIN (w \o <<c>>) = 1 .. (Len(w) + 1) /\ DOMAIN w = 1 .. Len(w)
      BY <2>2, <3>1, LenProperties
    <3>3. (w \o <<c>>)[Len(w) + 1] = c
      BY <2>2, <3>1
    <3>4. \A i \in 1 .. Len(w) : (w \o <<c>>)[i] = w[i]
      BY <2>2, <3>1
    <3> QED BY <2>3, <3>2, <3>3, <3>4
  <2>5. /\ \A i, j \in DOMAIN w : i < j => w[i] < w[j]
        /\ \A i \in DOMAIN w : w[i] < c /\ w[i] \in Nat
    BY <1>1, WaySeq DEF Flow, InOrder, w, c
  <2>6. InOrder(v)'
    <3>1. ASSUME NEW i \in 1 .. (Len(w) + 1), NEW j \in 1 .. (Len(w) + 1), i < j PROVE Way(v)'[i] < Way(v)'[j]
      <4>1. i \in 1 .. Len(w) /\ (j = Len(w) + 1 \/ j \in 1 .. Len(w))
        BY <2>2, <3>1
      <4>2. CASE j = Len(w) + 1
        BY <2>4, <2>5, <4>1, <4>2
      <4>3. CASE j \in 1 .. Len(w)
        BY <2>4, <2>5, <3>1, <4>1, <4>3
      <4> QED BY <4>1, <4>2, <4>3
    <3>2. ASSUME NEW i \in 1 .. (Len(w) + 1) PROVE Way(v)'[i] < c + 1
      <4>1. i = Len(w) + 1 \/ i \in 1 .. Len(w)
        BY <2>2
      <4>2. CASE i = Len(w) + 1
        BY <2>2, <2>4, <4>2
      <4>3. CASE i \in 1 .. Len(w)
        <5>1. Way(v)'[i] = w[i] /\ w[i] < c /\ w[i] \in Nat
          BY <2>4, <2>5, <4>3
        <5> QED BY <2>2, <5>1
      <4> QED BY <4>1, <4>2, <4>3
    <3>3. cur'[v] = c + 1 /\ cur'[v] <= Last(BusOf(v))' + 1
      BY <1>1, <2>1 DEF c
    <3> QED BY <2>4, <3>1, <3>2, <3>3 DEF InOrder
  <2>7. Emptied(v)'
    BY <1>1, <2>1 DEF Flow, Emptied
  <2>8. Owed(v)'
    <3> SUFFICES ASSUME v \in Displays => v \in writer, NEW e \in from[v] .. Last(BusOf(v))
                 PROVE  \/ e >= c + 1 \/ e < Oldest(BusOf(v))
                        \/ \E i \in DOMAIN Way(v)' : Way(v)'[i] = e
      BY <1>1, <2>1 DEF Owed, c
    <3>1. e \in Int /\ (e >= c \/ e < Oldest(BusOf(v)) \/ \E i \in DOMAIN w : w[i] = e)
      BY <1>1 DEF Flow, Owed, w, c
    <3>2. CASE e >= c
      <4>1. e = c \/ e >= c + 1
        BY <2>2, <3>1, <3>2
      <4>2. Len(w) + 1 \in DOMAIN Way(v)'
        BY <2>2, <2>4
      <4> QED BY <2>4, <4>1, <4>2
    <3>3. ASSUME NEW i \in DOMAIN w, w[i] = e PROVE \E k \in DOMAIN Way(v)' : Way(v)'[k] = e
      <4>1. i \in DOMAIN Way(v)' /\ Way(v)'[i] = e
        BY <2>2, <2>4, <3>3
      <4> QED BY <4>1
    <3> QED BY <3>1, <3>2, <3>3
  <2> QED BY <2>6, <2>7, <2>8 DEF Flow
<1> QED BY <1>2, <1>3

\* A subscription that ends takes what was on its way with it.
LEMMA DroppedFlow ==
    ASSUME ViewersTypes, ViewersTypes', [Next]_vars, NEW v \in Viewers, DropSub(v), stage'[v] # "new",
           seen'[v] = <<>>, hold'[v] = <<>>, v \in Displays => writing'[v] = <<>> /\ queue'[v] = <<>>
    PROVE  Flow(v)'
<1>1. <<>> \o <<>> = <<>>
  BY Singles, ConcatEmptySeq
<1>2. Way(v)' = <<>>
  BY <1>1 DEF Way
<1>3. v \notin sub' /\ cur'[v] = 1
  BY DEF DropSub, ViewersTypes, TypeOK
<1>4. Last(BusOf(v))' \in Nat
  BY LogGrows DEF BusOf, Buses
<1>5. DOMAIN <<>> = {}
  OBVIOUS
<1> QED BY <1>2, <1>3, <1>4, <1>5 DEF Flow, Emptied, InOrder, Owed

\* A subscription that begins is owed nothing yet.
LEMMA SubscribedFlow ==
    ASSUME ViewersTypes, ViewersTypes', [Next]_vars, NEW v \in Viewers, Flow(v), stage[v] = "new", Subscribe(v),
           stage'[v] # "new", v \in Displays => v \in writer',
           UNCHANGED <<log, seen, hold, queue, writing>>
    PROVE  Flow(v)'
<1>1. Way(v)' = Way(v) /\ Way(v) = <<>>
  BY DEF Way, Flow, Emptied
<1>2. v \in sub' /\ from'[v] = Last(BusOf(v)) + 1 /\ cur'[v] = Last(BusOf(v)) + 1
  BY DEF Subscribe, ViewersTypes, TypeOK
<1>3. Last(BusOf(v)) \in Nat /\ Last(BusOf(v))' = Last(BusOf(v))
  BY LogGrows DEF BusOf, Buses, Last
<1>4. DOMAIN <<>> = {}
  OBVIOUS
<1>5. Emptied(v)' /\ InOrder(v)'
  BY <1>1, <1>2, <1>3, <1>4 DEF Emptied, InOrder
<1>6. Owed(v)'
  <2>1. \A e \in from'[v] .. Last(BusOf(v))' : FALSE
    BY <1>2, <1>3
  <2> QED BY <2>1 DEF Owed
<1> QED BY <1>5, <1>6 DEF Flow

\* A writer that fails: only what the bridge holds is left.
LEMMA WriterFailsFlow ==
    ASSUME ViewersTypes, ViewersTypes', [Next]_vars, NEW v \in Displays, Flow(v), WriterFails(v) PROVE Flow(v)'
<1> v \in Viewers
  BY DEF Viewers
<1>1. /\ seen'[v] = <<>> /\ writing'[v] = <<>> /\ queue'[v] = <<>> /\ hold'[v] = hold[v]
      /\ v \notin writer' /\ v \in writer /\ UNCHANGED <<stage, busVars>>
  BY DEF WriterFails, ViewersTypes, TypeOK
<1>2. hold[v] \in Seq(Nat) /\ <<>> \o <<>> = <<>> /\ <<>> \o hold[v] = hold[v]
  BY PipeSeqs, ConcatEmptySeq
<1>3. Way(v)' = hold[v]
  BY <1>1, <1>2 DEF Way
<1> DEFINE p == seen[v] \o (writing[v] \o queue[v])  h == hold[v]
<1>4. p \in Seq(Nat) /\ h \in Seq(Nat) /\ Way(v) = p \o h
  BY PipeSeqs, Singles
<1>5. v \notin sub => h = <<>>
  <2>1. v \notin sub => p \o h = <<>>
    BY <1>4 DEF Flow, Emptied
  <2> HIDE DEF p, h
  <2> QED BY <1>4, <2>1, ConcatEqualIffEmpty
<1>6. \A i \in DOMAIN h : Len(p) + i \in DOMAIN Way(v) /\ Way(v)[Len(p) + i] = h[i] /\ i \in Int
  <2> HIDE DEF p, h
  <2>1. /\ Len(p \o h) = Len(p) + Len(h) /\ p \o h \in Seq(Nat)
        /\ \A i \in 1 .. Len(p) + Len(h) : (p \o h)[i] = IF i <= Len(p) THEN p[i] ELSE h[i - Len(p)]
    BY <1>4, ConcatProperties
  <2>2. /\ DOMAIN h = 1 .. Len(h) /\ DOMAIN (p \o h) = 1 .. Len(p) + Len(h)
        /\ Len(p) \in Nat /\ Len(h) \in Nat
    BY <1>4, <2>1, LenProperties
  <2>3. ASSUME NEW i \in DOMAIN h
        PROVE  Len(p) + i \in 1 .. Len(p) + Len(h) /\ ~(Len(p) + i <= Len(p)) /\ (Len(p) + i) - Len(p) = i /\ i \in Int
    BY <2>2, <2>3
  <2> QED BY <1>4, <2>1, <2>2, <2>3
<1>7. Len(p) \in Nat
  BY <1>4, Singles
<1> HIDE DEF p, h
<1>8. \A i, j \in DOMAIN h : i < j => h[i] < h[j]
  <2> SUFFICES ASSUME NEW i \in DOMAIN h, NEW j \in DOMAIN h, i < j PROVE h[i] < h[j]
    OBVIOUS
  <2>1. Len(p) + i < Len(p) + j
    BY <1>6, <1>7
  <2> QED BY <1>6, <2>1 DEF Flow, InOrder
<1>9. v \in sub => \A i \in DOMAIN h : h[i] < cur[v]
  BY <1>6 DEF Flow, InOrder
<1>10. InOrder(v)'
  BY <1>1, <1>3, <1>8, <1>9 DEF Flow, InOrder, busVars, Last, h
<1>11. Emptied(v)' /\ Owed(v)'
  BY <1>1, <1>3, <1>5 DEF Emptied, Owed, Flow, busVars, h
<1> QED BY <1>10, <1>11 DEF Flow

\* The connection that moves keeps its flow.
LEMMA DisplayFlow ==
    ASSUME ViewersTypes, ViewersTypes', [Next]_vars, NEW v \in Displays, Flow(v), Display(v) PROVE Flow(v)'
<1> v \in Viewers
  BY DEF Viewers
<1>1. ASSUME Upgrade(v) PROVE Flow(v)'
  <2>1. UNCHANGED <<log, hold, queue, writing, seen>> /\ stage[v] = "new"
    BY <1>1 DEF Upgrade, MayConnect
  <2>2. CASE Subscribe(v) /\ stage'[v] = "up" /\ v \in writer'
    BY <2>1, <2>2, SubscribedFlow
  <2>3. CASE stage'[v] = "done" /\ UNCHANGED <<sub, from, cur, count, writer>>
    <3>1. Way(v)' = Way(v) /\ (v \notin writer => seen'[v] = <<>> /\ writing'[v] = <<>> /\ queue'[v] = <<>>)
      BY <2>1 DEF Way, Flow, Emptied
    <3> QED BY <2>3, <3>1, SameWay
  <2>4. stage'[v] = "up" \/ stage'[v] = "done"
    BY <1>1 DEF Upgrade, ViewersTypes, TypeOK
  <2> QED BY <1>1, <2>2, <2>3 DEF Upgrade, ViewersTypes, TypeOK
<1>2. ASSUME BridgeRecv(v) PROVE Flow(v)'
  BY <1>2, RecvFlow DEF BridgeRecv
<1>3. ASSUME BridgeSend(v) \/ WriterTake(v) \/ WriterSent(v) PROVE Flow(v)'
  <2>1. Way(v)' = Way(v)
    BY <1>3, HandedOn
  <2>2. UNCHANGED <<stage, busVars, writer>> /\ v \in writer
    BY <1>3 DEF BridgeSend, WriterTake, WriterSent
  <2> QED BY <2>1, <2>2, SameWay DEF busVars
<1>4. ASSUME BridgeEnds(v) PROVE Flow(v)'
  <2>1. v \notin writer /\ DropSub(v) /\ hold'[v] = <<>> /\ UNCHANGED <<stage, queue, writing, seen>>
    BY <1>4 DEF BridgeEnds, ViewersTypes, TypeOK
  <2>2. seen[v] = <<>> /\ writing[v] = <<>> /\ queue[v] = <<>>
    BY <2>1 DEF Flow, Emptied
  <2>3. stage[v] # "new"
    BY <1>4, <2>2, Singles, ConcatEmptySeq DEF BridgeEnds, Flow, Emptied, Way
  <2> QED BY <2>1, <2>2, <2>3, DroppedFlow
<1>5. ASSUME WriterFails(v) PROVE Flow(v)'
  BY <1>5, WriterFailsFlow
<1>6. ASSUME Abort(v) PROVE Flow(v)'
  <2>1. /\ DropSub(v) /\ stage'[v] = "done" /\ hold'[v] = <<>> /\ seen'[v] = <<>> /\ writing'[v] = <<>>
        /\ queue'[v] = <<>>
    BY <1>6 DEF Abort, ViewersTypes, TypeOK
  <2> QED BY <2>1, DroppedFlow
<1>8. ASSUME ReaderEnds(v) PROVE Flow(v)'
  <2>1. Way(v)' = Way(v) /\ UNCHANGED <<busVars, pipeVars>> /\ stage'[v] = "ending"
    BY <1>8 DEF ReaderEnds, Way, pipeVars, ViewersTypes, TypeOK
  <2>2. v \notin writer => seen'[v] = <<>> /\ writing'[v] = <<>> /\ queue'[v] = <<>>
    BY <2>1 DEF Flow, Emptied, pipeVars
  <2> QED BY <2>1, <2>2, SameWay DEF busVars, pipeVars
<1>7. ASSUME UNCHANGED <<stage, sub, from, cur, pipeVars>> PROVE Flow(v)'
  BY <1>7, UntouchedFlow DEF pipeVars, Untouched
<1> QED BY <1>1, <1>2, <1>3, <1>4, <1>5, <1>6, <1>7, <1>8
  DEF Display, SendLine, ReadLine, Unknown, PhoneOffline, SmsReply, NotificationRead,
      NotificationDismiss, CallAnswer, CallEnd, ActionResult, busVars

LEMMA ConsoleFlow ==
    ASSUME ViewersTypes, ViewersTypes', [Next]_vars, NEW v \in Consoles, Flow(v), Console(v) PROVE Flow(v)'
<1> v \in Viewers /\ v \notin Displays
  BY ViewersAssumption DEF Viewers
<1>1. ASSUME ConsoleUpgrade(v) PROVE Flow(v)'
  <2>1. stage'[v] = "hello"
    BY <1>1 DEF ConsoleUpgrade, ViewersTypes, TypeOK
  <2> QED BY <1>1, <2>1, SubscribedFlow DEF ConsoleUpgrade, MayConnect, pipeVars
<1>2. ASSUME ConsoleHello(v) PROVE Flow(v)'
  <2>1. stage'[v] = "up" /\ Way(v)' = Way(v) /\ UNCHANGED <<busVars, writer>>
    BY <1>2 DEF ConsoleHello, pipeVars, Way, ViewersTypes, TypeOK
  <2> QED BY <2>1, SameWay DEF busVars
<1>3. ASSUME ConsoleRecv(v) PROVE Flow(v)'
  BY <1>3, RecvFlow DEF ConsoleRecv
<1>4. ASSUME ConsoleSend(v) PROVE Flow(v)'
  <2>1. Way(v)' = Way(v)
    BY <1>4, ConsoleHandedOn
  <2> QED BY <1>4, <2>1, SameWay DEF ConsoleSend, busVars
<1>5. ASSUME ConsoleEnds(v) PROVE Flow(v)'
  <2>1. DropSub(v) /\ stage'[v] = "done" /\ hold'[v] = <<>> /\ seen'[v] = <<>>
    BY <1>5 DEF ConsoleEnds, ViewersTypes, TypeOK
  <2> QED BY <2>1, DroppedFlow
<1> QED BY <1>1, <1>2, <1>3, <1>4, <1>5 DEF Console

\* The counter follows the subscriptions: nothing makes it miss one, or
\* count one twice.
LEMMA CountKept ==
    ASSUME ViewersTypes, Counted, \A v \in Viewers : Flow(v), [Next]_vars PROVE Counted'
<1>0. ReaderOK
  BY TypeParts
<1>1. sub \cap Displays \subseteq Displays /\ IsFiniteSet(Displays)
  BY ViewersAssumption
<1>2. IsFiniteSet(sub \cap Displays)
  BY <1>1, FS_Subset
<1>3. CASE UNCHANGED <<count, sub>>
  BY <1>3 DEF Counted
<1>4. ASSUME NEW v \in Viewers, BusStep(v) PROVE Counted'
  <2>1. CASE UNCHANGED busVars
    BY <1>3, <2>1 DEF busVars
  <2>2. CASE Subscribe(v) /\ stage[v] = "new"
    <3>1. v \notin sub
      BY <2>2 DEF Flow, Emptied
    <3>2. CASE v \in Displays
      <4>1. sub' \cap Displays = (sub \cap Displays) \cup {v} /\ count' = count + 1
        BY <2>2, <3>2 DEF Subscribe
      <4>2. Cardinality((sub \cap Displays) \cup {v}) = Cardinality(sub \cap Displays) + 1
        BY <1>2, <3>1, FS_AddElement
      <4> QED BY <4>1, <4>2 DEF Counted
    <3>3. CASE v \notin Displays
      <4>1. sub' \cap Displays = sub \cap Displays /\ count' = count
        BY <2>2, <3>3 DEF Subscribe
      <4> QED BY <4>1 DEF Counted
    <3> QED BY <3>2, <3>3
  <2>3. CASE DropSub(v)
    <3>1. CASE v \in sub \cap Displays
      <4>1. Cardinality((sub \cap Displays) \ {v}) = Cardinality(sub \cap Displays) - 1
        BY <1>2, <3>1, FS_RemoveElement
      <4>2. Cardinality(sub \cap Displays) \in Nat /\ Cardinality(sub \cap Displays) # 0
        BY <1>2, <3>1, FS_CardinalityType, FS_EmptySet
      <4>3. sub' \cap Displays = (sub \cap Displays) \ {v}
        BY <2>3 DEF DropSub
      <4>4. count > 0
        BY <4>2 DEF Counted
      <4>5. count' = count - 1
        BY <2>3, <3>1, <4>4 DEF DropSub
      <4> QED BY <4>1, <4>3, <4>5 DEF Counted
    <3>2. CASE v \notin sub \cap Displays
      <4>1. sub' \cap Displays = sub \cap Displays /\ count' = count
        BY <2>3, <3>2 DEF DropSub
      <4> QED BY <4>1 DEF Counted
    <3> QED BY <3>1, <3>2
  <2> QED BY <1>3, <1>4, <2>1, <2>2, <2>3 DEF BusStep
<1>5. ASSUME NEW e \in Emitted, Emit(e) PROVE Counted'
  BY <1>3, <1>5 DEF Emit
<1>6. CASE UNCHANGED busVars
  BY <1>3, <1>6 DEF busVars
<1> QED BY <1>0, <1>4, <1>5, <1>6, BusSteps

\* Every connection keeps its flow, whoever moves.
LEMMA StepFlow == ASSUME FlowInv, [Next]_vars PROVE FlowInv'
<1>1. ViewersTypes'
  BY StepTypes DEF FlowInv
<1>2. Counted'
  BY CountKept DEF FlowInv
<1>3. ASSUME NEW v \in Viewers PROVE Flow(v)'
  <2>1. CASE Untouched(v)
    BY <1>1, <2>1, UntouchedFlow DEF FlowInv
  <2>2. CASE v \in Displays /\ Display(v)
    BY <1>1, <2>2, DisplayFlow DEF FlowInv
  <2>3. CASE v \in Consoles /\ Console(v)
    BY <1>1, <2>3, ConsoleFlow DEF FlowInv
  <2> QED BY <2>1, <2>2, <2>3, ViewersMoveOneByOne DEF FlowInv
<1> QED BY <1>1, <1>2, <1>3 DEF FlowInv

LEMMA InitFlow == Init => FlowInv
<1> SUFFICES ASSUME Init PROVE FlowInv
  OBVIOUS
<1>1. ViewersTypes
  BY InitTypes
<1>2. Counted
  <2>1. sub \cap Displays = {} /\ count = 0
    BY DEF Init
  <2> QED BY <2>1, FS_EmptySet DEF Counted
<1>3. ASSUME NEW v \in Viewers PROVE Flow(v)
  <2>1. <<>> \o <<>> = <<>> /\ DOMAIN <<>> = {}
    BY Singles, ConcatEmptySeq
  <2>2. Way(v) = <<>>
    BY <2>1 DEF Init, Way
  <2>3. Last(BusOf(v)) = 0 /\ cur[v] = 1 /\ v \notin sub /\ stage[v] = "new" /\ v \notin writer
    BY DEF Init, Last, BusOf, Buses
  <2>4. Emptied(v)
    BY <2>2, <2>3 DEF Init, Emptied
  <2> QED BY <2>1, <2>2, <2>3, <2>4 DEF Flow, InOrder, Owed
<1> QED BY <1>1, <1>2, <1>3 DEF FlowInv

\* No viewer misses an event that its bus still holds, and a display that is
\* subscribed is counted.
THEOREM NoGapIsSilent == Spec => []NoSilentGap
<1>1. FlowInv => NoSilentGap
  <2> SUFFICES ASSUME FlowInv, NEW v \in Viewers
               PROVE  /\ \A i, j \in DOMAIN Way(v) : i < j => Way(v)[i] < Way(v)[j]
                      /\ v \in sub /\ (v \in Displays => v \in writer) =>
                             \A e \in from[v] .. Last(BusOf(v)) :
                                 \/ e >= cur[v]
                                 \/ \E i \in DOMAIN Way(v) : Way(v)[i] = e
                                 \/ e < Oldest(BusOf(v))
                      /\ v \in sub \cap Displays => count > 0
    BY DEF NoSilentGap
  <2>1. Flow(v) /\ Counted
    BY DEF FlowInv
  <2>2. v \in sub \cap Displays => count > 0
    <3>1. IsFiniteSet(sub \cap Displays)
      BY ViewersAssumption, FS_Subset
    <3>2. v \in sub \cap Displays => Cardinality(sub \cap Displays) \in Nat /\ Cardinality(sub \cap Displays) # 0
      BY <3>1, FS_CardinalityType, FS_EmptySet
    <3> QED BY <2>1, <3>2 DEF Counted
  <2> QED BY <2>1, <2>2 DEF Flow, InOrder, Owed
<1> QED BY <1>1, InitFlow, StepFlow, PTL DEF Spec

-----------------------------------------------------------------------------
\* What the readers' sequences hold.
LEMMA ReaderSeqs ==
    ASSUME ViewersTypes, NEW v \in Displays
    PROVE  /\ lines[v] \in Seq(Nat) /\ DOMAIN lines[v] = 1 .. Len(lines[v])
           /\ \A i \in DOMAIN lines[v] : lines[v][i] \in Nat
           /\ done[v] \in Seq([id : Nat, ok : BOOLEAN, asked : BOOLEAN])
           /\ DOMAIN done[v] = 1 .. Len(done[v]) /\ Len(done[v]) \in Nat
           /\ \A n \in DOMAIN done[v] : done[v][n].id \in Nat
           /\ moves \in Nat /\ (~At(v, "none") => act[v].id \in Nat)
           /\ Last("display") \in Nat /\ log["display"] \in Seq(Events)
<1>1. ReaderOK /\ BusOK /\ EnvOK
  BY TypeParts
<1>2. lines[v] \in Seq(Nat) /\ done[v] \in Seq([id : Nat, ok : BOOLEAN, asked : BOOLEAN])
  BY <1>1 DEF ReaderOK
<1>3. /\ DOMAIN lines[v] = 1 .. Len(lines[v]) /\ \A i \in DOMAIN lines[v] : lines[v][i] \in Nat
      /\ DOMAIN done[v] = 1 .. Len(done[v]) /\ Len(done[v]) \in Nat
      /\ \A n \in DOMAIN done[v] : done[v][n] \in [id : Nat, ok : BOOLEAN, asked : BOOLEAN]
  BY <1>2, LenProperties, ElementOfSeq
<1>4. log["display"] \in Seq(Events)
  BY <1>1 DEF BusOK, Buses
<1>5. Last("display") \in Nat
  BY <1>4, LenProperties DEF Last
<1> QED BY <1>1, <1>2, <1>3, <1>4, <1>5, ActionForms DEF EnvOK

\* An interval that grows by one.
LEMMA OneMore ==
    \A m \in Nat :
        /\ \A i \in 1 .. m + 1 : i = m + 1 \/ i \in 1 .. m
        /\ m + 1 \in 1 .. m + 1 /\ m + 1 \notin 1 .. m
        /\ \A i \in 1 .. m : i \in 1 .. m + 1 /\ i < m + 1
OBVIOUS

\* The display's bus after an event is sent on it.
LEMMA LogAppended ==
    ASSUME ViewersTypes, NEW e \in Events, log'["display"] = Append(log["display"], e)
    PROVE  /\ Last("display") \in Nat /\ Last("display")' = Last("display") + 1
           /\ log'["display"][Last("display") + 1] = e
           /\ \A i \in 1 .. Last("display") : log'["display"][i] = log["display"][i]
           /\ \A i \in 1 .. Last("display") + 1 : i = Last("display") + 1 \/ i \in 1 .. Last("display")
           /\ Last("display") + 1 \in 1 .. Last("display") + 1 /\ Last("display") + 1 \notin 1 .. Last("display")
           /\ \A i \in 1 .. Last("display") : i \in 1 .. Last("display") + 1 /\ i < Last("display") + 1
<1>1. log["display"] \in Seq(Events)
  BY DEF ViewersTypes, TypeOK, Buses
<1>2. /\ Last("display") \in Nat /\ Last("display")' = Last("display") + 1
      /\ log'["display"][Last("display") + 1] = e
      /\ \A i \in 1 .. Last("display") : log'["display"][i] = log["display"][i]
  BY <1>1, Appended DEF Last
<1> QED BY <1>2, OneMore

\* The results of v, when the event is not one of them, and when it is.
LEMMA ResultsOfLog ==
    ASSUME ViewersTypes, NEW v \in Displays
    PROVE  /\ log'["display"] = log["display"] => Results(v)' = Results(v)
           /\ \A e \in Events : log'["display"] = Append(log["display"], e) =>
                  Results(v)' = IF e.kind = "action.result" /\ e.by = v
                                THEN Results(v) \cup {Last("display") + 1} ELSE Results(v)
<1>1. ASSUME log'["display"] = log["display"] PROVE Results(v)' = Results(v)
  BY <1>1 DEF Results, Last
<1>2. ASSUME NEW e \in Events, log'["display"] = Append(log["display"], e)
      PROVE  Results(v)' = IF e.kind = "action.result" /\ e.by = v
                           THEN Results(v) \cup {Last("display") + 1} ELSE Results(v)
  <2>1. /\ Last("display")' = Last("display") + 1
        /\ log'["display"][Last("display") + 1] = e
        /\ \A i \in 1 .. Last("display") : log'["display"][i] = log["display"][i]
        /\ \A i \in 1 .. Last("display") + 1 : i = Last("display") + 1 \/ i \in 1 .. Last("display")
        /\ Last("display") + 1 \in 1 .. Last("display") + 1 /\ Last("display") + 1 \notin 1 .. Last("display")
        /\ \A i \in 1 .. Last("display") : i \in 1 .. Last("display") + 1
    BY <1>2, LogAppended
  <2>2. Results(v)' = {i \in 1 .. Last("display") + 1 :
                          log'["display"][i].kind = "action.result" /\ log'["display"][i].by = v}
    BY <2>1, Zenon DEF Results
  <2>3. CASE e.kind = "action.result" /\ e.by = v
    <3>1. Results(v)' = Results(v) \cup {Last("display") + 1}
      BY <2>1, <2>2, <2>3, Zenon DEF Results
    <3> QED BY <2>3, <3>1
  <2>4. CASE ~(e.kind = "action.result" /\ e.by = v)
    <3>1. Results(v)' = Results(v)
      BY <2>1, <2>2, <2>4, Zenon DEF Results
    <3> QED BY <2>4, <3>1
  <2> QED BY <2>3, <2>4
<1> QED BY <1>1, <1>2

Kept(v) == Numbered(v) /\ Answered(v) /\ Told(v)

\* An event that is no result of v, and if it says that v's phone is offline
\* then of an action that is not answered yet.
Harmless(v, e) ==
    /\ ~(e.kind = "action.result" /\ e.by = v)
    /\ e.kind = "phone.offline" /\ e.by = v =>
           \A n \in Nat : n = e.n => /\ <<v, n>> \notin accepted' /\ Begun(v, n)'
                                     /\ \A m \in DOMAIN done[v] : done[v][m].id # n

\* What the bus says stays true when only such an event is new.
LEMMA ToldKept ==
    ASSUME ViewersTypes, NEW v \in Displays, Told(v),
           done'[v] = done[v] \/ \E d \in [id : Nat, ok : BOOLEAN, asked : BOOLEAN] : done'[v] = Append(done[v], d),
           \A n \in Nat : Begun(v, n) /\ <<v, n>> \notin accepted => Begun(v, n)' /\ <<v, n>> \notin accepted',
           \/ log'["display"] = log["display"]
           \/ \E e \in Events : log'["display"] = Append(log["display"], e) /\ Harmless(v, e)
    PROVE  Told(v)'
<1>1. Results(v) \subseteq 1 .. Last("display")
  BY DEF Results
<1>2. /\ Results(v)' = Results(v)
      /\ \A i \in 1 .. Last("display") : log'["display"][i] = log["display"][i]
      /\ \A i \in 1 .. Last("display")' :
             \/ i \in 1 .. Last("display")
             \/ \E e \in Events : log'["display"][i] = e /\ Harmless(v, e)
  <2>1. CASE log'["display"] = log["display"]
    <3>1. Last("display")' = Last("display")
      BY <2>1 DEF Last
    <3> QED BY <2>1, <3>1, ResultsOfLog
  <2>2. CASE log'["display"] # log["display"]
    <3>1. PICK e \in Events : log'["display"] = Append(log["display"], e) /\ Harmless(v, e)
      BY <2>2
    <3>2. Results(v)' = Results(v)
      BY <3>1, ResultsOfLog, Zenon DEF Harmless
    <3>3. /\ Last("display")' = Last("display") + 1
          /\ log'["display"][Last("display") + 1] = e
          /\ \A i \in 1 .. Last("display") : log'["display"][i] = log["display"][i]
          /\ \A i \in 1 .. Last("display") + 1 : i = Last("display") + 1 \/ i \in 1 .. Last("display")
      BY <3>1, LogAppended
    <3>4. \A i \in 1 .. Last("display")' :
             \/ i \in 1 .. Last("display")
             \/ \E x \in Events : log'["display"][i] = x /\ Harmless(v, x)
      BY <3>1, <3>3, Zenon
    <3> QED BY <3>2, <3>3, <3>4
  <2> QED BY <2>1, <2>2
<1>3. \A n \in DOMAIN done[v] : n \in DOMAIN done'[v] /\ done'[v][n] = done[v][n]
  <2>1. CASE done'[v] = done[v]
    BY <2>1
  <2>2. ASSUME NEW d \in [id : Nat, ok : BOOLEAN, asked : BOOLEAN], done'[v] = Append(done[v], d)
        PROVE  \A n \in DOMAIN done[v] : n \in DOMAIN done'[v] /\ done'[v][n] = done[v][n]
    BY <2>2, ReaderSeqs, Appended
  <2> QED BY <2>1, <2>2
<1>4. ASSUME NEW i \in Results(v)
      PROVE  /\ \E n \in DOMAIN done'[v] : done'[v][n].id = log'["display"][i].n /\ done'[v][n].ok = log'["display"][i].ok
             /\ \A j \in Results(v) : i < j => log'["display"][i].n < log'["display"][j].n
  <2>1. PICK n \in DOMAIN done[v] : done[v][n].id = log["display"][i].n /\ done[v][n].ok = log["display"][i].ok
    BY <1>4 DEF Told
  <2>2. \A j \in Results(v) : i < j => log["display"][i].n < log["display"][j].n
    BY <1>4 DEF Told
  <2> QED BY <1>1, <1>2, <1>3, <1>4, <2>1, <2>2
<1>5. \A j \in Results(v) : log'["display"][j] = log["display"][j]
  BY <1>1, <1>2
<1>6. ASSUME NEW i \in 1 .. Last("display")', log'["display"][i].kind = "phone.offline", log'["display"][i].by = v
      PROVE  /\ (<<v, log["display"][i].n>> \notin accepted)' /\ Begun(v, log["display"][i].n)'
             /\ \A j \in Results(v) : log'["display"][j].n = log'["display"][i].n => i < j
  <2>1. CASE i \in 1 .. Last("display")
    <3>1. log'["display"][i] = log["display"][i]
      BY <1>2, <2>1
    <3>2. log["display"][i] \in Events
      BY <2>1, ReaderSeqs, ElementOfSeq DEF Last
    <3>3. log["display"][i].n \in Nat
      BY <1>6, <3>1, <3>2 DEF Events, SinkEvent
    <3>4. /\ <<v, log["display"][i].n>> \notin accepted /\ Begun(v, log["display"][i].n)
          /\ \A j \in Results(v) : log["display"][j].n = log["display"][i].n => i < j
      BY <1>6, <2>1, <3>1 DEF Told
    <3>5. PICK n \in Nat : n = log["display"][i].n
      BY <3>3
    <3>6. Begun(v, n)' /\ <<v, n>> \notin accepted' /\ n = log'["display"][i].n
      BY <3>1, <3>4, <3>5
    <3>7. Begun(v, log["display"][i].n)'
      BY <3>6 DEF Begun
    <3> QED BY <1>5, <3>1, <3>4, <3>6, <3>7
  <2>2. CASE i \notin 1 .. Last("display")
    <3>1. PICK e \in Events : log'["display"][i] = e /\ Harmless(v, e)
      BY <1>2, <2>2
    <3>2. e.n \in Nat
      BY <1>6, <3>1 DEF Events, SinkEvent
    <3>3. PICK n \in Nat : n = e.n
      BY <3>2
    <3>4. <<v, n>> \notin accepted' /\ Begun(v, n)' /\ \A m \in DOMAIN done[v] : done[v][m].id # n
      BY <1>6, <3>1, <3>3 DEF Harmless
    <3>5. Begun(v, log["display"][i].n)'
      BY <3>1, <3>3, <3>4 DEF Begun
    <3>6. \A j \in Results(v) : log["display"][j].n # n
      BY <3>4 DEF Told
    <3> QED BY <1>5, <3>1, <3>3, <3>4, <3>5, <3>6
  <2> QED BY <2>1, <2>2
<1> QED BY <1>2, <1>4, <1>6 DEF Told

\* The actions that have ended stay in the past.
LEMMA EndedStay ==
    ASSUME ViewersTypes, NEW v \in Displays, Numbered(v), \A n \in DOMAIN done[v] : done'[v][n] = done[v][n],
           \A n \in Nat : Before(v, n) => Before(v, n)'
    PROVE  \A n \in DOMAIN done[v] : Before(v, done[v][n].id)'
<1> SUFFICES ASSUME NEW m \in DOMAIN done[v] PROVE Before(v, done[v][m].id)'
  OBVIOUS
<1>1. PICK n \in Nat : n = done[v][m].id
  BY ReaderSeqs
<1>2. Before(v, n)' /\ n = done'[v][m].id
  BY <1>1 DEF Numbered
<1> QED BY <1>2 DEF Before

\* Events that are none of v's.
OfNone(v) ==
    \/ log'["display"] = log["display"]
    \/ \E e \in Events : /\ log'["display"] = Append(log["display"], e)
                         /\ ~(e.kind = "action.result" /\ e.by = v) /\ ~(e.kind = "phone.offline" /\ e.by = v)

\* A reader that does not move keeps what is known of its actions.
LEMMA RestingReader ==
    ASSUME ViewersTypes, NEW v \in Displays, Kept(v), OfNone(v),
           lines'[v] = lines[v], act'[v] = act[v], done'[v] = done[v], moves' \in {moves, moves + 1},
           \A n \in Nat : <<v, n>> \in accepted' <=> <<v, n>> \in accepted
    PROVE  Kept(v)'
<1>1. \A x : At(v, x)' <=> At(v, x)
  BY DEF At
<1>2. \A n \in Nat : (n <= moves => n <= moves') /\ moves \in Nat
  BY ReaderSeqs
<1>3. ASSUME NEW n \in Nat, Begun(v, n) PROVE Begun(v, n)'
  BY <1>1, <1>2, <1>3 DEF Begun
<1>4. ASSUME NEW n \in Nat, Before(v, n) PROVE Before(v, n)'
  BY <1>1, <1>2, <1>4 DEF Before
<1>5. Numbered(v)'
  <2>1. \A m \in DOMAIN done[v] : Before(v, done[v][m].id)'
    BY <1>4, EndedStay DEF Kept
  <2>2. \A i \in DOMAIN lines[v] : lines[v][i] <= moves'
    BY <1>2, ReaderSeqs DEF Kept, Numbered
  <2>3. ~At(v, "none") => act[v].id <= moves'
    BY <1>2, ReaderSeqs DEF Kept, Numbered
  <2> QED BY <1>1, <2>1, <2>2, <2>3 DEF Kept, Numbered
<1>6. Answered(v)'
  <2>1. \A n \in DOMAIN done[v] : done[v][n].id \in Nat
    BY ReaderSeqs
  <2>2. At(v, "result") => act[v].id \in Nat
    BY ReaderSeqs DEF At
  <2> QED BY <1>1, <1>3, <2>1, <2>2 DEF Kept, Answered
<1>7. Told(v)'
  BY <1>3, ToldKept DEF Kept, OfNone, Harmless
<1> QED BY <1>5, <1>6, <1>7 DEF Kept

LEMMA AsideKept == ASSUME ViewersTypes, NEW v \in Displays, Kept(v), Aside PROVE Kept(v)'
<1>1. OfNone(v)
  BY EventForms DEF Aside, OfNone, SinkEvent
<1> QED BY <1>1, RestingReader DEF Aside, readerVars

\* The event an action publishes goes to the bus of the displays, or nowhere.
LEMMA Published ==
    ASSUME ViewersTypes, NEW e, Publish(e)
    PROVE  log'["display"] = log["display"] \/ log'["display"] = Append(log["display"], e)
BY DEF Publish, ViewersTypes, TypeOK, Buses

\* What a reader does is not another's.
LEMMA OtherReaderKept ==
    ASSUME ViewersTypes, NEW v \in Displays, NEW w \in Displays, v # w, Kept(v), ReaderStep(w) PROVE Kept(v)'
<1>0. ReaderOK
  BY TypeParts
<1>1. CASE EndsAction(w)
  <2>1. act[w].id \in Nat
    BY <1>0, <1>1, ActionForms DEF EndsAction
  <2>2. OfNone(v)
    <3>1. UNCHANGED log \/ Publish([kind |-> "phone.offline", by |-> w, n |-> act[w].id])
      BY <1>1 DEF EndsAction
    <3>2. [kind |-> "phone.offline", by |-> w, n |-> act[w].id] \in Events
      BY <2>1, EventForms
    <3> QED BY <3>1, <3>2, Published DEF OfNone
  <2>3. act'[v] = act[v]
    BY <1>0, <1>1 DEF EndsAction, ReaderOK
  <2>4. \A n \in Nat : <<v, n>> \in accepted' <=> <<v, n>> \in accepted
    BY <1>1 DEF EndsAction
  <2> QED BY <1>1, <2>2, <2>3, <2>4, RestingReader DEF EndsAction
<1>2. CASE ActionResult(w)
  <2>1. act[w].id \in Nat /\ act[w].ok \in BOOLEAN
    BY <1>0, <1>2, ActionForms DEF ActionResult, AResult
  <2>2. OfNone(v)
    <3>1. [kind |-> "action.result", by |-> w, n |-> act[w].id, ok |-> act[w].ok] \in Events
      BY <2>1, EventForms
    <3> QED BY <1>2, <3>1, Published DEF OfNone, ActionResult
  <2>3. act'[v] = act[v] /\ done'[v] = done[v]
    BY <1>0, <1>2 DEF ActionResult, Goto, ReaderOK
  <2> QED BY <1>2, <2>2, <2>3, RestingReader DEF ActionResult, envVars
<1>3. CASE SendLine(w)
  <2>1. lines'[v] = lines[v] /\ OfNone(v)
    BY <1>0, <1>3 DEF SendLine, ReaderOK, OfNone, busVars
  <2> QED BY <1>3, <2>1, RestingReader DEF SendLine
<1>4. ASSUME NEW a \in Requested, ReadLine(w, a) PROVE Kept(v)'
  <2>1. lines'[v] = lines[v] /\ act'[v] = act[v] /\ OfNone(v)
    BY <1>0, <1>4 DEF ReadLine, Goto, ReaderOK, OfNone, busVars
  <2> QED BY <1>4, <2>1, RestingReader DEF ReadLine, envVars
<1>5. CASE ReaderEnds(w)
  <2>1. lines'[v] = lines[v] /\ OfNone(v)
    BY <1>0, <1>5 DEF ReaderEnds, ReaderOK, OfNone, busVars
  <2> QED BY <1>5, <2>1, RestingReader DEF ReaderEnds, envVars
<1> QED BY <1>1, <1>2, <1>3, <1>4, <1>5 DEF ReaderStep

\* A line comes: its number is the greatest.
LEMMA SendLineKept == ASSUME ViewersTypes, NEW v \in Displays, Kept(v), SendLine(v) PROVE Kept(v)'
<1>1. /\ lines'[v] = Append(lines[v], moves + 1) /\ moves' = moves + 1 /\ act' = act /\ done' = done
      /\ accepted' = accepted /\ log' = log
  BY DEF SendLine, ViewersTypes, TypeOK, busVars
<1>2. /\ moves \in Nat /\ lines[v] \in Seq(Nat) /\ Len(lines[v]) \in Nat /\ \A i \in DOMAIN lines[v] : lines[v][i] \in Nat
      /\ DOMAIN lines[v] = 1 .. Len(lines[v]) /\ DOMAIN lines'[v] = 1 .. Len(lines[v]) + 1
      /\ lines'[v][Len(lines[v]) + 1] = moves + 1
      /\ \A i \in 1 .. Len(lines[v]) : lines'[v][i] = lines[v][i]
      /\ \A i \in 1 .. Len(lines[v]) + 1 : i = Len(lines[v]) + 1 \/ i \in 1 .. Len(lines[v])
  BY <1>1, ReaderSeqs, Appended
<1>3. \A x : At(v, x)' <=> At(v, x)
  BY <1>1 DEF At
<1>4. ASSUME NEW n \in Nat PROVE (Begun(v, n) => Begun(v, n)') /\ (Before(v, n) => Before(v, n)')
  <2>1. n <= moves => n < moves + 1 /\ n <= moves'
    BY <1>1, <1>2
  <2>2. n <= moves /\ (\A i \in DOMAIN lines[v] : n < lines[v][i]) => \A i \in DOMAIN lines'[v] : n < lines'[v][i]
    BY <1>2, <2>1
  <2> QED BY <1>1, <1>3, <2>1, <2>2 DEF Begun, Before
<1>5. Numbered(v)'
  <2>1. \A m \in DOMAIN done[v] : Before(v, done[v][m].id)'
    BY <1>1, <1>4, EndedStay DEF Kept
  <2>2. \A i \in DOMAIN lines'[v] : lines'[v][i] <= moves'
    BY <1>1, <1>2 DEF Kept, Numbered
  <2>3. \A i, j \in DOMAIN lines'[v] : i < j => lines'[v][i] < lines'[v][j]
    <3> SUFFICES ASSUME NEW i \in DOMAIN lines'[v], NEW j \in DOMAIN lines'[v], i < j PROVE lines'[v][i] < lines'[v][j]
      OBVIOUS
    <3>1. i \in 1 .. Len(lines[v])
      BY <1>2
    <3>2. CASE j \in 1 .. Len(lines[v])
      BY <1>2, <3>1, <3>2 DEF Kept, Numbered
    <3>3. CASE j = Len(lines[v]) + 1
      <4>1. lines[v][i] \in Nat /\ lines[v][i] <= moves
        BY <1>2, <3>1 DEF Kept, Numbered
      <4> QED BY <1>2, <3>1, <3>3, <4>1
    <3> QED BY <1>2, <3>2, <3>3
  <2>4. ~At(v, "none") => act[v].id <= moves' /\ \A i \in DOMAIN lines'[v] : act[v].id < lines'[v][i]
    <3>1. ~At(v, "none") => act[v].id \in Nat /\ act[v].id <= moves /\ \A i \in DOMAIN lines[v] : act[v].id < lines[v][i]
      BY ReaderSeqs DEF Kept, Numbered
    <3> QED BY <1>1, <1>2, <3>1
  <2> QED BY <1>1, <1>3, <2>1, <2>2, <2>3, <2>4 DEF Kept, Numbered
<1>6. Answered(v)'
  BY <1>1, <1>3, <1>4 DEF Kept, Answered
<1>7. Told(v)'
  BY <1>1, <1>4, ToldKept DEF Kept
<1> QED BY <1>5, <1>6, <1>7 DEF Kept

\* A line is read: what came before it is finished with.
LEMMA ReadLineKept ==
    ASSUME ViewersTypes, NEW v \in Displays, Kept(v), NEW a \in Requested, ReadLine(v, a) PROVE Kept(v)'
<1>1. /\ At(v, "none") /\ lines[v] # <<>> /\ lines'[v] = Tail(lines[v]) /\ moves' = moves /\ done' = done
      /\ accepted' = accepted /\ log' = log
  BY DEF ReadLine, ViewersTypes, TypeOK, busVars, envVars
<1>2. At(v, "none")' \/ (~At(v, "none")' /\ ~At(v, "result")' /\ act'[v].id = Head(lines[v]))
  <2>1. a.kind \in Kinds
    BY RequestedAssumption DEF Actions
  <2>2. CASE a.kind = "garbage"
    BY <1>1, <2>2 DEF ReadLine, At
  <2>3. CASE a.kind # "garbage"
    <3>1. act'[v] = [at |-> IF a.dev \notin online THEN "offline" ELSE a.kind,
                     id |-> Head(lines[v]), dev |-> a.dev, complete |-> a.complete]
      BY <2>3 DEF ReadLine, Goto, ViewersTypes, TypeOK
    <3> QED BY <2>1, <2>3, <3>1 DEF At, Kinds, ToPhone
  <2> QED BY <2>2, <2>3
<1>3. /\ moves \in Nat /\ Head(lines[v]) = lines[v][1] /\ Len(lines[v]) \in Nat \ {0}
      /\ DOMAIN lines[v] = 1 .. Len(lines[v]) /\ DOMAIN lines'[v] = 1 .. Len(lines[v]) - 1
      /\ \A i \in 1 .. Len(lines[v]) - 1 : lines'[v][i] = lines[v][i + 1] /\ i + 1 \in 1 .. Len(lines[v]) /\ 1 < i + 1
      /\ 1 \in 1 .. Len(lines[v])
  BY <1>1, ReaderSeqs, Shifted
<1>4. ASSUME NEW n \in Nat PROVE (Begun(v, n) => Begun(v, n)') /\ (Before(v, n) => Before(v, n)')
  BY <1>1, <1>2, <1>3 DEF Begun, Before
<1>5. Numbered(v)'
  <2>1. \A m \in DOMAIN done[v] : Before(v, done[v][m].id)'
    BY <1>1, <1>4, EndedStay DEF Kept
  <2>2. \A i \in DOMAIN lines'[v] : lines'[v][i] <= moves'
    BY <1>1, <1>3 DEF Kept, Numbered
  <2>3. \A i, j \in DOMAIN lines'[v] : i < j => lines'[v][i] < lines'[v][j]
    <3> SUFFICES ASSUME NEW i \in DOMAIN lines'[v], NEW j \in DOMAIN lines'[v], i < j PROVE lines'[v][i] < lines'[v][j]
      OBVIOUS
    <3>1. i + 1 \in 1 .. Len(lines[v]) /\ j + 1 \in 1 .. Len(lines[v]) /\ i + 1 < j + 1
      BY <1>3
    <3>2. lines[v][i + 1] < lines[v][j + 1]
      BY <1>3, <3>1 DEF Kept, Numbered
    <3> QED BY <1>3, <3>2
  <2>4. ~At(v, "none")' => act'[v].id <= moves' /\ \A i \in DOMAIN lines'[v] : act'[v].id < lines'[v][i]
    BY <1>1, <1>2, <1>3 DEF Kept, Numbered
  <2> QED BY <1>1, <2>1, <2>2, <2>3, <2>4 DEF Kept, Numbered
<1>6. Answered(v)'
  <2>1. ~At(v, "result")'
    BY <1>2 DEF At
  <2> QED BY <1>1, <1>4, <2>1 DEF Kept, Answered
<1>7. Told(v)'
  BY <1>1, <1>4, ToldKept DEF Kept
<1> QED BY <1>5, <1>6, <1>7 DEF Kept

\* The connection ends: its lines are lost.
LEMMA ReaderEndsKept == ASSUME ViewersTypes, NEW v \in Displays, Kept(v), ReaderEnds(v) PROVE Kept(v)'
<1>1. /\ At(v, "none") /\ lines'[v] = <<>> /\ moves' = moves /\ done' = done /\ act' = act
      /\ accepted' = accepted /\ log' = log
  BY DEF ReaderEnds, ViewersTypes, TypeOK, busVars, envVars
<1>2. DOMAIN lines'[v] = {} /\ At(v, "none")' /\ ~At(v, "result")'
  BY <1>1 DEF At
<1>3. ASSUME NEW n \in Nat PROVE (Begun(v, n) => Begun(v, n)') /\ (Before(v, n) => Before(v, n)')
  BY <1>1, <1>2 DEF Begun, Before
<1>4. Numbered(v)'
  <2>1. \A m \in DOMAIN done[v] : Before(v, done[v][m].id)'
    BY <1>1, <1>3, EndedStay DEF Kept
  <2> QED BY <1>1, <1>2, <2>1 DEF Kept, Numbered
<1>5. Answered(v)'
  BY <1>1, <1>2, <1>3 DEF Kept, Answered
<1>6. Told(v)'
  BY <1>1, <1>3, ToldKept DEF Kept
<1> QED BY <1>4, <1>5, <1>6 DEF Kept

\* An action ends: its result is what is left of it.
LEMMA EndsActionKept == ASSUME ViewersTypes, NEW v \in Displays, Kept(v), EndsAction(v) PROVE Kept(v)'
<1>0. ReaderOK
  BY TypeParts
<1>1. /\ ~At(v, "none") /\ ~At(v, "result") /\ lines' = lines /\ done' = done /\ moves' = moves
  BY DEF EndsAction
<1>2. PICK k \in Nat : k = act[v].id
  BY <1>0, <1>1, ActionForms
<1>3. PICK ok \in BOOLEAN :
          /\ act' = [act EXCEPT ![v] = Ended(v, ok)]
          /\ \/ accepted' = accepted \cup {<<v, k>>} /\ ok /\ ~At(v, "notification.read") /\ UNCHANGED log
             \/ accepted' = accepted /\ (ok => At(v, "notification.read"))
                /\ (UNCHANGED log \/ Publish([kind |-> "phone.offline", by |-> v, n |-> k]))
  BY <1>2 DEF EndsAction
<1>4. act'[v] = Ended(v, ok)
  BY <1>0, <1>3 DEF ReaderOK
<1>5. /\ At(v, "result")' /\ ~At(v, "none")' /\ act'[v].id = k /\ act'[v].ok = ok
      /\ (act'[v].asked <=> ~At(v, "notification.read"))
  BY <1>0, <1>1, <1>2, <1>4, EndedOK DEF At
<1>6. /\ moves \in Nat /\ k <= moves /\ \A i \in DOMAIN lines[v] : lines[v][i] \in Nat /\ k < lines[v][i]
      /\ \A n \in Nat : Begun(v, n) => n < k
      /\ \A n \in Nat : Before(v, n) => n < k
  BY <1>1, <1>2, ReaderSeqs DEF Kept, Numbered, Begun, Before
<1>7. ASSUME NEW n \in Nat PROVE (Begun(v, n) => Begun(v, n)') /\ (Before(v, n) => Before(v, n)')
  <2>1. n < k => n <= k
    BY <1>2
  <2> QED BY <1>1, <1>5, <1>6, <2>1 DEF Begun, Before
<1>8. Begun(v, k)'
  BY <1>1, <1>5, <1>6 DEF Begun
<1>9. <<v, k>> \notin accepted
  <2>1. ~Begun(v, k)
    BY <1>2, <1>6
  <2> QED BY <2>1 DEF Kept, Answered
<1>10. \A m \in DOMAIN done[v] : done[v][m].id \in Nat /\ done[v][m].id < k /\ done[v][m].id # k
  <2>1. \A n \in Nat : n < k => n # k
    BY <1>2
  <2> QED BY <1>6, <2>1, ReaderSeqs DEF Kept, Numbered
<1>11. Numbered(v)'
  <2>1. \A m \in DOMAIN done[v] : Before(v, done[v][m].id)'
    BY <1>1, <1>7, EndedStay DEF Kept
  <2> QED BY <1>1, <1>5, <1>6, <2>1 DEF Kept, Numbered
<1>12. Answered(v)'
  <2>1. ASSUME NEW n \in Nat, <<v, n>> \in accepted' PROVE Begun(v, n)'
    <3>1. CASE n = k
      BY <1>8, <3>1 DEF Begun
    <3>2. CASE <<v, n>> \in accepted
      BY <1>7, <3>2 DEF Kept, Answered
    <3> QED BY <1>3, <2>1, <3>1, <3>2
  <2>2. act'[v].asked => (act'[v].ok <=> <<v, act'[v].id>> \in accepted')
    BY <1>3, <1>5, <1>9
  <2>3. \A m \in DOMAIN done[v] : <<v, done[v][m].id>> \in accepted' <=> <<v, done[v][m].id>> \in accepted
    BY <1>3, <1>10
  <2> QED BY <1>1, <2>1, <2>2, <2>3 DEF Kept, Answered
<1>13. Told(v)'
  <2>1. ASSUME NEW n \in Nat, Begun(v, n), <<v, n>> \notin accepted PROVE Begun(v, n)' /\ <<v, n>> \notin accepted'
    <3>1. n # k
      BY <1>2, <1>6, <2>1
    <3> QED BY <1>3, <1>7, <2>1, <3>1
  <2>2. CASE log' = log
    BY <1>1, <2>1, <2>2, ToldKept DEF Kept
  <2>3. CASE log' # log
    <3>1. accepted' = accepted /\ Publish([kind |-> "phone.offline", by |-> v, n |-> k])
      BY <1>3, <2>3
    <3>2. PICK e \in Events : e = [kind |-> "phone.offline", by |-> v, n |-> k]
      BY EventForms
    <3>3. e.kind = "phone.offline" /\ e.by = v /\ e.n = k
      BY <3>2
    <3>4. log'["display"] = log["display"] \/ log'["display"] = Append(log["display"], e)
      BY <3>1, <3>2, Published
    <3>5. Harmless(v, e)
      BY <1>8, <1>9, <1>10, <3>1, <3>3 DEF Harmless
    <3> QED BY <1>1, <2>1, <3>4, <3>5, ToldKept DEF Kept
  <2> QED BY <2>2, <2>3
<1> QED BY <1>11, <1>12, <1>13 DEF Kept

\* An action is answered: its result comes after all others of v.
LEMMA ActionResultKept == ASSUME ViewersTypes, NEW v \in Displays, Kept(v), ActionResult(v) PROVE Kept(v)'
<1>0. ReaderOK
  BY TypeParts
<1>1. At(v, "result") /\ lines' = lines /\ accepted' = accepted /\ moves' = moves
  BY DEF ActionResult, envVars
<1>2. act[v] \in AResult /\ act'[v] = NoAction /\ ~At(v, "none")
  BY <1>0, <1>1, ActionForms DEF ActionResult, Goto, ReaderOK, At
<1>3. At(v, "none")' /\ ~At(v, "result")'
  BY <1>2 DEF At, NoAction
<1>4. PICK k \in Nat, ok \in BOOLEAN, asked \in BOOLEAN : k = act[v].id /\ ok = act[v].ok /\ asked = act[v].asked
  BY <1>2 DEF AResult
<1>5. PICK d \in [id : Nat, ok : BOOLEAN, asked : BOOLEAN] :
          d = [id |-> k, ok |-> ok, asked |-> asked]
  BY <1>4
<1>6. d.id = k /\ d.ok = ok /\ d.asked = asked
  BY <1>5
<1>7. done'[v] = Append(done[v], d)
  BY <1>0, <1>4, <1>5 DEF ActionResult, ReaderOK
<1>8. /\ DOMAIN done[v] = 1 .. Len(done[v]) /\ DOMAIN done'[v] = 1 .. Len(done[v]) + 1
      /\ done'[v][Len(done[v]) + 1] = d /\ \A n \in DOMAIN done[v] : done'[v][n] = done[v][n]
      /\ \A n \in DOMAIN done'[v] : n = Len(done[v]) + 1 \/ n \in DOMAIN done[v]
      /\ \A n \in DOMAIN done[v] : n \in DOMAIN done'[v] /\ n < Len(done[v]) + 1
      /\ Len(done[v]) \in Nat /\ Len(done[v]) + 1 \in DOMAIN done'[v]
  BY <1>7, ReaderSeqs, Appended
<1>9. /\ moves \in Nat /\ k <= moves /\ \A i \in DOMAIN lines[v] : lines[v][i] \in Nat /\ k < lines[v][i]
      /\ \A n \in DOMAIN done[v] : done[v][n].id \in Nat /\ done[v][n].id < k
  BY <1>2, <1>4, ReaderSeqs DEF Kept, Numbered, Before
<1>10. ASSUME NEW n \in Nat PROVE (Begun(v, n) => Begun(v, n)') /\ (Before(v, n) => Before(v, n)')
  BY <1>1, <1>3 DEF Begun, Before
<1>11. Numbered(v)'
  <2>1. \A m \in DOMAIN done[v] : Before(v, done[v][m].id)'
    BY <1>8, <1>10, EndedStay DEF Kept
  <2>2. ASSUME NEW m \in DOMAIN done'[v]
        PROVE  /\ done'[v][m].id <= moves' /\ \A i \in DOMAIN lines'[v] : done'[v][m].id < lines'[v][i]
    <3>1. CASE m = Len(done[v]) + 1
      BY <1>1, <1>6, <1>8, <1>9, <3>1
    <3>2. CASE m \in DOMAIN done[v]
      BY <1>8, <2>1, <3>2 DEF Before
    <3> QED BY <1>8, <2>2, <3>1, <3>2
  <2>3. \A m \in DOMAIN done'[v] : Before(v, done[v][m].id)'
    BY <1>3, <2>2 DEF Before
  <2>4. ASSUME NEW m \in DOMAIN done'[v], NEW n \in DOMAIN done'[v], m < n
        PROVE  done'[v][m].id < done'[v][n].id
    <3>1. m \in DOMAIN done[v]
      BY <1>8, <2>4
    <3>2. CASE n = Len(done[v]) + 1
      BY <1>6, <1>8, <1>9, <3>1, <3>2
    <3>3. CASE n \in DOMAIN done[v]
      BY <1>8, <2>4, <3>1, <3>3 DEF Kept, Numbered
    <3> QED BY <1>8, <2>4, <3>2, <3>3
  <2> QED BY <1>1, <1>3, <2>3, <2>4 DEF Kept, Numbered
<1>12. Answered(v)'
  <2>1. asked => (ok <=> <<v, k>> \in accepted)
    BY <1>1, <1>4 DEF Kept, Answered
  <2>2. ASSUME NEW n \in DOMAIN done'[v]
        PROVE  done'[v][n].asked => (done'[v][n].ok <=> <<v, done'[v][n].id>> \in accepted)
    <3>1. CASE n = Len(done[v]) + 1
      BY <1>6, <1>8, <2>1, <3>1
    <3>2. CASE n \in DOMAIN done[v]
      BY <1>8, <3>2 DEF Kept, Answered
    <3> QED BY <1>8, <2>2, <3>1, <3>2
  <2> QED BY <1>1, <1>3, <1>10, <2>2 DEF Kept, Answered
<1>13. Told(v)'
  <2>1. PICK e \in Events : e = [kind |-> "action.result", by |-> v, n |-> k, ok |-> ok]
    BY EventForms
  <2>2. e.kind = "action.result" /\ e.by = v /\ e.n = k /\ e.ok = ok
    BY <2>1
  <2>3. log'["display"] = log["display"] \/ log'["display"] = Append(log["display"], e)
    BY <1>4, <2>1, Published DEF ActionResult
  <2>4. CASE log'["display"] = log["display"]
    BY <1>1, <1>7, <1>10, <2>4, ToldKept DEF Kept
  <2>5. CASE log'["display"] = Append(log["display"], e)
    <3> DEFINE L == Last("display")
    <3>1. /\ L \in Nat /\ Last("display")' = L + 1 /\ log'["display"][L + 1] = e
          /\ \A i \in 1 .. L : log'["display"][i] = log["display"][i]
          /\ \A i \in 1 .. L + 1 : i = L + 1 \/ i \in 1 .. L
          /\ \A i \in 1 .. L : i < L + 1
      BY <2>5, LogAppended
    <3>2. Results(v)' = Results(v) \cup {L + 1}
      BY <2>2, <2>5, ResultsOfLog
    <3>3. \A i \in Results(v) :
              /\ i \in 1 .. L /\ log'["display"][i] = log["display"][i]
              /\ log["display"][i].n \in Nat /\ log["display"][i].n < k
              /\ \E n \in DOMAIN done[v] : done[v][n].id = log["display"][i].n /\ done[v][n].ok = log["display"][i].ok
      BY <1>9, <3>1 DEF Results, Kept, Told
    <3> HIDE DEF L
    <3>4. ASSUME NEW i \in Results(v)'
          PROVE  /\ \E n \in DOMAIN done'[v] :
                       done'[v][n].id = log'["display"][i].n /\ done'[v][n].ok = log'["display"][i].ok
                 /\ \A j \in Results(v)' : i < j => log'["display"][i].n < log'["display"][j].n
      <4>1. CASE i \in Results(v)
        <5>1. \E n \in DOMAIN done'[v] :
                  done'[v][n].id = log'["display"][i].n /\ done'[v][n].ok = log'["display"][i].ok
          BY <1>8, <3>3, <4>1
        <5>2. ASSUME NEW j \in Results(v), i < j PROVE log'["display"][i].n < log'["display"][j].n
          BY <3>3, <4>1, <5>2 DEF Kept, Told
        <5>3. log'["display"][i].n < log'["display"][L + 1].n
          BY <2>2, <3>1, <3>3, <4>1
        <5> QED BY <3>2, <5>1, <5>2, <5>3
      <4>2. CASE i = L + 1
        <5>1. done'[v][Len(done[v]) + 1].id = log'["display"][i].n /\ done'[v][Len(done[v]) + 1].ok = log'["display"][i].ok
          BY <1>6, <1>8, <2>2, <3>1, <4>2
        <5>2. \A j \in Results(v)' : ~(i < j)
          BY <3>1, <3>2, <3>3, <4>2
        <5> QED BY <1>8, <5>1, <5>2
      <4> QED BY <3>2, <3>4, <4>1, <4>2
    <3>5. ASSUME NEW i \in 1 .. Last("display")', log'["display"][i].kind = "phone.offline", log'["display"][i].by = v
          PROVE  /\ (<<v, log["display"][i].n>> \notin accepted)' /\ Begun(v, log["display"][i].n)'
                 /\ \A j \in Results(v)' : log'["display"][j].n = log'["display"][i].n => i < j
      <4>1. i # L + 1
        BY <2>2, <3>1, <3>5
      <4>2. i \in 1 .. L /\ log'["display"][i] = log["display"][i] /\ i < L + 1
        BY <3>1, <4>1
      <4>3. log["display"][i] \in Events
        BY <4>2, ReaderSeqs, ElementOfSeq DEF L, Last
      <4>4. PICK n \in Nat : n = log["display"][i].n
        BY <3>5, <4>2, <4>3 DEF Events, SinkEvent
      <4>5. /\ <<v, n>> \notin accepted /\ Begun(v, n)
            /\ \A j \in Results(v) : log["display"][j].n = n => i < j
        BY <3>5, <4>2, <4>4 DEF Kept, Told, L
      <4>6. Begun(v, n)' /\ n = log'["display"][i].n
        BY <1>10, <4>2, <4>4, <4>5
      <4>7. Begun(v, log["display"][i].n)'
        BY <4>6 DEF Begun
      <4> QED BY <1>1, <3>2, <3>3, <4>2, <4>4, <4>5, <4>7
    <3> QED BY <3>4, <3>5 DEF Told
  <2> QED BY <2>3, <2>4, <2>5
<1> QED BY <1>11, <1>12, <1>13 DEF Kept

LEMMA StepActions == ASSUME ActionInv, [Next]_vars PROVE ActionInv'
<1>1. ViewersTypes'
  BY StepTypes DEF ActionInv
<1>2. ASSUME NEW v \in Displays PROVE Kept(v)'
  <2>1. BusOK /\ ReaderOK /\ ViewersTypes /\ Kept(v)
    BY TypeParts DEF ActionInv, Kept
  <2>2. CASE Aside
    BY <2>1, <2>2, AsideKept
  <2>3. ASSUME NEW w \in Displays, v # w, ReaderStep(w) PROVE Kept(v)'
    BY <2>1, <2>3, OtherReaderKept
  <2>4. CASE ReaderStep(v)
    BY <2>1, <2>4, SendLineKept, ReadLineKept, ReaderEndsKept, EndsActionKept, ActionResultKept DEF ReaderStep
  <2> QED BY <2>1, <2>2, <2>3, <2>4, ReaderSteps
<1> QED BY <1>1, <1>2 DEF ActionInv, Kept

LEMMA InitActions == Init => ActionInv
<1> SUFFICES ASSUME Init, NEW v \in Displays PROVE Kept(v)
  BY InitTypes DEF ActionInv, Kept
<1>1. /\ lines[v] = <<>> /\ done[v] = <<>> /\ accepted = {} /\ act[v] = NoAction
      /\ log["display"] = <<>>
  BY DEF Init, Buses
<1>2. At(v, "none") /\ ~At(v, "result")
  BY <1>1 DEF At, NoAction
<1>3. 1 .. Last("display") = {} /\ Results(v) = {} /\ DOMAIN lines[v] = {} /\ DOMAIN done[v] = {}
  BY <1>1 DEF Last, Results
<1> QED BY <1>1, <1>2, <1>3 DEF Kept, Numbered, Answered, Told

\* A display's actions are answered in their order, each once, with what the
\* phone's channel said; a phone is never said to be offline of an action whose
\* envelope was accepted.
THEOREM ActionsAreAnswered == Spec => []OneResultPerAction
<1>1. ActionInv => OneResultPerAction
  BY DEF ActionInv, Numbered, Answered, Told, OneResultPerAction
<1> QED BY <1>1, InitActions, StepActions, PTL DEF Spec
================================================================================
