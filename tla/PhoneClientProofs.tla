--------------------------- MODULE PhoneClientProofs ---------------------------
(***************************************************************************)
(* Proofs about PhoneClient for any set of desktops, any capacity of the   *)
(* outgoing Channel, any limit of misses and any bounds.                   *)
(***************************************************************************)
EXTENDS PhoneClient, TLAPS

\* Without the service there is no heartbeat, so that a service that comes
\* up does not step into the middle of a forceReconnect; and the misses are
\* below the limit whenever another can be counted.
BeatOrder ==
    /\ ~service => hb = "off"
    /\ hb \notin {"force", "rearm"} => missed < MissedBeforeReconnect

\* The inductive invariant.
ClientInv == TypeOK /\ OneLiveLoop /\ NeverWedged /\ BeatOrder

-----------------------------------------------------------------------------
\* A process starts with the invariant.
LEMMA InitInv == Init => ClientInv
<1> SUFFICES ASSUME Init PROVE ClientInv
  OBVIOUS
<1>1. \A n \in Nat : 0 \in 0..n
  OBVIOUS
<1>2. TypeOK
  BY <1>1, ClientAssumption DEF Init, TypeOK, Saved, LoopStates, HbStates
<1>3. OneLiveLoop
  BY DEF Init, OneLiveLoop, Live
<1>4. NeverWedged
  BY DEF Init, NeverWedged
<1> QED
  BY <1>2, <1>3, <1>4, ClientAssumption DEF ClientInv, Init, BeatOrder

\* What one move of a loop keeps: it goes from a state of a running loop to
\* another, or ends because it was cancelled or `running` was cleared.
LEMMA MoveKeeps ==
    ASSUME ClientInv, NEW j \in Loops, NEW s \in LoopStates, NEW st,
           st \in {"Disconnected", "Connecting", "Connected", "Error"},
           GoTo(j, s, st), at[j] \notin {"none", "ended"}, s # "none",
           s = "ended" => cancelled[j] \/ ~running
    PROVE  ClientInv'
<1>1. TypeOK'
  BY DEF ClientInv, TypeOK, GoTo, beatVars, servVars, envVars
<1>2. \A i \in Loops : Live(i)' => Live(i)
  BY DEF ClientInv, TypeOK, Live, GoTo
<1>3. OneLiveLoop'
  BY <1>2 DEF ClientInv, OneLiveLoop, GoTo
<1>4. NeverWedged'
  <2> SUFFICES ASSUME NeverWedged!1' PROVE NeverWedged!2'
    BY DEF NeverWedged
  <2>1. job \in Loops /\ Live(job)
    BY DEF ClientInv, NeverWedged, GoTo, beatVars
  <2>2. j = job => s # "ended"
    BY <2>1 DEF Live, GoTo
  <2> QED
    BY <2>1, <2>2 DEF ClientInv, TypeOK, Live, GoTo
<1> QED
  BY <1>1, <1>3, <1>4 DEF ClientInv, BeatOrder, GoTo, beatVars, servVars

\* A counter below its bound can be raised.
LEMMA Counting ==
    /\ \A n \in Nat : 0 \in 0..n /\ \A k \in 0..n : k < n => k + 1 \in 0..n
    /\ MissedBeforeReconnect \in Nat /\ 0 < MissedBeforeReconnect
BY ClientAssumption

\* A miss leaves the count within its limit, and below it unless the
\* reconnection is forced.
LEMMA MissCounts ==
    ASSUME missed \in 0..MissedBeforeReconnect, missed < MissedBeforeReconnect, Miss
    PROVE  /\ missed' \in 0..MissedBeforeReconnect
           /\ hb' \in {"force", "delay"}
           /\ hb' = "delay" => missed' < MissedBeforeReconnect
<1>1. missed \in Nat /\ MissedBeforeReconnect \in Nat
  BY Counting
<1> QED
  BY <1>1 DEF Miss

\* A step that changes neither loops nor flags, and leaves the heartbeat
\* outside forceReconnect or where it is, keeps all but the types.
LEMMA AsideKeeps ==
    ASSUME ClientInv, TypeOK', BeatOrder',
           UNCHANGED <<running, job, at, cancelled, scopeUp, starting>>,
           hb' # "rearm" => hb # "rearm"
    PROVE  ClientInv'
<1>1. \A i : Live(i)' <=> Live(i)
  BY DEF Live
<1>2. OneLiveLoop'
  BY <1>1 DEF ClientInv, OneLiveLoop
<1>3. NeverWedged'
  BY <1>1 DEF ClientInv, NeverWedged
<1> QED
  BY <1>2, <1>3 DEF ClientInv

\* What the steps of a loop keep.
LEMMA LoopInv ==
    ASSUME ClientInv, NEW j \in Loops, LoopStep(j) \/ Close(j)
    PROVE  ClientInv'
<1> USE DEF LoopStates
<1>0. status \in {"Disconnected", "Connecting", "Connected", "Error"}
  BY DEF ClientInv, TypeOK
<1>1. CASE Begin(j)
  BY <1>0, <1>1, MoveKeeps DEF Begin
<1>2. CASE Top(j)
  BY <1>0, <1>2, MoveKeeps DEF Top
<1>3. CASE Open(j)
  BY <1>0, <1>3, MoveKeeps DEF Open
<1>4. CASE Throw(j)
  BY <1>0, <1>4, MoveKeeps DEF Throw
<1>5. CASE Close(j)
  BY <1>0, <1>5, MoveKeeps DEF Close
<1>6. CASE Caught(j)
  BY <1>0, <1>6, MoveKeeps DEF Caught
<1>7. CASE Returned(j)
  BY <1>0, <1>7, MoveKeeps DEF Returned
<1>8. CASE Delay(j)
  BY <1>0, <1>8, MoveKeeps DEF Delay
<1> QED
  BY <1>1, <1>2, <1>3, <1>4, <1>5, <1>6, <1>7, <1>8 DEF LoopStep

\* The two halves of start, and stop.
LEMMA StartInv == ClientInv /\ (Start \/ Launch \/ Stop) => ClientInv'
<1> SUFFICES ASSUME ClientInv, Start \/ Launch \/ Stop PROVE ClientInv'
  OBVIOUS
<1> USE DEF ClientInv, beatVars, servVars, envVars, loopVars
<1>1. CASE Start
  <2>1. TypeOK'
    BY <1>1 DEF Start, TypeOK, Saved
  <2>2. OneLiveLoop' /\ BeatOrder'
    BY <1>1 DEF Start, OneLiveLoop, BeatOrder, Live
  <2>3. NeverWedged'
    BY <1>1 DEF Start, NeverWedged, Live
  <2> QED
    BY <2>1, <2>2, <2>3
<1>2. CASE Launch
  <2> DEFINE n == launched + 1
  <2>1. n \in Loops /\ n \in 0..MaxLoops
    BY <1>2, ClientAssumption DEF Launch, TypeOK, Loops
  <2>2. TypeOK'
    BY <1>2, <2>1 DEF Launch, TypeOK, Saved, LoopStates
  <2>3. job' = n /\ at'[n] = "launched" /\ cancelled'[n] = ~scopeUp
    BY <1>2, <2>1 DEF Launch, TypeOK
  <2>4. \A i \in Loops : i # n => ~Live(i)'
    BY <1>2, <2>1 DEF Launch, TypeOK, OneLiveLoop, Live
  <2>5. OneLiveLoop'
    BY <2>3, <2>4 DEF OneLiveLoop
  <2>6. NeverWedged'
    BY <1>2, <2>1, <2>3 DEF Launch, NeverWedged, Live
  <2> QED
    BY <1>2, <2>2, <2>5, <2>6 DEF Launch, BeatOrder
<1>3. CASE Stop
  <2>0. /\ job' \in 0..MaxLoops /\ edits' \in 0..MaxEdits
        /\ cancelled' \in [Loops -> BOOLEAN]
    BY <1>3, ClientAssumption DEF Stop, TypeOK
  <2>1. TypeOK' /\ BeatOrder'
    BY <1>3, <2>0 DEF Stop, TypeOK, BeatOrder
  <2>2. \A i \in Loops : ~Live(i)'
    BY <1>3 DEF Stop, TypeOK, OneLiveLoop, Live
  <2> QED
    BY <1>3, <2>1, <2>2 DEF Stop, OneLiveLoop, NeverWedged
<1> QED
  BY <1>1, <1>2, <1>3

\* The heartbeat and its forceReconnect.
LEMMA HeartbeatInv == ClientInv /\ Heartbeat => ClientInv'
<1> SUFFICES ASSUME ClientInv, Heartbeat PROVE ClientInv'
  OBVIOUS
<1> USE DEF beatVars, servVars, envVars, loopVars, clientVars, BeatOnly, HbStates
<1>0. TypeOK /\ BeatOrder
  BY DEF ClientInv
<1>1. CASE AwaitConnected
  <2>1. TypeOK' /\ BeatOrder'
    BY <1>0, <1>1 DEF AwaitConnected, TypeOK, BeatOrder
  <2> QED
    BY <1>1, <2>1, AsideKeeps DEF AwaitConnected
<1>2. CASE SendBeat
  <2> SUFFICES TypeOK' /\ BeatOrder'
    BY <1>2, AsideKeeps DEF SendBeat, Miss
  <2>1. CASE hb' = "echo" /\ outgoing < QueueCap /\ outgoing' = outgoing + 1
               /\ UNCHANGED <<missed, full>>
    BY <1>0, <1>2, <2>1, Counting, ClientAssumption DEF SendBeat, TypeOK, BeatOrder
  <2>2. CASE Miss /\ full' = TRUE /\ UNCHANGED outgoing
    BY <1>0, <1>2, <2>2, MissCounts DEF SendBeat, TypeOK, BeatOrder
  <2> QED
    BY <1>2, <2>1, <2>2 DEF SendBeat
<1>3. CASE EchoTimesOut
  <2>1. TypeOK' /\ BeatOrder'
    BY <1>0, <1>3, MissCounts DEF EchoTimesOut, TypeOK, BeatOrder
  <2> QED
    BY <1>3, <2>1, AsideKeeps DEF EchoTimesOut, Miss
<1>4. CASE ForceReconnect
  <2>a. cancelled' = [i \in Loops |-> cancelled[i] \/ (i = job /\ at[i] # "ended")]
    BY <1>4 DEF ForceReconnect
  <2>b. \A i \in Loops : cancelled[i] => cancelled'[i]
    BY <2>a, Zenon
  <2>c. cancelled' \in [Loops -> BOOLEAN]
    BY <2>a, Zenon
  <2>d. /\ hb = "force" /\ hb' = "rearm"
        /\ UNCHANGED <<running, job, launched, at, target, scopeUp, status, outgoing, starting,
                       missed, full, service, saved, offered, net, edits, faults>>
    BY <1>4 DEF ForceReconnect
  <2>1. TypeOK' /\ BeatOrder'
    BY <1>0, <2>c, <2>d DEF TypeOK, BeatOrder
  <2>2. \A i \in Loops : Live(i)' => Live(i)
    BY <2>b, <2>d, Zenon DEF Live
  <2>3. OneLiveLoop' /\ NeverWedged'
    BY <2>2, <2>d DEF ClientInv, OneLiveLoop, NeverWedged
  <2> QED
    BY <2>1, <2>3 DEF ClientInv
<1>5. CASE Rearm
  <2>1. TypeOK' /\ BeatOrder'
    BY <1>0, <1>5, Counting DEF Rearm, TypeOK, BeatOrder
  <2>2. OneLiveLoop' /\ NeverWedged'
    BY <1>5 DEF Rearm, ClientInv, OneLiveLoop, NeverWedged, Live
  <2> QED
    BY <2>1, <2>2 DEF ClientInv
<1>6. CASE NextBeat
  <2>1. TypeOK' /\ BeatOrder'
    BY <1>0, <1>6 DEF NextBeat, TypeOK, BeatOrder
  <2> QED
    BY <1>6, <2>1, AsideKeeps DEF NextBeat
<1> QED
  BY <1>1, <1>2, <1>3, <1>4, <1>5, <1>6 DEF Heartbeat

\* The service, the settings, the network and the faults.
LEMMA ServiceInv ==
    ASSUME ClientInv,
           \/ RelaySend \/ Create \/ OtherSetting \/ Destroy \/ Kill \/ NetDown \/ NetUp
           \/ \E d \in Desktops : SaveDesktop(d)
           \/ \E j \in Loops : Pump(j)
    PROVE  ClientInv'
<1> USE DEF beatVars, servVars, envVars, loopVars, clientVars, HbStates
<1>0. TypeOK /\ BeatOrder
  BY DEF ClientInv
<1>1. ASSUME NEW d \in Saved, Edit(d) PROVE ClientInv'
  <2>1. TypeOK' /\ BeatOrder'
    BY <1>0, <1>1, ClientAssumption DEF Edit, TypeOK, BeatOrder
  <2> QED
    BY <1>1, <2>1, AsideKeeps DEF Edit
<1>2. CASE RelaySend
  <2>1. TypeOK' /\ BeatOrder'
    BY <1>0, <1>2, ClientAssumption DEF RelaySend, TypeOK, BeatOrder
  <2> QED
    BY <1>2, <2>1, AsideKeeps DEF RelaySend
<1>3. ASSUME NEW j \in Loops, Pump(j) PROVE ClientInv'
  <2>1. TypeOK' /\ BeatOrder'
    BY <1>0, <1>3, ClientAssumption DEF Pump, TypeOK, BeatOrder
  <2> QED
    BY <1>3, <2>1, AsideKeeps DEF Pump
<1>4. CASE Create
  <2>1. TypeOK' /\ BeatOrder'
    BY <1>0, <1>4 DEF Create, TypeOK, BeatOrder
  <2> QED
    BY <1>0, <1>4, <2>1, AsideKeeps DEF Create, BeatOrder
<1>5. CASE OtherSetting
  BY <1>0, <1>1, <1>5 DEF OtherSetting, TypeOK
<1>6. CASE \E d \in Desktops : SaveDesktop(d)
  BY <1>1, <1>6 DEF SaveDesktop, Saved
<1>7. CASE Destroy
  <2>0. /\ job' \in 0..MaxLoops /\ faults' \in 0..MaxFaults
        /\ missed' \in 0..MissedBeforeReconnect
        /\ cancelled' \in [Loops -> BOOLEAN]
        /\ missed' < MissedBeforeReconnect
    BY <1>0, <1>7, Counting, ClientAssumption DEF Destroy, TypeOK
  <2>1. TypeOK' /\ BeatOrder'
    BY <1>0, <1>7, <2>0 DEF Destroy, TypeOK, BeatOrder, Saved
  <2>2. OneLiveLoop' /\ NeverWedged'
    BY <1>7 DEF Destroy, OneLiveLoop, NeverWedged, Live
  <2> QED
    BY <2>1, <2>2 DEF ClientInv
<1>8. CASE Kill
  <2>2. /\ running' \in BOOLEAN /\ scopeUp' \in BOOLEAN
        /\ job' \in 0..MaxLoops /\ launched' \in 0..MaxLoops
        /\ outgoing' \in 0..QueueCap /\ missed' \in 0..MissedBeforeReconnect
    BY <1>8, Counting, ClientAssumption DEF Kill
  <2>1. faults' \in 0..MaxFaults /\ missed' < MissedBeforeReconnect
    BY <1>0, <1>8, Counting, ClientAssumption DEF Kill, TypeOK
  <2>3. /\ at' \in [Loops -> LoopStates]
        /\ cancelled' \in [Loops -> BOOLEAN]
        /\ target' \in [Loops -> Saved]
    BY <1>8 DEF Kill, LoopStates, Saved
  <2>4. TypeOK' /\ BeatOrder'
    BY <1>0, <1>8, <2>1, <2>2, <2>3 DEF Kill, TypeOK, BeatOrder, Saved
  <2>5. OneLiveLoop' /\ NeverWedged'
    BY <1>8 DEF Kill, OneLiveLoop, NeverWedged, Live
  <2> QED
    BY <2>4, <2>5 DEF ClientInv
<1>9. CASE NetDown
  <2>1. TypeOK' /\ BeatOrder'
    BY <1>0, <1>9, Counting, ClientAssumption DEF NetDown, TypeOK, BeatOrder
  <2> QED
    BY <1>9, <2>1, AsideKeeps DEF NetDown
<1>10. CASE NetUp
  <2>1. TypeOK' /\ BeatOrder'
    BY <1>0, <1>10 DEF NetUp, TypeOK, BeatOrder
  <2> QED
    BY <1>10, <2>1, AsideKeeps DEF NetUp
<1> QED
  BY <1>2, <1>3, <1>4, <1>5, <1>6, <1>7, <1>8, <1>9, <1>10

-----------------------------------------------------------------------------
\* The invariant of the client, for every behaviour of the specification.
THEOREM ClientInvariant == Spec => []ClientInv
<1>1. ClientInv /\ [Next]_vars => ClientInv'
  <2> SUFFICES ASSUME ClientInv, [Next]_vars PROVE ClientInv'
    OBVIOUS
  <2>1. CASE UNCHANGED vars
    <3> USE <2>1 DEF vars, clientVars, loopVars, beatVars, servVars, envVars
    <3>1. TypeOK' /\ BeatOrder'
      BY DEF ClientInv, TypeOK, BeatOrder
    <3> QED
      BY <3>1, AsideKeeps
  <2>2. CASE Next
    BY <2>2, LoopInv, StartInv, HeartbeatInv, ServiceInv DEF Next
  <2> QED
    BY <2>1, <2>2
<1> QED
  BY InitInv, <1>1, PTL DEF Spec

\* Every variable keeps its type: the Channel its capacity, the counter of
\* misses its limit.
THEOREM ClientTypes == Spec => []TypeOK
<1>1. ClientInv => TypeOK
  BY DEF ClientInv
<1> QED
  BY ClientInvariant, <1>1, PTL

\* However start, forceReconnect and old loops interleave, at most one loop
\* has not been cancelled, and it is loopJob.
THEOREM SingleLoop == Spec => []OneLiveLoop
<1>1. ClientInv => OneLiveLoop
  BY DEF ClientInv
<1> QED
  BY ClientInvariant, <1>1, PTL

\* A running client has a live loop, outside the windows of start and
\* forceReconnect: a later start is never refused for nothing.
THEOREM RunningHasLoop == Spec => []NeverWedged
<1>1. ClientInv => NeverWedged
  BY DEF ClientInv
<1> QED
  BY ClientInvariant, <1>1, PTL
=============================================================================
