------------------------------ MODULE PhoneClient ------------------------------
(***************************************************************************)
(* The phone's connection to the desktop: BridgeClient with its reconnect  *)
(* loop, HeartbeatController, and what BridgeService does with both.       *)
(*                                                                         *)
(* A loop is a coroutine. Cancelling it only makes its next suspension     *)
(* throw, and runLoop catches every Throwable, so a cancelled loop runs on *)
(* for a while, next to its successor. start and forceReconnect are called *)
(* from different threads and are two steps each: the flag `running` and   *)
(* the job are not changed together.                                       *)
(*                                                                         *)
(* The desktop answers a heartbeat with a fresh envelope id (ws_handler.rs,*)
(* dispatch, DeviceHeartbeat) and the phone waits for its own: no echo ever*)
(* matches, and every beat that is sent times out.                         *)
(***************************************************************************)
EXTENDS Naturals

CONSTANTS Desktops,    \* host:port pairs a user can save
          NoDesktop,
          QueueCap,    \* capacity of the outgoing Channel (64 in the code)
          MissedBeforeReconnect,   \* 3 in the code
          MaxLoops,    \* bound: loops launched by one process
          MaxEdits,    \* bound: changes of the stored settings, Disconnects
          MaxFaults    \* bound: network losses, process kills, service destructions

ASSUME ClientAssumption ==
    /\ NoDesktop \notin Desktops
    /\ QueueCap \in Nat \ {0}
    /\ MissedBeforeReconnect \in Nat \ {0}
    /\ MaxLoops \in Nat /\ MaxEdits \in Nat /\ MaxFaults \in Nat

VARIABLES
    running,    \* BridgeClient.running
    job,        \* BridgeClient.loopJob: the loop's number, 0 for null
    launched,   \* loops launched so far
    at,         \* where each loop is
    cancelled,  \* its Job has been cancelled
    target,     \* the desktop each loop was launched for
    scopeUp,    \* BridgeClient.scope has not been cancelled
    status,     \* BridgeClient.status
    outgoing,   \* envelopes in the outgoing Channel
    starting,   \* start() has set `running` and not yet launched: its host
    hb,         \* HeartbeatController.runLoop
    missed,     \* consecutive misses
    full,       \* the last miss was a full outgoing Channel
    service,    \* BridgeService exists
    saved,      \* desktop in the stored settings
    offered,    \* settings that kickoff's collector has not handled yet
    net,        \* the desktop can be reached
    edits, faults

loopVars   == <<job, launched, at, cancelled, target>>
clientVars == <<running, loopVars, scopeUp, status, outgoing, starting>>
beatVars   == <<hb, missed, full>>
servVars   == <<service, saved, offered>>
envVars    == <<net, edits, faults>>
vars       == <<clientVars, beatVars, servVars, envVars>>

Loops      == 1..MaxLoops
LoopStates == {"none", "launched", "top", "connecting", "up", "caught", "returned",
               "delay", "ended"}
HbStates   == {"off", "waiting", "send", "echo", "force", "rearm", "delay"}
Saved      == Desktops \cup {NoDesktop}

\* The type invariant.
TypeOK ==
    /\ running \in BOOLEAN /\ scopeUp \in BOOLEAN
    /\ job \in 0..MaxLoops /\ launched \in 0..MaxLoops
    /\ at \in [Loops -> LoopStates]
    /\ cancelled \in [Loops -> BOOLEAN]
    /\ target \in [Loops -> Saved]
    /\ status \in {"Disconnected", "Connecting", "Connected", "Error"}
    /\ outgoing \in 0..QueueCap
    /\ starting \in Saved
    /\ hb \in HbStates
    /\ missed \in 0..MissedBeforeReconnect
    /\ full \in BOOLEAN /\ service \in BOOLEAN /\ net \in BOOLEAN
    /\ saved \in Saved /\ offered \in Saved
    /\ edits \in 0..MaxEdits /\ faults \in 0..MaxFaults

\* The singletons of a process as it starts; nothing runs.
Init ==
    /\ running = FALSE /\ scopeUp = TRUE
    /\ job = 0 /\ launched = 0
    /\ at = [j \in Loops |-> "none"]
    /\ cancelled = [j \in Loops |-> FALSE]
    /\ target = [j \in Loops |-> NoDesktop]
    /\ status = "Disconnected"
    /\ outgoing = 0
    /\ starting = NoDesktop
    /\ hb = "off" /\ missed = 0 /\ full = FALSE
    /\ service = FALSE /\ offered = NoDesktop
    /\ saved \in Saved
    /\ net = TRUE
    /\ edits = 0 /\ faults = 0

Live(j) == at[j] \notin {"none", "ended"} /\ ~cancelled[j]

-----------------------------------------------------------------------------
(***************************************************************************)
(* The loop: runLoop, runOnce, pumpLoop.                                   *)
(***************************************************************************)

\* Step of loop j to state s, with a status to publish.
GoTo(j, s, st) ==
    /\ at' = [at EXCEPT ![j] = s]
    /\ status' = st
    /\ UNCHANGED <<running, job, launched, cancelled, target, scopeUp, outgoing, starting,
                   beatVars, servVars, envVars>>

\* A job cancelled before it is dispatched never runs its body.
Begin(j) ==
    /\ at[j] = "launched"
    /\ GoTo(j, IF cancelled[j] THEN "ended" ELSE "top", status)

\* while (running.get()).
Top(j) ==
    /\ at[j] = "top"
    /\ IF running THEN GoTo(j, "connecting", "Connecting")
                  ELSE GoTo(j, "ended", "Disconnected")

Open(j) ==
    /\ at[j] = "connecting"
    /\ net /\ ~cancelled[j]
    /\ GoTo(j, "up", "Connected")

\* The socket cannot be opened, breaks, or the suspension is cancelled: an
\* exception, in each case.
Throw(j) ==
    /\ at[j] \in {"connecting", "up"}
    /\ ~net \/ cancelled[j]
    /\ GoTo(j, "caught", status)

\* The desktop closes the session: runOnce returns, the status stays.
Close(j) ==
    /\ at[j] = "up"
    /\ GoTo(j, "returned", status)

\* Mutant: a failed connection ends the loop.
CaughtAndDone(j) ==
    /\ at[j] = "caught"
    /\ IF running THEN GoTo(j, "ended", "Error")
                  ELSE GoTo(j, "ended", "Disconnected")

\* catch (t: Throwable), cancellation included.
Caught(j) ==
    /\ at[j] = "caught"
    /\ IF running THEN GoTo(j, "returned", "Error")
                  ELSE GoTo(j, "ended", "Disconnected")

Returned(j) ==
    /\ at[j] = "returned"
    /\ IF running THEN GoTo(j, "delay", status)
                  ELSE GoTo(j, "ended", "Disconnected")

\* Mutant: the backoff does not notice the cancellation.
DelayRegardless(j) ==
    /\ at[j] = "delay"
    /\ GoTo(j, "top", status)

\* The backoff; a cancelled delay throws out of runLoop.
Delay(j) ==
    /\ at[j] = "delay"
    /\ GoTo(j, IF cancelled[j] THEN "ended" ELSE "top", status)

\* pumpLoop's sender takes an envelope off the Channel.
Pump(j) ==
    /\ at[j] = "up"
    /\ outgoing > 0
    /\ outgoing' = outgoing - 1
    /\ UNCHANGED <<running, loopVars, scopeUp, status, starting, beatVars, servVars, envVars>>

-----------------------------------------------------------------------------
(***************************************************************************)
(* BridgeClient.start, from kickoff's collector.                           *)
(***************************************************************************)

\* The flag is set; a client that is running ignores the call, and with it
\* the host it is given.
Start ==
    /\ offered # NoDesktop
    /\ starting = NoDesktop
    /\ offered' = NoDesktop
    /\ \/ /\ running
          /\ UNCHANGED <<running, starting>>
       \/ /\ ~running
          /\ launched < MaxLoops
          /\ running' = TRUE
          /\ starting' = offered
    /\ UNCHANGED <<loopVars, scopeUp, status, outgoing, beatVars, service, saved, envVars>>

\* Mutant: the new job is not kept.
LaunchAndForget ==
    LET n == launched + 1 IN
    /\ starting # NoDesktop
    /\ launched < MaxLoops
    /\ launched' = n
    /\ at' = [at EXCEPT ![n] = "launched"]
    /\ cancelled' = [j \in Loops |-> IF j = n THEN ~scopeUp ELSE cancelled[j] \/ j = job]
    /\ target' = [target EXCEPT ![n] = starting]
    /\ starting' = NoDesktop
    /\ UNCHANGED <<running, job, scopeUp, status, outgoing, beatVars, servVars, envVars>>

\* The job before is cancelled, the new one launched; in a cancelled scope it
\* is born cancelled.
Launch ==
    LET n == launched + 1 IN
    /\ starting # NoDesktop
    /\ launched < MaxLoops
    /\ launched' = n
    /\ job' = n
    /\ at' = [at EXCEPT ![n] = "launched"]
    /\ cancelled' = [j \in Loops |-> IF j = n THEN ~scopeUp ELSE cancelled[j] \/ j = job]
    /\ target' = [target EXCEPT ![n] = starting]
    /\ starting' = NoDesktop
    /\ UNCHANGED <<running, scopeUp, status, outgoing, beatVars, servVars, envVars>>

\* BridgeClient.stop, the Disconnect button of the floating panel. It runs on
\* the main thread, as start does.
Stop ==
    /\ starting = NoDesktop
    /\ edits < MaxEdits
    /\ edits' = edits + 1
    /\ running' = FALSE
    /\ cancelled' = [j \in Loops |-> cancelled[j] \/ j = job]
    /\ job' = 0
    /\ status' = "Disconnected"
    /\ UNCHANGED <<launched, at, target, scopeUp, outgoing, starting, beatVars, servVars,
                   net, faults>>

\* A relay sends something; a full Channel drops it.
RelaySend ==
    /\ service
    /\ outgoing < QueueCap
    /\ outgoing' = outgoing + 1
    /\ UNCHANGED <<running, loopVars, scopeUp, status, starting, beatVars, servVars, envVars>>

-----------------------------------------------------------------------------
(***************************************************************************)
(* HeartbeatController.runLoop.                                            *)
(***************************************************************************)

BeatOnly == UNCHANGED <<clientVars, servVars, envVars>>

\* status.first { it is Connected }.
AwaitConnected ==
    /\ hb = "waiting"
    /\ status = "Connected"
    /\ hb' = "send"
    /\ UNCHANGED <<missed, full>>
    /\ BeatOnly

\* Mutant: one miss too many before the reconnection.
MissLate == missed' = missed + 1 /\ hb' = IF missed' > MissedBeforeReconnect THEN "force" ELSE "delay"

\* A miss: the third one in a row forces a reconnection.
Miss == missed' = missed + 1 /\ hb' = IF missed' >= MissedBeforeReconnect THEN "force" ELSE "delay"

\* sendOne, whether or not there is a connection.
SendBeat ==
    /\ hb = "send"
    /\ \/ /\ outgoing < QueueCap
          /\ outgoing' = outgoing + 1
          /\ hb' = "echo"
          /\ UNCHANGED <<missed, full>>
       \/ /\ outgoing = QueueCap
          /\ Miss
          /\ full' = TRUE
          /\ UNCHANGED outgoing
    /\ UNCHANGED <<running, loopVars, scopeUp, status, starting, servVars, envVars>>

EchoTimesOut ==
    /\ hb = "echo"
    /\ Miss
    /\ full' = FALSE
    /\ BeatOnly

\* forceReconnect, first half: the loop of the moment is cancelled.
ForceReconnect ==
    /\ hb = "force"
    /\ hb' = "rearm"
    /\ cancelled' = [j \in Loops |-> cancelled[j] \/ (j = job /\ at[j] # "ended")]
    /\ UNCHANGED <<running, job, launched, at, target, scopeUp, status, outgoing, starting,
                   missed, full, servVars, envVars>>

\* Mutant: `running` is not re-armed.
LeaveRunning ==
    /\ hb = "rearm"
    /\ hb' = IF full THEN "delay" ELSE "waiting"
    /\ missed' = 0
    /\ UNCHANGED full
    /\ BeatOnly

\* Second half: `running` is cleared for the next start. After misses of the
\* echo the heartbeat waits until the client is connected again.
Rearm ==
    /\ hb = "rearm"
    /\ running' = FALSE
    /\ hb' = IF full THEN "delay" ELSE "waiting"
    /\ missed' = 0
    /\ UNCHANGED <<loopVars, scopeUp, status, outgoing, starting, full, servVars, envVars>>

NextBeat ==
    /\ hb = "delay"
    /\ hb' = "send"
    /\ UNCHANGED <<missed, full>>
    /\ BeatOnly

-----------------------------------------------------------------------------
(***************************************************************************)
(* BridgeService, the stored settings, and faults.                         *)
(***************************************************************************)

\* onCreate: observe, kickoff (the settings on record are offered at once),
\* heartbeat.start.
Create ==
    /\ ~service
    /\ service' = TRUE
    /\ offered' = saved
    /\ hb' = "waiting"
    /\ UNCHANGED <<clientVars, missed, full, saved, envVars>>

\* Any change of the settings offers them again: the saved desktop, or
\* something else (device name, theme, position of the console).
Edit(d) ==
    /\ edits < MaxEdits
    /\ edits' = edits + 1
    /\ saved' = d
    /\ offered' = IF service THEN d ELSE offered
    /\ UNCHANGED <<clientVars, beatVars, service, net, faults>>

SaveDesktop(d) == d # saved /\ Edit(d)
OtherSetting   == Edit(saved)

\* onDestroy: heartbeat.stop and client.shutdown, which cancels the scope of
\* the singleton for good. A forceReconnect under way finishes first.
Destroy ==
    /\ service
    /\ faults < MaxFaults
    /\ starting = NoDesktop
    /\ hb \notin {"force", "rearm"}
    /\ faults' = faults + 1
    /\ service' = FALSE /\ offered' = NoDesktop
    /\ hb' = "off" /\ missed' = 0 /\ full' = FALSE
    /\ running' = FALSE /\ scopeUp' = FALSE
    /\ job' = 0
    /\ cancelled' = [j \in Loops |-> TRUE]
    /\ status' = "Disconnected"
    /\ UNCHANGED <<launched, at, target, outgoing, starting, saved, net, edits>>

\* The process is killed and starts over.
Kill ==
    /\ faults < MaxFaults
    /\ faults' = faults + 1
    /\ running' = FALSE /\ scopeUp' = TRUE
    /\ job' = 0 /\ launched' = 0
    /\ at' = [j \in Loops |-> "none"]
    /\ cancelled' = [j \in Loops |-> FALSE]
    /\ target' = [j \in Loops |-> NoDesktop]
    /\ status' = "Disconnected"
    /\ outgoing' = 0
    /\ starting' = NoDesktop
    /\ hb' = "off" /\ missed' = 0 /\ full' = FALSE
    /\ service' = FALSE /\ offered' = NoDesktop
    /\ UNCHANGED <<saved, net, edits>>

NetDown ==
    /\ net
    /\ faults < MaxFaults
    /\ faults' = faults + 1
    /\ net' = FALSE
    /\ UNCHANGED <<clientVars, beatVars, servVars, edits>>

NetUp ==
    /\ ~net
    /\ net' = TRUE
    /\ UNCHANGED <<clientVars, beatVars, servVars, edits, faults>>

-----------------------------------------------------------------------------
LoopStep(j) ==
    \/ Begin(j) \/ Top(j) \/ Open(j) \/ Throw(j)
    \/ Caught(j) \/ Returned(j) \/ Delay(j)

Heartbeat ==
    AwaitConnected \/ SendBeat \/ EchoTimesOut \/ ForceReconnect \/ Rearm \/ NextBeat

Next ==
    \/ \E j \in Loops : LoopStep(j) \/ Close(j) \/ Pump(j)
    \/ Start \/ Launch \/ Stop
    \/ RelaySend
    \/ Heartbeat
    \/ Create
    \/ \E d \in Desktops : SaveDesktop(d)
    \/ OtherSetting
    \/ Destroy \/ Kill \/ NetDown \/ NetUp

\* Coroutines that can go on are resumed, timers go off. The user, the
\* desktop's Close, faults and their end, and the re-creation of the service
\* are free.
Fairness ==
    /\ \A j \in Loops : WF_vars(LoopStep(j))
    /\ WF_vars(Start \/ Launch)
    /\ WF_vars(Heartbeat)

Spec == Init /\ [][Next]_vars
FairSpec == Spec /\ Fairness

-----------------------------------------------------------------------------
(***************************************************************************)
(* Properties.                                                             *)
(***************************************************************************)

\* However start, forceReconnect and the end of old loops interleave, no two
\* loops that have not been cancelled compete for the desktop and the
\* outgoing Channel: the only one is loopJob.
OneLiveLoop == \A j \in Loops : Live(j) => j = job

\* `running` without a loop would make every later start return early, and
\* the phone stay offline until its process dies: outside the two-step
\* windows of start and forceReconnect, a running client has a live loop.
\* (After onDestroy the scope is gone and the claim void.)
NeverWedged ==
    scopeUp /\ running /\ starting = NoDesktop /\ hb # "rearm"
        => job \in Loops /\ Live(job)

\* A live loop connects as long as nobody cancels it or clears `running` and
\* the desktop can be reached (and the process lives).
LoopRetries ==
    \A j \in Loops :
        Live(j) ~> (at[j] \in {"up", "none"} \/ cancelled[j] \/ ~running \/ ~net)

\* Although runLoop catches the CancellationException, a cancelled loop ends.
CancelledLoopEnds ==
    \A j \in Loops : (cancelled[j] /\ at[j] # "none") ~> at[j] \in {"none", "ended"}

\* BridgeClient.kt, forceReconnect: "Bypass the backoff and reconnect on the
\* next scheduler tick." After a forced reconnection there is a connection.
ForcedReconnects ==
    hb = "rearm" ~> \E j \in Loops : at[j] = "up" /\ Live(j)

\* AddByIpScreen.kt: "make sure the foreground service is running so any
\* host/port we save is actually dialed."
SavedIsDialed ==
    \A d \in Desktops :
        <>[](service /\ saved = d) => <>(\E j \in Loops : target[j] = d)
=============================================================================
