----------------------------- MODULE StartupProofs -----------------------------
(***************************************************************************)
(* Proofs about Startup for any set of processes, any command lines and    *)
(* any bounds on starts and deaths.                                        *)
(***************************************************************************)
EXTENDS Startup, TLAPS

\* An advertisement lives only while its process is about to drop it.
AdvertisedBriefly ==
    /\ mdns = [p \in Procs |-> mdns[p]]
    /\ \A p \in Procs : mdns[p] # Quiet => stage[p] = "dropMdns"

\* Flags in force have been given.
GivenUsed == \A p \in Procs : cmd[p].given \subseteq used

\* The invariant that keeps the types.
StartupTypes == TypeOK /\ AdvertisedBriefly /\ GivenUsed

\* The stages of a process that settles the token, and of a server that has one.
Tokens == {"token", "writeToken", "moveToken"}
Late   == {"mdns", "dropMdns", "tls", "writeTlsCert", "writeTlsKey", "bind"}
Served(p) == stage[p] \in Late \/ (stage[p] \in Tokens /\ cmd[p].name = "serve")

\* Nothing but a writing stage has a file open, and only its own.
OpenFile(p) == fd[p] # "none" => stage[p] \in Writing /\ fd[p] = WriteTo[stage[p]]

\* The identity in memory is the one on the disk.
KnowsIdentity(p) ==
    /\ \/ Served(p)
       \/ stage[p] \in {"name", "writeName", "cert", "writeCert", "writeKey"}
       => Whole(disk["id"]) /\ mem[p].id = disk["id"]
    /\ Served(p) \/ stage[p] = "writeKey" => Whole(disk["cert"]) /\ mem[p].cert = disk["cert"]
    /\ Served(p) => disk["key"] # Absent

\* The token of a process that has one is the one on the disk, unless it was rotated.
KnowsToken(p) ==
    /\ stage[p] \in Late \cup {"listening", "rotate", "moveRotated", "print"} => Whole(mem[p].token)
    /\ stage[p] \in Late \cup {"listening"} => mem[p].token = disk["token"] \/ p \in rotated
    /\ stage[p] \in Late => Whole(disk["token"])
    /\ stage[p] \in {"moveToken", "moveRotated"} => disk["tmp"] = mem[p].number

\* The key pair in memory is the one on the disk.
KnowsPair(p) ==
    /\ stage[p] \in {"writeTlsCert", "writeTlsKey"} => ~cmd[p].noTls
    /\ stage[p] = "writeTlsKey" => Whole(disk["tcert"]) /\ mem[p].tcert = disk["tcert"]
    /\ stage[p] = "bind" /\ ~cmd[p].noTls =>
         Whole(disk["tcert"]) /\ mem[p].tcert = disk["tcert"] /\ mem[p].tkey = disk["tkey"]

\* What a server has shown is not written again.
SparesShown(p) ==
    /\ stage[p] = "writeId" => shown = {} \/ "id" \in used
    /\ stage[p] \in {"writeCert", "writeKey", "writeToken", "moveToken"} => shown = {}
    /\ stage[p] \in {"writeTlsCert", "writeTlsKey"} => "tls" \notin modes
    /\ stage[p] = "listening" => shown # {}

Local(p) == OpenFile(p) /\ KnowsIdentity(p) /\ KnowsToken(p) /\ KnowsPair(p) /\ SparesShown(p)

Alone == \A p, q \in Procs : Starting(p) /\ Starting(q) => p = q

\* The disk still holds what servers have shown.
ShownKept ==
    /\ \A a \in shown : a.cert = disk["cert"] /\ (a.id = disk["id"] \/ "id" \in used)
    /\ shown # {} => /\ Whole(disk["cert"]) /\ Whole(disk["token"]) /\ disk["key"] # Absent
                     /\ Whole(disk["id"]) \/ "id" \in used
    /\ "tls" \in modes => Whole(disk["tcert"]) /\ disk["tcert"] = disk["tkey"]

Calm == Alone /\ ShownKept /\ disk["token"] # Torn /\ \A p \in Procs : Local(p)

StartupInv == StartupTypes /\ (~collided => Calm)

-----------------------------------------------------------------------------
\* What the bounds say of the numbers a file may hold.
LEMMA Numbers ==
    /\ Absent \in Contents /\ Torn \in Contents /\ Given \in Contents
    /\ \A n \in 0 .. MaxStarts : n \in Contents /\ Whole(n)
    /\ 0 \in 0 .. MaxStarts /\ 0 \in 0 .. MaxCrashes
    /\ starts \in 0 .. MaxStarts /\ starts < MaxStarts => starts + 1 \in 0 .. MaxStarts
    /\ crashes \in 0 .. MaxCrashes /\ crashes < MaxCrashes => crashes + 1 \in 0 .. MaxCrashes
BY StartupAssumption DEF Contents, Absent, Torn, Given, Whole

LEMMA BlankOK == \A n \in 0 .. MaxStarts : Blank(n) \in Memory
BY Numbers DEF Blank, Memory

\* No process runs at first.
LEMMA InitTypes == Init => StartupTypes
<1> SUFFICES ASSUME Init PROVE StartupTypes
  OBVIOUS
<1>1. disk \in [Files -> Contents]
  BY Numbers DEF Init, Files
<1>2. Idle \in Commands
  BY DEF Idle, Commands
<1>3. mem \in [Procs -> Memory]
  BY Numbers, BlankOK DEF Init
<1>4. stage \in [Procs -> Stages]
  BY DEF Init, Stages
<1>5. TypeOK
  BY <1>1, <1>2, <1>3, <1>4, Numbers DEF Init, TypeOK
<1> QED BY <1>5 DEF Init, StartupTypes, AdvertisedBriefly, GivenUsed, Idle

\* A process that ends.
LEMMA LeaveTypes ==
    ASSUME StartupTypes, NEW p \in Procs, Leave(p), crashes' \in 0 .. MaxCrashes
    PROVE  StartupTypes'
<1>1. Idle \in Commands /\ Blank(0) \in Memory /\ "off" \in Stages
  BY Numbers, BlankOK DEF Idle, Commands, Stages
<1>2. /\ cmd' \in [Procs -> Commands] /\ stage' \in [Procs -> Stages] /\ mem' \in [Procs -> Memory]
      /\ fd' \in [Procs -> Files \cup {"none", "gone"}]
  BY <1>1 DEF StartupTypes, TypeOK, Leave, Goto
<1>3. \A q \in Procs : mdns'[q] = Quiet \/ mdns'[q] = DaemonTxt(q)'
  BY DEF StartupTypes, TypeOK, AdvertisedBriefly, Leave, DaemonTxt, Goto
<1>4. TypeOK'
  BY <1>2, <1>3 DEF StartupTypes, TypeOK, Leave
<1>5. AdvertisedBriefly'
  BY DEF StartupTypes, TypeOK, AdvertisedBriefly, Leave, Goto
<1>6. GivenUsed'
  BY DEF StartupTypes, TypeOK, GivenUsed, Leave, Idle
<1> QED BY <1>4, <1>5, <1>6 DEF StartupTypes

\* A step of a process that does not advertise, on its own memory and the files.
LEMMA MoveTypes ==
    ASSUME StartupTypes, NEW p \in Procs, NEW s \in Stages, NEW m \in Memory, Goto(p, s),
           mem' = [mem EXCEPT ![p] = m], stage[p] # "dropMdns",
           disk' \in [Files -> Contents], fd' \in [Procs -> Files \cup {"none", "gone"}],
           rotated' \subseteq Procs,
           UNCHANGED <<config, cmd, mdns, starts, crashes, used, collided, shown, modes>>
    PROVE  StartupTypes'
<1>1. stage' \in [Procs -> Stages] /\ mem' \in [Procs -> Memory]
  BY DEF StartupTypes, TypeOK, Goto
<1>2. \A q \in Procs : mdns'[q] = Quiet \/ mdns'[q] = DaemonTxt(q)'
  BY DEF StartupTypes, TypeOK, AdvertisedBriefly, DaemonTxt
<1>3. TypeOK'
  BY <1>1, <1>2 DEF StartupTypes, TypeOK
<1>4. AdvertisedBriefly' /\ GivenUsed'
  BY DEF StartupTypes, TypeOK, AdvertisedBriefly, GivenUsed, Goto
<1> QED BY <1>3, <1>4 DEF StartupTypes

\* ... on its stage alone.
LEMMA GotoTypes ==
    ASSUME StartupTypes, NEW p \in Procs, NEW s \in Stages, Goto(p, s), stage[p] # "dropMdns",
           UNCHANGED <<config, disk, cmd, mem, fd, mdns, histVars>>
    PROVE  StartupTypes'
<1>1. mem[p] \in Memory /\ mem' = [mem EXCEPT ![p] = mem[p]]
  BY DEF StartupTypes, TypeOK
<1>2. /\ disk' \in [Files -> Contents] /\ fd' \in [Procs -> Files \cup {"none", "gone"}]
      /\ rotated' \subseteq Procs
  BY DEF StartupTypes, TypeOK, histVars
<1> QED BY <1>1, <1>2, MoveTypes DEF histVars

\* A field of memory that is written.
LEMMA Remember ==
    \A m \in Memory : \A c \in Contents :
        /\ [m EXCEPT !.id = c] \in Memory /\ [m EXCEPT !.name = c] \in Memory
        /\ [m EXCEPT !.cert = c] \in Memory /\ [m EXCEPT !.token = c] \in Memory
        /\ [m EXCEPT !.tcert = c] \in Memory /\ [m EXCEPT !.tkey = c] \in Memory
BY DEF Memory

\* A file that is read.
LEMMA ReadTypes ==
    ASSUME StartupTypes, NEW p \in Procs, NEW s \in Stages, NEW f \in {"id", "name", "cert", "token"},
           NEW next \in Stages, s # "dropMdns", Read(p, s, f, next)
    PROVE  StartupTypes'
<1>1. CASE Leave(p) /\ UNCHANGED crashes
  BY <1>1, LeaveTypes DEF StartupTypes, TypeOK
<1>2. CASE /\ mem' = [mem EXCEPT ![p][f] = disk[f]] /\ Goto(p, next)
           /\ UNCHANGED <<config, disk, cmd, fd, mdns, histVars>>
  <2>1. disk[f] \in Contents /\ mem[p] \in Memory
    BY DEF StartupTypes, TypeOK, Files
  <2>2. [mem[p] EXCEPT ![f] = disk[f]] \in Memory
    BY <2>1, Remember
  <2>3. mem' = [mem EXCEPT ![p] = [mem[p] EXCEPT ![f] = disk[f]]]
    BY <1>2
  <2>4. /\ disk' \in [Files -> Contents] /\ fd' \in [Procs -> Files \cup {"none", "gone"}]
        /\ rotated' \subseteq Procs
    BY <1>2 DEF StartupTypes, TypeOK, histVars
  <2> QED BY <1>2, <2>2, <2>3, <2>4, MoveTypes DEF Read, histVars
<1> QED BY <1>1, <1>2 DEF Read

\* The stages that follow one another.
LEMMA NextStages ==
    ASSUME StartupTypes, NEW p \in Procs
    PROVE  /\ AfterToken(p) \in Stages
           /\ stage[p] \in Writing => AfterWrite(p) \in Stages /\ WriteTo[stage[p]] \in Files
           /\ Writing \subseteq Stages /\ "dropMdns" \notin Writing
<1>1. AfterToken(p) \in Stages
  <2>1. cmd[p].name \in {"serve", "rotate", "print"}
    BY DEF StartupTypes, TypeOK, Commands
  <2> QED BY <2>1 DEF AfterToken, Stages, Writing, WriteTo
<1>2. ASSUME stage[p] \in Writing PROVE AfterWrite(p) \in Stages /\ WriteTo[stage[p]] \in Files
  BY <1>2 DEF AfterWrite, Stages, Writing, WriteTo, Files
<1> QED BY <1>1, <1>2 DEF Stages, Writing, WriteTo

\* What a stage writes is a content of a file.
LEMMA FreshOK ==
    ASSUME StartupTypes, NEW p \in Procs PROVE Fresh(p) \in 0 .. MaxStarts /\ Fresh(p) \in Contents
<1>1. mem[p].number \in 0 .. MaxStarts
  BY DEF StartupTypes, TypeOK, Memory
<1> QED BY <1>1, Numbers DEF Fresh, Given

\* A file that is opened.
LEMMA OpenTypes == ASSUME StartupTypes, NEW p \in Procs, Open(p) PROVE StartupTypes'
<1>1. WriteTo[stage[p]] \in Files /\ stage[p] # "dropMdns" /\ stage[p] \in Stages
  BY NextStages DEF Open
<1>2. /\ disk' \in [Files -> Contents] /\ fd' \in [Procs -> Files \cup {"none", "gone"}]
      /\ rotated' \subseteq Procs
  BY <1>1, Numbers DEF Open, StartupTypes, TypeOK, histVars
<1>3. /\ mem[p] \in Memory /\ mem' = [mem EXCEPT ![p] = mem[p]]
      /\ Goto(p, stage[p])
  BY DEF StartupTypes, TypeOK, Open, Goto
<1> QED BY <1>1, <1>2, <1>3, MoveTypes DEF Open, histVars

\* A file that is filled.
LEMMA FillTypes == ASSUME StartupTypes, NEW p \in Procs, Fill(p) PROVE StartupTypes'
<1>1. stage[p] \in Writing /\ AfterWrite(p) \in Stages /\ stage[p] # "dropMdns"
  BY NextStages DEF Fill
<1>2. /\ disk' \in [Files -> Contents] /\ fd' \in [Procs -> Files \cup {"none", "gone"}]
      /\ rotated' \subseteq Procs
  BY FreshOK DEF Fill, StartupTypes, TypeOK, histVars
<1>3. PICK m \in Memory : mem' = [mem EXCEPT ![p] = m]
  <2>1. mem[p] \in Memory
    BY DEF StartupTypes, TypeOK
  <2>2. CASE WriteTo[stage[p]] \in {"tmp", "key"}
    BY <2>1, <2>2 DEF Fill, StartupTypes, TypeOK
  <2>3. CASE WriteTo[stage[p]] \in {"id", "name", "cert", "tcert", "tkey"}
    <3>1. [mem[p] EXCEPT ![WriteTo[stage[p]]] = Fresh(p)] \in Memory
      BY <2>1, <2>3, FreshOK, Remember
    <3>2. mem' = [mem EXCEPT ![p] = [mem[p] EXCEPT ![WriteTo[stage[p]]] = Fresh(p)]]
      BY <2>3 DEF Fill
    <3> QED BY <3>1, <3>2
  <2> QED BY <1>1, <2>2, <2>3 DEF Writing, WriteTo
<1> QED BY <1>1, <1>2, <1>3, MoveTypes DEF Fill, histVars

\* A token that is put in place.
LEMMA MoveTokenTypes == ASSUME StartupTypes, NEW p \in Procs, Move(p) PROVE StartupTypes'
<1>1. CASE Leave(p) /\ UNCHANGED crashes
  BY <1>1, LeaveTypes DEF StartupTypes, TypeOK
<1>2. CASE disk["tmp"] # Absent
  <2>1. mem[p] \in Memory /\ mem[p].number \in Contents
    BY Numbers DEF StartupTypes, TypeOK, Memory
  <2>2. [mem[p] EXCEPT !.token = mem[p].number] \in Memory
    BY <2>1, Remember
  <2>3. mem' = [mem EXCEPT ![p] = [mem[p] EXCEPT !.token = mem[p].number]]
    BY <1>2 DEF Move
  <2>4. disk' \in [Files -> Contents]
    BY <1>2, Numbers DEF Move, Rename, StartupTypes, TypeOK, Files
  <2>5. fd' \in [Procs -> Files \cup {"none", "gone"}]
    <3>1. fd' = [q \in Procs |-> CASE fd[q] = "tmp" -> "token"
                                   [] fd[q] = "token" -> "gone"
                                   [] OTHER -> fd[q]]
      BY <1>2 DEF Move, Rename
    <3>2. \A q \in Procs : fd[q] \in Files \cup {"none", "gone"}
      BY DEF StartupTypes, TypeOK
    <3> QED BY <3>1, <3>2 DEF Files
  <2>6. rotated' \subseteq Procs
    BY <1>2 DEF Move, StartupTypes, TypeOK
  <2>7. PICK s \in Stages : Goto(p, s)
    BY <1>2, NextStages DEF Move, Stages
  <2> QED BY <1>2, <2>2, <2>3, <2>4, <2>5, <2>6, <2>7, MoveTypes DEF Move
<1> QED BY <1>1, <1>2 DEF Move

\* A server that binds its port.
LEMMA BindTypes == ASSUME StartupTypes, NEW p \in Procs, Bind(p) PROVE StartupTypes'
<1>1. CASE Leave(p) /\ UNCHANGED crashes
  BY <1>1, LeaveTypes DEF StartupTypes, TypeOK
<1>2. CASE Goto(p, "listening") /\ ~(Leave(p) /\ UNCHANGED crashes)
  <2>1. shown' = shown \cup {[id |-> mem[p].id, cert |-> mem[p].cert, given |-> "id" \in cmd[p].given]}
    BY <1>2 DEF Bind
  <2>2. mem[p].id \in Contents /\ mem[p].cert \in Contents
    BY DEF StartupTypes, TypeOK, Memory
  <2>3. shown' \subseteq [id : Contents, cert : Contents, given : BOOLEAN]
    <3>1. \A i, c \in Contents : \A b \in BOOLEAN :
              [id |-> i, cert |-> c, given |-> b] \in [id : Contents, cert : Contents, given : BOOLEAN]
      OBVIOUS
    <3>2. ("id" \in cmd[p].given) \in BOOLEAN
      OBVIOUS
    <3>3. [id |-> mem[p].id, cert |-> mem[p].cert, given |-> "id" \in cmd[p].given]
              \in [id : Contents, cert : Contents, given : BOOLEAN]
      BY <2>2, <3>1, <3>2, Zenon
    <3> QED BY <2>1, <3>3, Zenon DEF StartupTypes, TypeOK
  <2>4. modes' \subseteq {"plain", "tls"}
    BY <1>2 DEF Bind, StartupTypes, TypeOK
  <2>5. stage' \in [Procs -> Stages] /\ stage[p] = "bind"
    BY <1>2 DEF Bind, Goto, StartupTypes, TypeOK, Stages
  <2>6. UNCHANGED <<config, disk, cmd, mem, fd, mdns, starts, crashes, used, collided, rotated>>
    BY <1>2 DEF Bind
  <2>7. \A q \in Procs : mdns'[q] = Quiet \/ mdns'[q] = DaemonTxt(q)'
    BY <2>6 DEF StartupTypes, TypeOK, DaemonTxt
  <2>8. TypeOK'
    BY <2>3, <2>4, <2>5, <2>6, <2>7 DEF StartupTypes, TypeOK
  <2>9. AdvertisedBriefly' /\ GivenUsed'
    BY <1>2, <2>5, <2>6 DEF StartupTypes, TypeOK, AdvertisedBriefly, GivenUsed, Goto
  <2> QED BY <2>8, <2>9 DEF StartupTypes
<1> QED BY <1>1, <1>2 DEF Bind

\* A process that starts.
LEMMA StartTypes ==
    ASSUME StartupTypes, NEW p \in Procs, NEW c \in Offered, Start(p, c) PROVE StartupTypes'
<1>1. c \in Commands
  BY OfferedAssumption
<1>2. starts' \in 0 .. MaxStarts /\ Blank(starts + 1) \in Memory
  BY Numbers, BlankOK DEF Start, StartupTypes, TypeOK
<1>3. /\ cmd' \in [Procs -> Commands] /\ mem' \in [Procs -> Memory]
      /\ stage' \in [Procs -> Stages]
  BY <1>1, <1>2 DEF Start, StartupTypes, TypeOK, Stages
<1>4. mdns[p] = Quiet
  BY DEF Start, StartupTypes, AdvertisedBriefly
<1>5. \A q \in Procs : mdns'[q] = Quiet \/ mdns'[q] = DaemonTxt(q)'
  BY <1>4 DEF Start, StartupTypes, TypeOK, DaemonTxt
<1>6. collided' \in BOOLEAN
  BY Zenon DEF Start
<1>7. used' \subseteq Flags
  BY <1>1 DEF Start, StartupTypes, TypeOK, Commands
<1>8. TypeOK'
  BY <1>2, <1>3, <1>5, <1>6, <1>7 DEF Start, StartupTypes, TypeOK
<1>9. AdvertisedBriefly' /\ GivenUsed'
  BY <1>4 DEF Start, StartupTypes, TypeOK, AdvertisedBriefly, GivenUsed
<1> QED BY <1>8, <1>9 DEF StartupTypes

\* The advertisement appears and goes.
LEMMA MdnsTypes ==
    ASSUME StartupTypes, NEW p \in Procs, StartMdns(p) \/ DropMdns(p) PROVE StartupTypes'
<1>1. stage' \in [Procs -> Stages]
  BY DEF StartMdns, DropMdns, Goto, StartupTypes, TypeOK, Stages
<1>2. UNCHANGED <<config, disk, cmd, mem, fd, histVars>>
  BY DEF StartMdns, DropMdns
<1>3. /\ mdns' = [q \in Procs |-> mdns'[q]]
      /\ \A q \in Procs : q # p => mdns'[q] = mdns[q] /\ stage'[q] = stage[q]
      /\ mdns'[p] = Quiet \/ (mdns'[p] = DaemonTxt(p) /\ stage'[p] = "dropMdns")
  BY DEF StartMdns, DropMdns, Advertise, Goto, StartupTypes, TypeOK, AdvertisedBriefly
<1>4. \A q \in Procs : DaemonTxt(q)' = DaemonTxt(q)
  BY <1>2 DEF DaemonTxt
<1>5. TypeOK'
  BY <1>1, <1>2, <1>3, <1>4 DEF StartupTypes, TypeOK, histVars
<1>6. AdvertisedBriefly' /\ GivenUsed'
  BY <1>2, <1>3 DEF StartupTypes, AdvertisedBriefly, GivenUsed, histVars
<1> QED BY <1>5, <1>6 DEF StartupTypes

\* Every step keeps the types.
LEMMA StepTypes == ASSUME StartupTypes, [Next]_vars PROVE StartupTypes'
<1>1. CASE UNCHANGED vars
  <2>1. \A q \in Procs : DaemonTxt(q)' = DaemonTxt(q)
    BY <1>1 DEF vars, procVars, DaemonTxt
  <2> QED BY <1>1, <2>1 DEF vars, procVars, histVars, StartupTypes, TypeOK, AdvertisedBriefly, GivenUsed
<1>2. ASSUME NEW p \in Procs, Crash(p) PROVE StartupTypes'
  BY <1>2, LeaveTypes, Numbers DEF Crash, StartupTypes, TypeOK
<1>3. ASSUME NEW p \in Procs, Step(p) PROVE StartupTypes'
  <2>0. crashes' = crashes => crashes' \in 0 .. MaxCrashes
    BY DEF StartupTypes, TypeOK
  <2>1. CASE LoadConfig(p)
    <3>1. "id" \in Stages
      BY DEF Stages
    <3> QED BY <2>0, <2>1, <3>1, LeaveTypes, GotoTypes DEF LoadConfig
  <2>2. CASE Generate(p)
    <3>1. stage[p] # "dropMdns" /\ \E s \in Stages : Goto(p, s)
      <4>1. {"writeId", "writeName", "writeCert", "writeToken", "writeTlsCert"} \subseteq Stages
        BY DEF Stages, Writing, WriteTo
      <4> QED BY <2>2, <4>1 DEF Generate
    <3> QED BY <2>2, <3>1, GotoTypes DEF Generate
  <2>3. CASE ReadId(p)
    BY <2>3, ReadTypes DEF ReadId, Stages
  <2>4. CASE ReadName(p)
    BY <2>4, ReadTypes DEF ReadName, Stages
  <2>5. CASE ReadCert(p)
    BY <2>5, ReadTypes DEF ReadCert, Stages
  <2>6. CASE ReadToken(p)
    <3>1. AfterToken(p) \in Stages /\ "token" \in Stages
      BY NextStages DEF Stages
    <3> QED BY <2>6, <3>1, ReadTypes DEF ReadToken
  <2>7. CASE ReadTls(p)
    <3>1. CASE Leave(p) /\ UNCHANGED crashes
      BY <2>0, <3>1, LeaveTypes
    <3>2. CASE Whole(disk["tcert"])
      <4>1. disk["tcert"] \in Contents /\ disk["tkey"] \in Contents /\ mem[p] \in Memory
        BY DEF StartupTypes, TypeOK, Files
      <4>2. [[mem[p] EXCEPT !.tcert = disk["tcert"]] EXCEPT !.tkey = disk["tkey"]] \in Memory
        BY <4>1, Remember
      <4>3. mem' = [mem EXCEPT ![p] = [[mem[p] EXCEPT !.tcert = disk["tcert"]] EXCEPT !.tkey = disk["tkey"]]]
        BY <2>7, <3>2 DEF ReadTls, StartupTypes, TypeOK
      <4>4. /\ disk' \in [Files -> Contents] /\ fd' \in [Procs -> Files \cup {"none", "gone"}]
            /\ rotated' \subseteq Procs
        BY <2>7, <3>2 DEF ReadTls, StartupTypes, TypeOK, histVars
      <4>5. "bind" \in Stages
        BY DEF Stages
      <4> QED BY <2>7, <3>2, <4>2, <4>3, <4>4, <4>5, MoveTypes DEF ReadTls, histVars
    <3> QED BY <2>7, <3>1, <3>2 DEF ReadTls
  <2>8. CASE NoTls(p)
    BY <2>8, GotoTypes DEF NoTls, Stages
  <2>9. CASE PrintToken(p)
    BY <2>0, <2>9, LeaveTypes DEF PrintToken
  <2> QED BY <1>3, <2>1, <2>2, <2>3, <2>4, <2>5, <2>6, <2>7, <2>8, <2>9, OpenTypes, FillTypes,
             MoveTokenTypes, MdnsTypes, BindTypes DEF Step
<1> QED BY <1>1, <1>2, <1>3, StartTypes DEF Next

\* Every variable of start-up keeps its type, whoever starts and whatever dies.
THEOREM StartupTypeCorrect == Spec => []TypeOK
<1>1. StartupTypes => TypeOK
  BY DEF StartupTypes
<1> QED BY <1>1, InitTypes, StepTypes, PTL DEF Spec

-----------------------------------------------------------------------------
\* Nothing runs and nothing was shown at first.
LEMMA InitCalm == Init => Calm
<1> SUFFICES ASSUME Init PROVE Calm
  OBVIOUS
<1>1. disk["token"] = Absent /\ Absent # Torn
  BY DEF Init, Files, Absent, Torn
<1>2. Alone /\ ShownKept
  BY DEF Init, Alone, Starting, ShownKept
<1>3. \A p \in Procs : stage[p] = "off" /\ fd[p] = "none"
  BY DEF Init
<1>4. \A p \in Procs : Local(p)
  BY <1>3 DEF Local, OpenFile, KnowsIdentity, Served, Late, Tokens, KnowsToken, KnowsPair, SparesShown
<1> QED BY <1>1, <1>2, <1>4 DEF Calm

\* While a process starts alone, its step leaves what the others know as it is.
LEMMA OthersKeep ==
    ASSUME StartupTypes, Calm, NEW p \in Procs, NEW q \in Procs, q # p, Starting(p),
           stage'[q] = stage[q], mem'[q] = mem[q], fd'[q] = fd[q], shown \subseteq shown',
           q \in rotated /\ stage[q] = "listening" => q \in rotated',
           disk'["token"] = disk["token"] \/ (stage[q] = "listening" => q \in rotated')
    PROVE  Local(q)'
<1>1. stage[q] \in {"off", "listening"} /\ Local(q)
  BY DEF Calm, Alone, Starting
<1>2. fd'[q] = "none"
  BY <1>1 DEF Local, OpenFile, Writing, WriteTo
<1>3. OpenFile(q)' /\ KnowsIdentity(q)' /\ KnowsPair(q)'
  BY <1>1, <1>2 DEF OpenFile, KnowsIdentity, KnowsPair, Served, Late, Tokens
<1>4. KnowsToken(q)'
  BY <1>1 DEF Local, KnowsToken, Late
<1>5. SparesShown(q)'
  BY <1>1 DEF Local, SparesShown
<1> QED BY <1>3, <1>4, <1>5 DEF Local

\* A step of a process that starts alone: what is left to show of it.
LEMMA AloneKeeps ==
    ASSUME StartupTypes, Calm, NEW p \in Procs, Starting(p),
           \A q \in Procs : q # p => stage'[q] = stage[q] /\ mem'[q] = mem[q] /\ fd'[q] = fd[q],
           shown \subseteq shown',
           \A q \in rotated : q # p /\ stage[q] = "listening" => q \in rotated',
           \/ disk'["token"] = disk["token"]
           \/ \A q \in Procs : q # p /\ stage[q] = "listening" => q \in rotated',
           disk'["token"] # Torn, ShownKept', Local(p)'
    PROVE  Calm'
<1>1. Alone'
  BY DEF Calm, Alone, Starting
<1>2. \A q \in Procs : Local(q)'
  BY OthersKeep
<1> QED BY <1>1, <1>2 DEF Calm

\* A process that ends leaves the others as they are.
LEMMA LeaveKeeps == ASSUME StartupTypes, Calm, NEW p \in Procs, Leave(p) PROVE Calm'
<1>1. /\ stage'[p] = "off" /\ fd'[p] = "none"
      /\ \A q \in Procs : q # p => /\ stage'[q] = stage[q] /\ cmd'[q] = cmd[q] /\ mem'[q] = mem[q]
                                   /\ fd'[q] = fd[q] /\ (q \in rotated' <=> q \in rotated)
      /\ disk' = disk /\ used' = used /\ shown' = shown /\ modes' = modes
  BY DEF Leave, Goto, StartupTypes, TypeOK
<1>2. Alone' /\ ShownKept' /\ disk'["token"] # Torn
  BY <1>1 DEF Calm, Alone, Starting, ShownKept
<1>3. Local(p)'
  BY <1>1 DEF Local, OpenFile, KnowsIdentity, Served, Late, Tokens, KnowsToken, KnowsPair, SparesShown
<1>4. ASSUME NEW q \in Procs, q # p PROVE Local(q)'
  <2>1. Local(q)
    BY DEF Calm
  <2>2. OpenFile(q)' /\ SparesShown(q)'
    BY <1>1, <1>4, <2>1 DEF Local, OpenFile, SparesShown
  <2>3. KnowsIdentity(q)' /\ KnowsPair(q)'
    BY <1>1, <1>4, <2>1 DEF Local, KnowsIdentity, Served, KnowsPair
  <2>4. KnowsToken(q)'
    BY <1>1, <1>4, <2>1 DEF Local, KnowsToken
  <2> QED BY <2>2, <2>3, <2>4 DEF Local
<1> QED BY <1>2, <1>3, <1>4 DEF Calm

\* A process that starts while no other does.
LEMMA StartKeeps ==
    ASSUME StartupTypes, ~collided => Calm, NEW p \in Procs, NEW c \in Offered, Start(p, c), ~collided'
    PROVE  Calm'
<1>1. Calm /\ \A q \in Procs : ~Starting(q)
  BY DEF Start
<1>2. /\ stage'[p] \in {"config", "token"} /\ (stage'[p] = "token" => cmd'[p].name # "serve")
      /\ \A q \in Procs : q # p => stage'[q] = stage[q] /\ cmd'[q] = cmd[q] /\ mem'[q] = mem[q]
      /\ fd' = fd /\ disk' = disk /\ shown' = shown /\ modes' = modes /\ rotated' = rotated
      /\ used \subseteq used' /\ stage[p] = "off"
  BY DEF Start, StartupTypes, TypeOK
<1>3. Alone' /\ ShownKept' /\ disk'["token"] # Torn
  BY <1>1, <1>2 DEF Calm, Alone, Starting, ShownKept
<1>4. Local(p)'
  <2>1. fd[p] = "none"
    BY <1>1, <1>2 DEF Calm, Local, OpenFile, Writing, WriteTo
  <2>2. ~Served(p)'
    BY <1>2 DEF Served, Late, Tokens
  <2> QED BY <1>2, <2>1, <2>2 DEF Local, OpenFile, KnowsIdentity, Late, KnowsToken, KnowsPair, SparesShown
<1>5. ASSUME NEW q \in Procs, q # p PROVE Local(q)'
  <2>1. Local(q) /\ stage[q] \in {"off", "listening"}
    BY <1>1 DEF Calm, Starting
  <2>2. OpenFile(q)' /\ SparesShown(q)'
    BY <1>2, <1>5, <2>1 DEF Local, OpenFile, SparesShown
  <2>3. KnowsIdentity(q)' /\ KnowsPair(q)' /\ KnowsToken(q)'
    BY <1>2, <1>5, <2>1 DEF Local, KnowsIdentity, Served, KnowsPair, KnowsToken, Late, Tokens
  <2> QED BY <2>2, <2>3 DEF Local
<1> QED BY <1>3, <1>4, <1>5 DEF Calm

\* A step that writes no file and shows nothing.
LEMMA QuietKeeps ==
    ASSUME StartupTypes, Calm, NEW p \in Procs, Starting(p), NEW s, Goto(p, s), Local(p)',
           \A q \in Procs : q # p => mem'[q] = mem[q], UNCHANGED <<disk, fd, histVars>>
    PROVE  Calm'
<1>1. \A q \in Procs : q # p => stage'[q] = stage[q] /\ fd'[q] = fd[q]
  BY DEF Goto, StartupTypes, TypeOK
<1>2. shown' = shown /\ rotated' = rotated /\ disk' = disk
  BY DEF histVars
<1>3. ShownKept' /\ disk'["token"] # Torn
  BY DEF Calm, ShownKept, histVars
<1> QED BY <1>1, <1>2, <1>3, AloneKeeps

\* The configuration is read, a file is found missing, the advertisement comes
\* and goes, or there is no TLS.
LEMMA PassKeeps ==
    ASSUME StartupTypes, Calm, NEW p \in Procs,
           \/ LoadConfig(p) /\ ~Leave(p)
           \/ Generate(p) \/ NoTls(p) \/ StartMdns(p) \/ DropMdns(p)
    PROVE  Calm'
<1>1. PICK s : Goto(p, s)
  BY DEF LoadConfig, Generate, NoTls, StartMdns, DropMdns
<1>2. Starting(p) /\ UNCHANGED <<disk, cmd, mem, fd, histVars>>
  BY DEF LoadConfig, Generate, NoTls, StartMdns, DropMdns, Starting
<1>3. stage'[p] = s /\ Local(p) /\ ShownKept
  BY <1>1 DEF Goto, StartupTypes, TypeOK, Calm
<1>4. fd[p] = "none"
  BY <1>3 DEF Local, OpenFile, Writing, WriteTo, LoadConfig, Generate, NoTls, StartMdns, DropMdns
<1>5. CASE (LoadConfig(p) /\ ~Leave(p)) \/ NoTls(p) \/ StartMdns(p) \/ DropMdns(p)
  <2>1. \/ stage[p] = "config" /\ s = "id"
        \/ stage[p] = "tls" /\ s = "bind" /\ cmd[p].noTls
        \/ stage[p] = "mdns" /\ s \in {"dropMdns", "tls"}
        \/ stage[p] = "dropMdns" /\ s = "tls"
    BY <1>3, <1>5 DEF LoadConfig, NoTls, StartMdns, DropMdns, Goto, StartupTypes, TypeOK
  <2>2. KnowsIdentity(p)' /\ KnowsToken(p)'
    BY <1>2, <1>3, <2>1 DEF Local, KnowsIdentity, Served, Tokens, Late, KnowsToken, histVars
  <2>3. OpenFile(p)' /\ KnowsPair(p)' /\ SparesShown(p)'
    BY <1>2, <1>3, <1>4, <2>1 DEF OpenFile, KnowsPair, SparesShown
  <2> QED BY <1>1, <1>2, <2>2, <2>3, QuietKeeps DEF Local
<1>6. CASE Generate(p)
  <2>1. /\ stage[p] = "tls" => ~cmd[p].noTls
        /\ Missing(p, stage[p])
        /\ \/ stage[p] = "id" /\ s = "writeId"
           \/ stage[p] = "name" /\ s = "writeName"
           \/ stage[p] = "cert" /\ s = "writeCert"
           \/ stage[p] = "token" /\ s = "writeToken"
           \/ stage[p] = "tls" /\ s = "writeTlsCert"
    <3>1. stage[p] \in {"id", "name", "cert", "token", "tls"}
      BY <1>6 DEF Generate
    <3>2. stage'[p] = CASE stage[p] = "id" -> "writeId"
                        [] stage[p] = "name" -> "writeName"
                        [] stage[p] = "cert" -> "writeCert"
                        [] stage[p] = "token" -> "writeToken"
                        [] stage[p] = "tls" -> "writeTlsCert"
      BY <1>6 DEF Generate, Goto, StartupTypes, TypeOK
    <3> QED BY <1>3, <1>6, <3>1, <3>2 DEF Generate
  <2>2. KnowsIdentity(p)' /\ KnowsToken(p)'
    BY <1>2, <1>3, <2>1 DEF Local, KnowsIdentity, Served, Tokens, Late, KnowsToken, histVars
  <2>3. OpenFile(p)' /\ KnowsPair(p)'
    BY <1>2, <1>3, <1>4, <2>1 DEF OpenFile, KnowsPair
  <2>4. SparesShown(p)'
    <3>1. ~Whole(Absent)
      BY DEF Whole, Absent
    <3>2. stage[p] = "id" => disk["id"] = Absent \/ "id" \in used
      BY <2>1 DEF Missing, StartupTypes, GivenUsed
    <3>3. stage[p] = "cert" => shown = {}
      BY <1>3, <2>1, <3>1 DEF Missing, ShownKept
    <3>4. stage[p] = "token" => shown = {}
      BY <1>3, <2>1, <3>1 DEF Missing, ShownKept
    <3>5. stage[p] = "tls" => "tls" \notin modes
      BY <1>3, <2>1, <3>1 DEF Missing, ShownKept
    <3> QED BY <1>2, <1>3, <2>1, <3>1, <3>2, <3>3, <3>4, <3>5 DEF SparesShown, ShownKept, histVars
  <2> QED BY <1>1, <1>2, <2>2, <2>3, <2>4, QuietKeeps DEF Local
<1> QED BY <1>5, <1>6

\* A file is read.
LEMMA ReadKeeps ==
    ASSUME StartupTypes, Calm, NEW p \in Procs,
           ReadId(p) \/ ReadName(p) \/ ReadCert(p) \/ ReadToken(p) \/ ReadTls(p), ~Leave(p)
    PROVE  Calm'
<1>1. PICK s : Goto(p, s)
  BY DEF ReadId, ReadName, ReadCert, ReadToken, ReadTls, Read
<1>2. Starting(p) /\ UNCHANGED <<disk, cmd, fd, histVars>>
  BY DEF ReadId, ReadName, ReadCert, ReadToken, ReadTls, Read, Starting
<1>3. stage'[p] = s /\ Local(p) /\ mem[p] \in Memory /\ cmd[p] \in Commands
  BY <1>1 DEF Goto, StartupTypes, TypeOK, Calm
<1>4. fd[p] = "none"
  BY <1>3 DEF Local, OpenFile, Writing, WriteTo, ReadId, ReadName, ReadCert, ReadToken, ReadTls, Read
<1>5. \A q \in Procs : q # p => mem'[q] = mem[q]
  BY DEF ReadId, ReadName, ReadCert, ReadToken, ReadTls, Read, StartupTypes, TypeOK
<1>6. Local(p)' => Calm'
  BY <1>1, <1>2, <1>5, QuietKeeps
<1>7. CASE ReadId(p)
  <2>1. stage[p] = "id" /\ s = "name" /\ Whole(disk["id"]) /\ mem'[p].id = disk["id"]
    BY <1>3, <1>7 DEF ReadId, Read, Goto, StartupTypes, TypeOK, Memory
  <2>2. Local(p)'
    BY <1>2, <1>3, <1>4, <2>1 DEF Local, OpenFile, KnowsIdentity, Served, Late, Tokens, KnowsToken,
                                  KnowsPair, SparesShown
  <2> QED BY <1>6, <2>2
<1>8. CASE ReadName(p)
  <2>1. stage[p] = "name" /\ s = "cert" /\ mem'[p].id = mem[p].id
    BY <1>3, <1>8 DEF ReadName, Read, Goto, StartupTypes, TypeOK, Memory
  <2>2. Local(p)'
    BY <1>2, <1>3, <1>4, <2>1 DEF Local, OpenFile, KnowsIdentity, Served, Late, Tokens, KnowsToken,
                                  KnowsPair, SparesShown
  <2> QED BY <1>6, <2>2
<1>9. CASE ReadCert(p)
  <2>1. stage[p] = "cert" /\ s = "token" /\ Whole(disk["cert"]) /\ disk["key"] # Absent
        /\ mem'[p].cert = disk["cert"] /\ mem'[p].id = mem[p].id
    BY <1>3, <1>9 DEF ReadCert, Read, Missing, Goto, StartupTypes, TypeOK, Memory
  <2>2. Local(p)'
    BY <1>2, <1>3, <1>4, <2>1 DEF Local, OpenFile, KnowsIdentity, Served, Late, Tokens, KnowsToken,
                                  KnowsPair, SparesShown
  <2> QED BY <1>6, <2>2
<1>10. CASE ReadToken(p)
  <2>1. /\ stage[p] = "token" /\ s = AfterToken(p) /\ Whole(disk["token"]) /\ mem'[p].token = disk["token"]
        /\ mem'[p].cert = mem[p].cert /\ mem'[p].id = mem[p].id
    BY <1>3, <1>10 DEF ReadToken, Read, Goto, StartupTypes, TypeOK, Memory
  <2>2. (s = "mdns" /\ cmd[p].name = "serve") \/ s \in {"rotate", "print"}
    BY <1>3, <2>1 DEF AfterToken, Commands
  <2>3. Local(p)'
    BY <1>2, <1>3, <1>4, <2>1, <2>2 DEF Local, OpenFile, KnowsIdentity, Served, Late, Tokens, KnowsToken,
                                  KnowsPair, SparesShown
  <2> QED BY <1>6, <2>3
<1>11. CASE ReadTls(p)
  <2>1. /\ stage[p] = "tls" /\ s = "bind" /\ Whole(disk["tcert"])
        /\ mem'[p].tcert = disk["tcert"] /\ mem'[p].tkey = disk["tkey"]
        /\ mem'[p].cert = mem[p].cert /\ mem'[p].id = mem[p].id /\ mem'[p].token = mem[p].token
    BY <1>3, <1>11 DEF ReadTls, Goto, StartupTypes, TypeOK, Memory
  <2>2. Local(p)'
    BY <1>2, <1>3, <1>4, <2>1 DEF Local, OpenFile, KnowsIdentity, Served, Late, Tokens, KnowsToken,
                                  KnowsPair, SparesShown, histVars
  <2> QED BY <1>6, <2>2
<1> QED BY <1>7, <1>8, <1>9, <1>10, <1>11

\* Which file a stage writes.
Writes(p, f) ==
    \/ stage[p] = "writeId" /\ f = "id"
    \/ stage[p] = "writeName" /\ f = "name"
    \/ stage[p] = "writeCert" /\ f = "cert"
    \/ stage[p] = "writeKey" /\ f = "key"
    \/ stage[p] \in {"writeToken", "rotate"} /\ f = "tmp"
    \/ stage[p] = "writeTlsCert" /\ f = "tcert"
    \/ stage[p] = "writeTlsKey" /\ f = "tkey"

LEMMA WritesItsOwn == ASSUME NEW p, stage[p] \in Writing PROVE Writes(p, WriteTo[stage[p]])
BY DEF Writes, Writing, WriteTo

\* A file that is written is none that a server has shown.
LEMMA WriteSpares ==
    ASSUME StartupTypes, Calm, NEW p \in Procs, NEW f, Writes(p, f), UNCHANGED <<used, shown, modes>>,
           \A g \in Files : g # f => disk'[g] = disk[g]
    PROVE  /\ ShownKept' /\ disk'["token"] = disk["token"]
           /\ f # "id" => disk'["id"] = disk["id"]
           /\ f # "cert" => disk'["cert"] = disk["cert"]
           /\ f # "key" => disk'["key"] = disk["key"]
           /\ f # "tmp" => disk'["tmp"] = disk["tmp"]
           /\ f # "tcert" => disk'["tcert"] = disk["tcert"]
           /\ f # "tkey" => disk'["tkey"] = disk["tkey"]
<1>1. Local(p) /\ ShownKept
  BY DEF Calm
<1>2. /\ disk'["token"] = disk["token"]
      /\ f # "id" => disk'["id"] = disk["id"]
      /\ f # "cert" => disk'["cert"] = disk["cert"]
      /\ f # "key" => disk'["key"] = disk["key"]
      /\ f # "tmp" => disk'["tmp"] = disk["tmp"]
      /\ f # "tcert" => disk'["tcert"] = disk["tcert"]
      /\ f # "tkey" => disk'["tkey"] = disk["tkey"]
  BY DEF Files, Writes
<1>3. /\ f = "id" => shown = {} \/ "id" \in used
      /\ f \in {"cert", "key"} => shown = {}
      /\ f \in {"tcert", "tkey"} => "tls" \notin modes
  BY <1>1 DEF Local, SparesShown, Writes
<1>4. ShownKept'
  BY <1>1, <1>2, <1>3 DEF ShownKept
<1> QED BY <1>2, <1>4

\* The first half of a write.
LEMMA OpenKeeps == ASSUME StartupTypes, Calm, NEW p \in Procs, Open(p) PROVE Calm'
<1> DEFINE f == WriteTo[stage[p]]
<1>1. Writes(p, f) /\ f \in Files /\ stage[p] \in Writing /\ Local(p)
  BY WritesItsOwn, NextStages DEF Open, Calm
<1>2. /\ fd' = [fd EXCEPT ![p] = f] /\ disk' = [disk EXCEPT ![f] = Torn]
      /\ UNCHANGED <<cmd, stage, mem, used, shown, modes, rotated>>
  BY DEF Open, histVars
<1> HIDE DEF f
<1>3. /\ \A g \in Files : g # f => disk'[g] = disk[g]
      /\ \A q \in Procs : q # p => fd'[q] = fd[q]
      /\ fd'[p] = f
  BY <1>2 DEF StartupTypes, TypeOK
<1>4. /\ ShownKept' /\ disk'["token"] = disk["token"]
      /\ f # "id" => disk'["id"] = disk["id"]
      /\ f # "cert" => disk'["cert"] = disk["cert"]
      /\ f # "tcert" => disk'["tcert"] = disk["tcert"]
  BY <1>1, <1>2, <1>3, WriteSpares
<1>5. f = "key" \/ disk'["key"] = disk["key"]
  BY <1>1, <1>2, <1>3, WriteSpares
<1>6. OpenFile(p)'
  BY <1>1, <1>2, <1>3 DEF OpenFile, f
<1>7. KnowsIdentity(p)' /\ KnowsToken(p)' /\ KnowsPair(p)' /\ SparesShown(p)'
  BY <1>1, <1>2, <1>4, <1>5 DEF Local, KnowsIdentity, Served, Late, Tokens, KnowsToken, KnowsPair,
                               SparesShown, Writes
<1>8. Starting(p) /\ disk'["token"] # Torn
  BY <1>1, <1>4 DEF Starting, Writes, Calm
<1> QED BY <1>2, <1>3, <1>4, <1>6, <1>7, <1>8, AloneKeeps DEF Local

\* The second half.
LEMMA FillKeeps == ASSUME StartupTypes, Calm, NEW p \in Procs, Fill(p) PROVE Calm'
<1> DEFINE f == WriteTo[stage[p]]
<1>1. Writes(p, f) /\ f \in Files /\ stage[p] \in Writing /\ Local(p) /\ mem[p] \in Memory /\ cmd[p] \in Commands
  BY WritesItsOwn, NextStages DEF Fill, Calm, StartupTypes, TypeOK
<1>2. fd[p] = f
  BY <1>1 DEF Local, OpenFile, Fill
<1>3. /\ fd' = [fd EXCEPT ![p] = "none"]
      /\ disk' = [g \in Files |-> IF g = f THEN Fresh(p) ELSE disk[g]]
      /\ mem' = IF f \in {"tmp", "key"} THEN mem ELSE [mem EXCEPT ![p][f] = Fresh(p)]
      /\ stage' = [stage EXCEPT ![p] = AfterWrite(p)]
      /\ UNCHANGED <<cmd, used, shown, modes, rotated>>
  BY <1>2 DEF Fill, Goto, histVars
<1> HIDE DEF f
<1>4. /\ \A g \in Files : g # f => disk'[g] = disk[g]
      /\ disk'[f] = Fresh(p) /\ Whole(Fresh(p)) /\ Fresh(p) # Absent
      /\ \A q \in Procs : q # p => fd'[q] = fd[q] /\ mem'[q] = mem[q] /\ stage'[q] = stage[q]
      /\ fd'[p] = "none" /\ stage'[p] = AfterWrite(p)
  BY <1>1, <1>3, FreshOK DEF StartupTypes, TypeOK, Whole, Absent
<1>5. /\ ShownKept' /\ disk'["token"] = disk["token"]
      /\ f # "id" => disk'["id"] = disk["id"]
      /\ f # "cert" => disk'["cert"] = disk["cert"]
      /\ f # "key" => disk'["key"] = disk["key"]
      /\ f # "tcert" => disk'["tcert"] = disk["tcert"]
  BY <1>1, <1>3, <1>4, WriteSpares
<1>6. Starting(p) /\ disk'["token"] # Torn
  BY <1>1, <1>5 DEF Starting, Writes, Calm
<1>7. Local(p)' => Calm'
  BY <1>3, <1>4, <1>5, <1>6, AloneKeeps
<1>8. /\ f = "id" => mem'[p].id = Fresh(p)
      /\ f # "id" => mem'[p].id = mem[p].id
      /\ f = "cert" => mem'[p].cert = Fresh(p)
      /\ f # "cert" => mem'[p].cert = mem[p].cert
      /\ f = "tcert" => mem'[p].tcert = Fresh(p)
      /\ f # "tcert" => mem'[p].tcert = mem[p].tcert
      /\ f = "tkey" => mem'[p].tkey = Fresh(p)
      /\ mem'[p].token = mem[p].token /\ mem'[p].number = mem[p].number
  BY <1>1, <1>3 DEF StartupTypes, TypeOK, Memory, Writes
<1>9. f = "tmp" => Fresh(p) = mem[p].number
  BY <1>1 DEF Writes, Fresh
<1>10. /\ f = "id" => stage'[p] = "name"
       /\ f = "name" => stage'[p] = "cert"
       /\ f = "cert" => stage'[p] = "writeKey"
       /\ f = "key" => stage'[p] = "token"
       /\ f = "tmp" => \/ stage[p] = "writeToken" /\ stage'[p] = "moveToken"
                       \/ stage[p] = "rotate" /\ stage'[p] = "moveRotated"
       /\ f = "tcert" => stage'[p] = "writeTlsKey"
       /\ f = "tkey" => stage'[p] = "bind"
  BY <1>1, <1>4 DEF AfterWrite, Writes
<1>11. OpenFile(p)' /\ SparesShown(p)'
  BY <1>1, <1>3, <1>4, <1>10 DEF Local, OpenFile, SparesShown, Writes
<1>12. KnowsIdentity(p)'
  BY <1>1, <1>3, <1>4, <1>5, <1>8, <1>10 DEF Local, KnowsIdentity, Served, Late, Tokens, Writes
<1>13. KnowsToken(p)'
  BY <1>1, <1>3, <1>4, <1>5, <1>8, <1>9, <1>10 DEF Local, KnowsToken, Late, Writes
<1>14. KnowsPair(p)'
  BY <1>1, <1>3, <1>4, <1>5, <1>8, <1>10 DEF Local, KnowsPair, Writes
<1> QED BY <1>7, <1>11, <1>12, <1>13, <1>14 DEF Local

\* The token is renamed into place.
LEMMA MoveKeeps == ASSUME StartupTypes, Calm, NEW p \in Procs, Move(p), ~Leave(p) PROVE Calm'
<1>1. /\ stage[p] \in {"moveToken", "moveRotated"} /\ Local(p) /\ mem[p] \in Memory /\ cmd[p] \in Commands
      /\ disk["tmp"] # Absent /\ Rename /\ disk["tmp"] = mem[p].number /\ fd[p] = "none"
  BY DEF Move, Calm, Local, KnowsToken, OpenFile, Writing, WriteTo, StartupTypes, TypeOK
<1>2. Whole(mem[p].number) /\ mem[p].number # Torn
  BY <1>1 DEF Memory, Whole, Torn
<1>3. /\ disk'["token"] = mem[p].number
      /\ \A f \in {"id", "cert", "key", "tcert", "tkey"} : disk'[f] = disk[f]
  BY <1>1 DEF Rename, StartupTypes, TypeOK, Files
<1>4. \A q \in Procs : q # p => /\ stage[q] \in {"off", "listening"} /\ fd[q] = "none" /\ fd'[q] = fd[q]
  BY <1>1 DEF Calm, Alone, Starting, Local, OpenFile, Writing, WriteTo, Rename
<1>5. /\ \A q \in Procs : q # p => mem'[q] = mem[q] /\ stage'[q] = stage[q]
      /\ mem'[p].token = mem[p].number /\ mem'[p].id = mem[p].id /\ mem'[p].cert = mem[p].cert
      /\ stage'[p] = (IF stage[p] = "moveToken" THEN AfterToken(p) ELSE "print")
      /\ UNCHANGED <<cmd, used, shown, modes>>
  BY <1>1 DEF Move, Goto, StartupTypes, TypeOK, Memory
<1>6. rotated' = IF stage[p] = "moveToken" THEN rotated ELSE {q \in Procs : mem[q].token # Absent} \ {p}
  BY <1>1 DEF Move
<1>7. fd'[p] = "none"
  BY <1>1 DEF Rename
<1>8. stage'[p] \in {"mdns", "rotate", "print"}
      /\ (stage'[p] = "mdns" => cmd[p].name = "serve" /\ stage[p] = "moveToken")
  BY <1>1, <1>5 DEF AfterToken, Commands
<1>9. stage[p] = "moveToken" => shown = {}
  BY <1>1 DEF Local, SparesShown
<1>10. ShownKept'
  BY <1>1, <1>2, <1>3, <1>5 DEF Calm, ShownKept
<1>11. \A q \in Procs : q # p /\ stage[q] = "listening" => q \in rotated'
  <2> SUFFICES ASSUME NEW q \in Procs, q # p, stage[q] = "listening" PROVE q \in rotated'
    OBVIOUS
  <2>1. Whole(mem[q].token) /\ shown # {}
    BY DEF Calm, Local, KnowsToken, SparesShown
  <2> QED BY <1>1, <1>6, <1>9, <2>1 DEF Whole, Absent
<1>12. Local(p)'
  BY <1>1, <1>2, <1>3, <1>5, <1>7, <1>8 DEF Local, OpenFile, KnowsIdentity, Served, Late, Tokens, KnowsToken,
                                           KnowsPair, SparesShown
<1> QED BY <1>1, <1>2, <1>3, <1>4, <1>5, <1>10, <1>11, <1>12, AloneKeeps DEF Starting, StartupTypes, TypeOK

\* A server that binds shows what is on the disk.
LEMMA BindKeeps == ASSUME StartupTypes, Calm, NEW p \in Procs, Bind(p), ~Leave(p) PROVE Calm'
<1>1. /\ stage[p] = "bind" /\ Usable(p) /\ stage' = [stage EXCEPT ![p] = "listening"]
      /\ shown' = shown \cup {[id |-> mem[p].id, cert |-> mem[p].cert, given |-> "id" \in cmd[p].given]}
      /\ modes' = modes \cup {IF cmd[p].noTls THEN "plain" ELSE "tls"}
      /\ UNCHANGED <<disk, cmd, mem, fd, used, rotated>>
  BY DEF Bind, Goto
<1>2. Local(p) /\ Served(p) /\ Starting(p)
  BY <1>1 DEF Calm, Served, Late, Starting
<1>3. /\ Whole(disk["id"]) /\ mem[p].id = disk["id"] /\ Whole(disk["cert"]) /\ mem[p].cert = disk["cert"]
      /\ disk["key"] # Absent /\ Whole(disk["token"]) /\ fd[p] = "none"
      /\ Whole(mem[p].token) /\ (mem[p].token = disk["token"] \/ p \in rotated)
  BY <1>1, <1>2 DEF Local, KnowsIdentity, KnowsToken, Late, OpenFile, Writing, WriteTo
<1>4. "tls" \in modes' => Whole(disk["tcert"]) /\ disk["tcert"] = disk["tkey"]
  BY <1>1, <1>2 DEF Local, KnowsPair, Usable, Calm, ShownKept
<1>5. \A a \in shown' : a.cert = disk["cert"] /\ (a.id = disk["id"] \/ "id" \in used)
  BY <1>1, <1>3 DEF Calm, ShownKept
<1>6. ShownKept'
  BY <1>1, <1>3, <1>4, <1>5 DEF ShownKept
<1>7. stage'[p] = "listening" /\ shown' # {}
  BY <1>1 DEF StartupTypes, TypeOK
<1>8. Local(p)'
  BY <1>1, <1>3, <1>7 DEF Local, OpenFile, KnowsIdentity, Served, Late, Tokens, KnowsToken, KnowsPair,
                         SparesShown
<1>9. \A q \in Procs : q # p => stage'[q] = stage[q] /\ mem'[q] = mem[q] /\ fd'[q] = fd[q]
  BY <1>1 DEF StartupTypes, TypeOK
<1>10. shown \subseteq shown' /\ disk'["token"] = disk["token"] /\ disk'["token"] # Torn /\ rotated' = rotated
  BY <1>1 DEF Calm
<1> QED BY <1>2, <1>6, <1>8, <1>9, <1>10, AloneKeeps

\* Every step keeps the invariant.
LEMMA StepInv == ASSUME StartupInv, [Next]_vars PROVE StartupInv'
<1>1. StartupTypes'
  BY StepTypes DEF StartupInv
<1>2. ASSUME ~collided' PROVE Calm'
  <2>1. CASE UNCHANGED vars
    <3>1. Calm
      BY <1>2, <2>1 DEF vars, histVars, StartupInv
    <3>2. UNCHANGED <<disk, cmd, stage, mem, fd, used, shown, modes, rotated>>
      BY <2>1 DEF vars, procVars, histVars
    <3> QED BY <3>1, <3>2 DEF Calm, Alone, Starting, ShownKept, Local, OpenFile, KnowsIdentity, Served,
                             KnowsToken, KnowsPair, SparesShown
  <2>2. ASSUME NEW p \in Procs, NEW c \in Offered, Start(p, c) PROVE Calm'
    BY <1>2, <2>2, StartKeeps DEF StartupInv
  <2>3. ASSUME NEW p \in Procs, Step(p) \/ Crash(p) PROVE Calm'
    <3>1. collided' = collided
      BY <2>3 DEF Step, Crash, Leave, LoadConfig, Generate, ReadId, ReadName, ReadCert, ReadToken, Read,
                  ReadTls, NoTls, Open, Fill, Move, PrintToken, StartMdns, DropMdns, Bind, histVars
    <3>2. StartupTypes /\ Calm
      BY <1>2, <3>1 DEF StartupInv
    <3>3. CASE Leave(p)
      BY <3>2, <3>3, LeaveKeeps
    <3>4. CASE ~Leave(p)
      BY <2>3, <3>2, <3>4, PassKeeps, ReadKeeps, OpenKeeps, FillKeeps, MoveKeeps, BindKeeps
         DEF Step, Crash, PrintToken
    <3> QED BY <3>3, <3>4
  <2> QED BY <2>1, <2>2, <2>3 DEF Next
<1> QED BY <1>1, <1>2 DEF StartupInv

\* Whatever dies, servers started one after the other show one certificate and,
\* but for those that are given one, one device id ...
THEOREM IdentityIsKept == Spec => []IdentityKept
<1>1. StartupInv => IdentityKept
  BY DEF StartupInv, Calm, ShownKept, IdentityKept
<1>2. Init => StartupInv
  BY InitTypes, InitCalm DEF StartupInv
<1> QED BY <1>1, <1>2, StepInv, PTL DEF Spec

\* ... the next one can start ...
THEOREM NextStartSucceeds == Spec => []StaysStartable
<1>1. StartupInv => StaysStartable
  BY DEF StartupInv, Calm, ShownKept, StaysStartable
<1>2. Init => StartupInv
  BY InitTypes, InitCalm DEF StartupInv
<1> QED BY <1>1, <1>2, StepInv, PTL DEF Spec

\* ... and one that listens accepts the token of the file until it is rotated.
THEOREM TokenStaysInStep == Spec => []TokenInStep
<1>1. StartupInv => TokenInStep
  BY DEF StartupInv, Calm, Local, KnowsToken, TokenInStep
<1>2. Init => StartupInv
  BY InitTypes, InitCalm DEF StartupInv
<1> QED BY <1>1, <1>2, StepInv, PTL DEF Spec
================================================================================
