-------------------------------- MODULE Startup --------------------------------
(***************************************************************************)
(* The start of the message-center, and its command line for the display   *)
(* token, as processes that share one data directory:                      *)
(*   - main.rs: configuration, identity, token, mDNS, TLS, bind;           *)
(*   - identity.rs and cert_loader.rs: files that are loaded, or generated *)
(*     and written in place;                                               *)
(*   - display_auth.rs: the token file, written aside and renamed;         *)
(*   - mdns_service.rs, mdns.rs: the advertisement and its handle.         *)
(* A process may be killed, or a system call of it fail, between any two   *)
(* steps. std::fs::write is two steps: opening truncates the file.         *)
(*                                                                         *)
(* What a process generates is named by the number of its start, so two    *)
(* files hold the halves of one key pair iff they hold the same number.    *)
(***************************************************************************)
EXTENDS Integers, FiniteSets

CONSTANTS Procs,         \* processes of the message-center's binary
          Offered,       \* bound: the command lines they are started with
          MaxStarts,     \* bound: processes started in all
          MaxTogether,   \* bound: processes started in all, once two have started together
          MaxCrashes     \* bound: processes that die

ASSUME StartupAssumption == MaxStarts \in Nat /\ MaxTogether \in Nat /\ MaxCrashes \in Nat

VARIABLES
    config,    \* what the configuration file says
    disk,      \* the files, each a number, Absent or Torn
    cmd,       \* the command of each process, and its flags
    stage,     \* where each process is
    mem,       \* what each process has loaded or generated
    fd,        \* the file each process has open for writing
    mdns,      \* the service each process advertises
    starts,    \* processes started so far
    crashes,   \* processes that have died so far
    used,      \* history: flags given so far
    collided,  \* history: a process started while another was starting
    shown,     \* history: identities the servers that listened have shown
    modes,     \* history: modes in which a server has listened
    rotated    \* history: processes whose token was rotated after they had it

procVars == <<cmd, stage, mem, fd, mdns>>
histVars == <<starts, crashes, used, collided, shown, modes, rotated>>
vars == <<config, disk, procVars, histVars>>

-----------------------------------------------------------------------------
Files    == {"id", "name", "cert", "key", "token", "tmp", "tcert", "tkey"}
Absent   == -2
Torn     == -1
Given    == 0      \* what the operator gave: an id, a name, a certificate
Contents == {Absent, Torn} \cup 0 .. MaxStarts
Whole(c) == c >= 0
Configs  == {"plain", "other bind", "bad bind", "garbled"}

\* Mutant: the token is written under its own name.
WriteToInPlace == [writeId |-> "id", writeName |-> "name", writeCert |-> "cert", writeKey |-> "key",
                   writeToken |-> "token", rotate |-> "token", writeTlsCert |-> "tcert",
                   writeTlsKey |-> "tkey"]

\* The stages of main(), with the file a writing stage writes.
WriteTo == [writeId |-> "id", writeName |-> "name", writeCert |-> "cert", writeKey |-> "key",
            writeToken |-> "tmp", rotate |-> "tmp", writeTlsCert |-> "tcert", writeTlsKey |-> "tkey"]
Writing == DOMAIN WriteTo
Stages  == Writing \cup {"off", "config", "id", "name", "cert", "token", "moveToken", "moveRotated",
                         "print", "mdns", "dropMdns", "tls", "bind", "listening"}

\* AppState, the part that start-up fills in.
Memory == [number : 0 .. MaxStarts, id : Contents, name : Contents, cert : Contents,
           token : Contents, tcert : Contents, tkey : Contents]
Blank(n) == [number |-> n, id |-> Absent, name |-> Absent, cert |-> Absent,
             token |-> Absent, tcert |-> Absent, tkey |-> Absent]

Flags    == {"id", "name", "bind"}
Commands == [name : {"serve", "print", "rotate"}, noTls : BOOLEAN, given : SUBSET Flags]
ASSUME OfferedAssumption == Offered \subseteq Commands

Idle     == [name |-> "print", noTls |-> FALSE, given |-> {}]

\* The port of the bind address: --bind's (here the default one, said aloud),
\* else the configuration's; only an unsaid default moves to HTTP's port. An
\* address that does not parse is advertised with the default port.
Port(conf, c) == CASE "bind" \in c.given  -> 8443
                   [] conf = "other bind" -> 9443
                   [] conf = "bad bind"   -> 8443
                   [] OTHER               -> IF c.noTls THEN 8080 ELSE 8443
Unbindable(conf, c) == conf = "bad bind" /\ "bind" \notin c.given
Quiet == [on |-> FALSE, id |-> Absent, name |-> Absent, cert |-> Absent, port |-> 0]

\* daemon_txt: what the advertisement says.
DaemonTxt(p) == [on |-> TRUE, id |-> mem[p].id, name |-> mem[p].name, cert |-> mem[p].cert,
                 port |-> Port(config, cmd[p])]

\* The operator may have put a certificate of their own, with or without its
\* key, where the server looks for one.
Init ==
    /\ config \in Configs
    /\ \E pair \in {<<Absent, Absent>>, <<Given, Given>>, <<Given, Absent>>} :
           disk = [f \in Files |-> CASE f = "tcert" -> pair[1]
                                     [] f = "tkey" -> pair[2]
                                     [] OTHER -> Absent]
    /\ cmd = [p \in Procs |-> Idle] /\ stage = [p \in Procs |-> "off"]
    /\ mem = [p \in Procs |-> Blank(0)] /\ fd = [p \in Procs |-> "none"]
    /\ mdns = [p \in Procs |-> Quiet]
    /\ starts = 0 /\ crashes = 0 /\ used = {} /\ collided = FALSE
    /\ shown = {} /\ modes = {} /\ rotated = {}

-----------------------------------------------------------------------------
Starting(q) == stage[q] \notin {"off", "listening"}

\* main() parses its arguments. The token commands skip the rest of start-up.
Start(p, c) ==
    /\ stage[p] = "off" /\ starts < MaxStarts
    /\ (collided \/ \E q \in Procs : Starting(q)) => starts < MaxTogether
    /\ starts' = starts + 1
    /\ cmd' = [cmd EXCEPT ![p] = c]
    /\ mem' = [mem EXCEPT ![p] = Blank(starts + 1)]
    /\ stage' = [stage EXCEPT ![p] = IF c.name = "serve" THEN "config" ELSE "token"]
    /\ used' = used \cup c.given
    /\ collided' = (collided \/ \E q \in Procs : Starting(q))
    /\ UNCHANGED <<config, disk, fd, mdns, crashes, shown, modes, rotated>>

Goto(p, s) == stage' = [stage EXCEPT ![p] = s]

\* Mutant: the advertisement outlives its process.
LeaveAdvertised(p) ==
    /\ Goto(p, "off")
    /\ cmd' = [cmd EXCEPT ![p] = Idle] /\ mem' = [mem EXCEPT ![p] = Blank(0)]
    /\ fd' = [fd EXCEPT ![p] = "none"] /\ rotated' = rotated \ {p}
    /\ UNCHANGED <<config, disk, mdns, starts, used, collided, shown, modes>>

\* main() returns, with or without an error; its memory and handles go.
Leave(p) ==
    /\ Goto(p, "off")
    /\ cmd' = [cmd EXCEPT ![p] = Idle] /\ mem' = [mem EXCEPT ![p] = Blank(0)]
    /\ mdns' = [mdns EXCEPT ![p] = Quiet] /\ fd' = [fd EXCEPT ![p] = "none"]
    /\ rotated' = rotated \ {p}
    /\ UNCHANGED <<config, disk, starts, used, collided, shown, modes>>

\* The process is killed, or a system call fails: what it was writing stays torn.
Crash(p) ==
    /\ stage[p] # "off" /\ crashes < MaxCrashes
    /\ crashes' = crashes + 1
    /\ Leave(p)

\* Config::load_from_file; the database is opened next.
LoadConfig(p) ==
    /\ stage[p] = "config"
    /\ IF config = "garbled"
       THEN Leave(p) /\ UNCHANGED crashes
       ELSE Goto(p, "id") /\ UNCHANGED <<config, disk, cmd, mem, fd, mdns, histVars>>

-----------------------------------------------------------------------------
(***************************************************************************)
(* Load, or generate and write.                                            *)
(***************************************************************************)
\* Mutant: a certificate without its key file is loaded.
MissingOneOf(p, s) == CASE s = "id" -> "id" \in cmd[p].given \/ disk["id"] = Absent
                   [] s = "name" -> "name" \in cmd[p].given \/ disk["name"] = Absent
                   [] s = "cert" -> disk["cert"] = Absent
                   [] s = "token" -> disk["token"] = Absent
                   [] s = "tls" -> disk["tcert"] = Absent

\* Mutant: the server writes a new identity every time it starts.
MissingAlways(p, s) == CASE s = "id" -> "id" \in cmd[p].given \/ disk["id"] = Absent
                   [] s = "name" -> "name" \in cmd[p].given \/ disk["name"] = Absent
                   [] s = "cert" -> TRUE
                   [] s = "token" -> disk["token"] = Absent
                   [] s = "tls" -> disk["tcert"] = Absent \/ disk["tkey"] = Absent

\* When the file of a stage is to be written. A certificate is reused only if
\* the file of its key exists too; otherwise both are written anew.
Missing(p, s) == CASE s = "id" -> "id" \in cmd[p].given \/ disk["id"] = Absent
                   [] s = "name" -> "name" \in cmd[p].given \/ disk["name"] = Absent
                   [] s = "cert" -> disk["cert"] = Absent \/ disk["key"] = Absent
                   [] s = "token" -> disk["token"] = Absent
                   [] s = "tls" -> disk["tcert"] = Absent \/ disk["tkey"] = Absent

Generate(p) ==
    /\ stage[p] \in {"id", "name", "cert", "token", "tls"}
    /\ stage[p] = "tls" => ~cmd[p].noTls
    /\ Missing(p, stage[p])
    /\ Goto(p, CASE stage[p] = "id" -> "writeId"
                 [] stage[p] = "name" -> "writeName"
                 [] stage[p] = "cert" -> "writeCert"
                 [] stage[p] = "token" -> "writeToken"
                 [] stage[p] = "tls" -> "writeTlsCert")
    /\ UNCHANGED <<config, disk, cmd, mem, fd, mdns, histVars>>

\* The stage after the token: the commands rotate it or print it.
AfterToken(p) == CASE cmd[p].name = "serve" -> "mdns"
                   [] cmd[p].name = "rotate" -> "rotate"
                   [] cmd[p].name = "print" -> "print"

Read(p, s, f, next) ==
    /\ stage[p] = s /\ ~Missing(p, s)
    /\ IF Whole(disk[f]) \/ f = "name"
       THEN /\ mem' = [mem EXCEPT ![p][f] = disk[f]] /\ Goto(p, next)
            /\ UNCHANGED <<config, disk, cmd, fd, mdns, histVars>>
       ELSE Leave(p) /\ UNCHANGED crashes

\* identity::load_or_create. An empty id does not parse and is fatal; an empty
\* name is a name; of the certificate's two files only one is read.
ReadId(p)   == Read(p, "id", "id", "name")
ReadName(p) == Read(p, "name", "name", "cert")
ReadCert(p) == Read(p, "cert", "cert", "token")

\* DisplayAuth::load_or_generate: an empty file is fatal.
ReadToken(p) == Read(p, "token", "token", AfterToken(p))

\* cert_loader::load_or_generate parses the certificate only.
ReadTls(p) ==
    /\ stage[p] = "tls" /\ ~cmd[p].noTls /\ ~Missing(p, "tls")
    /\ IF Whole(disk["tcert"])
       THEN /\ mem' = [mem EXCEPT ![p].tcert = disk["tcert"], ![p].tkey = disk["tkey"]]
            /\ Goto(p, "bind")
            /\ UNCHANGED <<config, disk, cmd, fd, mdns, histVars>>
       ELSE Leave(p) /\ UNCHANGED crashes

NoTls(p) ==
    /\ stage[p] = "tls" /\ cmd[p].noTls /\ Goto(p, "bind")
    /\ UNCHANGED <<config, disk, cmd, mem, fd, mdns, histVars>>

\* std::fs::write, first half: open, which truncates or creates the file.
Open(p) ==
    /\ stage[p] \in Writing /\ fd[p] = "none"
    /\ fd' = [fd EXCEPT ![p] = WriteTo[stage[p]]]
    /\ disk' = [disk EXCEPT ![WriteTo[stage[p]]] = Torn]
    /\ UNCHANGED <<config, cmd, stage, mem, mdns, histVars>>

\* What a stage writes: a flag's value, or one of this start's.
Fresh(p) == IF \/ stage[p] = "writeId" /\ "id" \in cmd[p].given
               \/ stage[p] = "writeName" /\ "name" \in cmd[p].given
            THEN Given ELSE mem[p].number

\* The stage after a write.
AfterWrite(p) ==
    CASE stage[p] = "writeId" -> "name" [] stage[p] = "writeName" -> "cert"
      [] stage[p] = "writeCert" -> "writeKey" [] stage[p] = "writeKey" -> "token"
      [] stage[p] = "writeToken" -> "moveToken" [] stage[p] = "rotate" -> "moveRotated"
      [] stage[p] = "writeTlsCert" -> "writeTlsKey" [] stage[p] = "writeTlsKey" -> "bind"

\* ... second half: the content reaches the open file, under whatever name it
\* has by now. The token is kept in memory only after the rename.
Fill(p) ==
    /\ stage[p] \in Writing /\ fd[p] # "none"
    /\ disk' = [f \in Files |-> IF f = fd[p] THEN Fresh(p) ELSE disk[f]]
    /\ fd' = [fd EXCEPT ![p] = "none"]
    /\ mem' = IF WriteTo[stage[p]] \in {"tmp", "key"} THEN mem
              ELSE [mem EXCEPT ![p][WriteTo[stage[p]]] = Fresh(p)]
    /\ Goto(p, AfterWrite(p))
    /\ UNCHANGED <<config, cmd, mdns, histVars>>

\* write_token_file's rename. A process that has the old name open goes on
\* writing under the new one.
Rename ==
    /\ disk' = [disk EXCEPT !["token"] = disk["tmp"], !["tmp"] = Absent]
    /\ fd' = [q \in Procs |-> CASE fd[q] = "tmp" -> "token"
                                [] fd[q] = "token" -> "gone"
                                [] OTHER -> fd[q]]

\* The new token is in place; a rename whose source is gone is an error.
Move(p) ==
    /\ stage[p] \in {"moveToken", "moveRotated"}
    /\ IF disk["tmp"] = Absent
       THEN Leave(p) /\ UNCHANGED crashes
       ELSE /\ Rename
            /\ mem' = [mem EXCEPT ![p].token = mem[p].number]
            /\ Goto(p, IF stage[p] = "moveToken" THEN AfterToken(p) ELSE "print")
            /\ rotated' = IF stage[p] = "moveToken" THEN rotated
                          ELSE {q \in Procs : mem[q].token # Absent} \ {p}
            /\ UNCHANGED <<config, cmd, mdns, starts, crashes, used, collided, shown, modes>>

\* The token is printed and the command ends.
PrintToken(p) == stage[p] = "print" /\ Leave(p) /\ UNCHANGED crashes

-----------------------------------------------------------------------------
\* What the advertisement registers.
Advertise(p) == mdns' = [mdns EXCEPT ![p] = DaemonTxt(p)]

\* mdns_service::start, unless discovery is disabled; an error is only logged.
StartMdns(p) ==
    /\ stage[p] = "mdns"
    /\ \/ Advertise(p) /\ Goto(p, "dropMdns")
       \/ UNCHANGED mdns /\ Goto(p, "tls")
    /\ UNCHANGED <<config, disk, cmd, mem, fd, histVars>>

\* The handle is bound inside the arm of a match: dropping it at the end of
\* the arm shuts the advertisement down.
DropMdns(p) ==
    /\ stage[p] = "dropMdns"
    /\ mdns' = [mdns EXCEPT ![p] = Quiet] /\ Goto(p, "tls")
    /\ UNCHANGED <<config, disk, cmd, mem, fd, histVars>>

\* The two halves of a pair, as rustls checks them.
Usable(p) == cmd[p].noTls \/ (Whole(mem[p].tkey) /\ mem[p].tcert = mem[p].tkey)

\* The address is parsed, the key pair built and the port bound.
Bind(p) ==
    /\ stage[p] = "bind"
    /\ IF \/ Unbindable(config, cmd[p]) \/ ~Usable(p)
          \/ \E q \in Procs : stage[q] = "listening" /\ Port(config, cmd[q]) = Port(config, cmd[p])
       THEN Leave(p) /\ UNCHANGED crashes
       ELSE /\ Goto(p, "listening")
            /\ shown' = shown \cup {[id |-> mem[p].id, cert |-> mem[p].cert,
                                     given |-> "id" \in cmd[p].given]}
            /\ modes' = modes \cup {IF cmd[p].noTls THEN "plain" ELSE "tls"}
            /\ UNCHANGED <<config, disk, cmd, mem, fd, mdns, starts, crashes, used, collided,
                           rotated>>

Step(p) ==
    \/ LoadConfig(p) \/ Generate(p) \/ ReadId(p) \/ ReadName(p) \/ ReadCert(p) \/ ReadToken(p)
    \/ ReadTls(p) \/ NoTls(p) \/ Open(p) \/ Fill(p) \/ Move(p) \/ PrintToken(p)
    \/ StartMdns(p) \/ DropMdns(p) \/ Bind(p)

Next == \E p \in Procs : Step(p) \/ Crash(p) \/ \E c \in Offered : Start(p, c)

Spec == Init /\ [][Next]_vars

-----------------------------------------------------------------------------
(***************************************************************************)
(* Properties.                                                             *)
(***************************************************************************)
\* Type of every variable of start-up.
TypeOK ==
    /\ config \in Configs /\ disk \in [Files -> Contents]
    /\ cmd \in [Procs -> Commands] /\ stage \in [Procs -> Stages] /\ mem \in [Procs -> Memory]
    /\ fd \in [Procs -> Files \cup {"none", "gone"}]
    /\ \A p \in Procs : mdns[p] = Quiet \/ mdns[p] = DaemonTxt(p)
    /\ starts \in 0 .. MaxStarts /\ crashes \in 0 .. MaxCrashes
    /\ used \subseteq Flags /\ collided \in BOOLEAN
    /\ shown \subseteq [id : Contents, cert : Contents, given : BOOLEAN]
    /\ modes \subseteq {"plain", "tls"} /\ rotated \subseteq Procs

\* All servers that have listened have shown one certificate, and one device
\* id but for those that were given theirs or came after them: phones that
\* pinned it know the server again, whatever died in between (identity.rs).
IdentityKept ==
    ~collided => \A a, b \in shown : /\ a.cert = b.cert
                                     /\ a.id = b.id \/ "id" \in used

\* Once a server has listened no death of a process keeps the next one from
\* starting: every file it cannot do without stays whole, the two halves of
\* the key pair together. Only --device-id rewrites a file in place later, and
\* only that file can be torn (identity.rs:50, cert_loader.rs).
StaysStartable ==
    ~collided /\ shown # {} =>
        /\ \A f \in {"cert", "token"} : Whole(disk[f])
        /\ disk["key"] # Absent
        /\ Whole(disk["id"]) \/ "id" \in used
        /\ "tls" \in modes => Whole(disk["tcert"]) /\ disk["tcert"] = disk["tkey"]

\* "Writes atomically (write-to-temp + rename) so a crash mid-rotate cannot
\* leave the file half-written" (display_auth.rs): no death of a process leaves
\* the token file torn, and a server that listens accepts the token in it
\* unless it was rotated since: a running server never learns of a rotation by
\* the command line (main.rs:90-104). Processes that started together share
\* the temporary file, and for them neither holds.
TokenInStep ==
    ~collided => /\ disk["token"] # Torn
                 /\ \A p \in Procs : stage[p] = "listening" =>
                        mem[p].token = disk["token"] \/ p \in rotated
=============================================================================
