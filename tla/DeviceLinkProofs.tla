--------------------------- MODULE DeviceLinkProofs ---------------------------
(***************************************************************************)
(* Proofs about DeviceLink for any sets of devices, connections and        *)
(* requests and any channel capacity.                                      *)
(***************************************************************************)
EXTENDS DeviceLink, TLAPS

\* States of a handler whose connection the registry may lead to.
Registrable == {"open", "hello", "replying", "leaving", "failed"}

\* A connection is idle or fully set up.
SetUp(c) ==
    /\ conn[c] = "none" => /\ owner[c] = NoDev /\ sock[c] = "none"
                           /\ outbox[c] = <<>> /\ delivered[c] = <<>>
                           /\ holder[c] = NoDev
    /\ conn[c] # "none" => owner[c] \in Devices /\ sock[c] # "none"
    /\ holder[c] # NoDev => holder[c] = owner[c]
    /\ conn[c] = "leaving" => holder[c] # NoDev

\* A registry entry leads to a connection that said hello with that id.
RegistryLeads(d) ==
    registry[d] # NoConn =>
        /\ owner[registry[d]] = d
        /\ holder[registry[d]] = d
        /\ conn[registry[d]] \in Registrable

\* A request that got past the lookup holds a channel of its device.
RequestAimed(m) ==
    req[m] \in {"holding", "ok"} =>
        target[m] \in Conns /\ to[m] \in Devices /\ owner[target[m]] = to[m]

\* What a channel carries was accepted for it.
ChannelCarries(c, m) == Carries(c, m) => req[m] = "ok" /\ target[m] = c

\* The hello is still ahead, or has been received.
HelloAhead(c) ==
    /\ sock[c] = "up" /\ delivered[c] = <<>> => outbox[c] # <<>> /\ Head(outbox[c]) = Hello
    /\ delivered[c] # <<>> => Head(delivered[c]) = Hello

\* The inductive invariant.
LinkInv ==
    /\ TypeOK
    /\ \A c \in Conns : SetUp(c)
    /\ \A d \in Devices : RegistryLeads(d)
    /\ \A m \in Msgs : RequestAimed(m)
    /\ \A c \in Conns, m \in Msgs : ChannelCarries(c, m)
    /\ \A c \in Conns : HelloAhead(c)

-----------------------------------------------------------------------------
\* What Append adds to a channel: only the new envelope is new, and the head
\* of a non-empty channel stays where it is.
LEMMA AppendFacts ==
    ASSUME NEW S, NEW s \in Seq(S), NEW e \in S
    PROVE  /\ \A x : (\E i \in DOMAIN Append(s, e) : Append(s, e)[i] = x)
                       => x = e \/ \E i \in DOMAIN s : s[i] = x
           /\ Append(s, e) # <<>>
           /\ s # <<>> => Head(Append(s, e)) = Head(s)
<1>1. /\ DOMAIN s = 1..Len(s) /\ Len(s) \in Nat
      /\ DOMAIN Append(s, e) = 1..(Len(s) + 1)
      /\ Append(s, e) \in Seq(S) /\ Len(Append(s, e)) = Len(s) + 1
      /\ Append(s, e)[Len(s) + 1] = e
      /\ \A i \in 1..Len(s) : Append(s, e)[i] = s[i]
  OBVIOUS
<1>2. \A i \in 1..(Len(s) + 1) : i = Len(s) + 1 \/ i \in 1..Len(s)
  BY <1>1
<1>3. ASSUME s # <<>> PROVE Head(Append(s, e)) = Head(s)
  BY <1>1, <1>3
<1> QED BY <1>1, <1>2, <1>3

-----------------------------------------------------------------------------
\* Types survive a step of any component: the reader, the writer and the REST
\* requests keep their states, ids and channels within range, and no channel
\* exceeds its capacity.
LEMMA TypeStep == ASSUME TypeOK, \A c \in Conns : SetUp(c), [Next]_vars PROVE TypeOK'
<1> USE ConstantsAssumption DEF ConstantsAssumption, TypeOK, ConnStates, SockStates, Frames, Items, ReqStates
<1>1. ASSUME NEW c \in Conns, NEW d \in Devices, Connect(c, d) PROVE TypeOK'
  BY <1>1 DEF Connect, reqVars
<1>2. ASSUME NEW c \in Conns, NEW f \in Frames, PhoneSend(c, f) PROVE TypeOK'
  BY <1>2 DEF PhoneSend, chanVars, reqVars
<1>3. ASSUME NEW c \in Conns, PhoneClose(c) PROVE TypeOK'
  BY <1>3 DEF PhoneClose, chanVars, reqVars
<1>4. ASSUME NEW c \in Conns, NetDrop(c) PROVE TypeOK'
  BY <1>4 DEF NetDrop, chanVars, reqVars
<1>5. ASSUME NEW c \in Conns, ReadHello(c) PROVE TypeOK'
  BY <1>5 DEF ReadHello, NextFrame, chanVars, reqVars
<1>6. ASSUME NEW c \in Conns, Register(c) PROVE TypeOK'
  BY <1>6 DEF Register, SetUp, chanVars, reqVars
<1>7. ASSUME NEW c \in Conns, ReadBeat(c) PROVE TypeOK'
  BY <1>7 DEF ReadBeat, NextFrame, chanVars, reqVars
<1>8. ASSUME NEW c \in Conns, SendReply(c) PROVE TypeOK'
  <2>1. CASE HasRoom(c) /\ outbox' = [outbox EXCEPT ![c] = Append(@, Reply)]
    <3>1. Append(outbox[c], Reply) \in Seq(Items) /\ Len(Append(outbox[c], Reply)) <= OutboxCap
      BY <2>1 DEF HasRoom
    <3> QED BY <1>8, <2>1, <3>1 DEF SendReply, reqVars
  <2>2. CASE UNCHANGED outbox
    BY <1>8, <2>2 DEF SendReply, reqVars
  <2> QED BY <1>8, <2>1, <2>2 DEF SendReply
<1>9. ASSUME NEW c \in Conns, ReadClose(c) PROVE TypeOK'
  BY <1>9 DEF ReadClose, chanVars, reqVars
<1>10. ASSUME NEW c \in Conns, ReadError(c) PROVE TypeOK'
  BY <1>10 DEF ReadError, chanVars, reqVars
<1>11. ASSUME NEW c \in Conns, Unregister(c) PROVE TypeOK'
  BY <1>11 DEF Unregister, chanVars, reqVars
<1>12. ASSUME NEW c \in Conns, DropSender(c) PROVE TypeOK'
  BY <1>12 DEF DropSender, chanVars, reqVars
<1>13. ASSUME NEW c \in Conns, Finish(c) PROVE TypeOK'
  BY <1>13 DEF Finish, chanVars, reqVars
<1>14. ASSUME NEW c \in Conns, Write(c) PROVE TypeOK'
  BY <1>14 DEF Write, Sending, connVars, reqVars
<1>15. ASSUME NEW c \in Conns, WriteIntoVoid(c) PROVE TypeOK'
  BY <1>15 DEF WriteIntoVoid, Sending, connVars, reqVars
<1>16. ASSUME NEW c \in Conns, WriteError(c) PROVE TypeOK'
  BY <1>16 DEF WriteError, Sending, connVars, reqVars
<1>17. ASSUME NEW c \in Conns, WriterEnd(c) PROVE TypeOK'
  BY <1>17 DEF WriterEnd, connVars, reqVars
<1>18. ASSUME NEW m \in Msgs, NEW d \in Devices, Lookup(m, d) PROVE TypeOK'
  BY <1>18 DEF Lookup, connVars, chanVars
<1>19. ASSUME NEW m \in Msgs, TrySend(m) PROVE TypeOK'
  <2>1. CASE HasRoom(target[m]) /\ outbox' = [outbox EXCEPT ![target[m]] = Append(@, m)]
    <3>1. CASE target[m] \in Conns
      <4>1. /\ Append(outbox[target[m]], m) \in Seq(Items)
            /\ Len(Append(outbox[target[m]], m)) <= OutboxCap
        BY <2>1, <3>1 DEF HasRoom
      <4> QED BY <1>19, <2>1, <3>1, <4>1 DEF TrySend, connVars
    <3>2. CASE target[m] \notin Conns
      BY <1>19, <2>1, <3>2 DEF TrySend, connVars
    <3> QED BY <3>1, <3>2
  <2>2. CASE UNCHANGED outbox
    BY <1>19, <2>2 DEF TrySend, connVars
  <2> QED BY <1>19, <2>1, <2>2 DEF TrySend
<1>20. ASSUME NEW d \in Devices, RemoveDevice(d) PROVE TypeOK'
  BY <1>20 DEF RemoveDevice, connVars, chanVars, reqVars
<1>21. CASE UNCHANGED vars
  BY <1>21 DEF vars, connVars, chanVars, reqVars
<1> QED
  BY <1>1, <1>2, <1>3, <1>4, <1>5, <1>6, <1>7, <1>8, <1>9, <1>10, <1>11, <1>12, <1>13,
     <1>14, <1>15, <1>16, <1>17, <1>18, <1>19, <1>20, <1>21
  DEF Next, ReaderStep, WriterStep
\* Every step of the link keeps the parts of LinkInv: only a hello puts a
\* connection into the registry and only under its own id, cleanup takes the
\* entry of its id out, and what enters a channel was accepted for it.
LEMMA LinkStep == LinkInv /\ [Next]_vars => LinkInv'
<1> SUFFICES ASSUME LinkInv, [Next]_vars PROVE LinkInv'
  OBVIOUS
<1> USE ConstantsAssumption DEF ConstantsAssumption, LinkInv, Registrable
<1>0. TypeOK'
  BY TypeStep
<1> DEFINE Parts ==
                   /\ \A c \in Conns : SetUp(c)
                   /\ \A d \in Devices : RegistryLeads(d)
                   /\ \A m \in Msgs : RequestAimed(m)
                   /\ \A c \in Conns, m \in Msgs : ChannelCarries(c, m)
                   /\ \A c \in Conns : HelloAhead(c)
<1>1. ASSUME NEW c \in Conns, NEW d \in Devices, Connect(c, d) PROVE Parts'
  <2>1. \A k \in Conns : SetUp(k)'
    BY <1>0, <1>1 DEF Connect, reqVars, TypeOK, SetUp
  <2>2. \A k \in Devices : RegistryLeads(k)'
    BY <1>0, <1>1 DEF Connect, reqVars, TypeOK, RegistryLeads, SetUp
  <2>3. \A k \in Msgs : RequestAimed(k)'
    BY <1>0, <1>1 DEF Connect, reqVars, TypeOK, RequestAimed, RegistryLeads, SetUp
  <2>4. \A k \in Conns, n \in Msgs : ChannelCarries(k, n)'
    BY <1>0, <1>1 DEF Connect, reqVars, TypeOK, ChannelCarries, Carries, SetUp
  <2>5. \A k \in Conns : HelloAhead(k)'
    BY <1>0, <1>1 DEF Connect, reqVars, TypeOK, HelloAhead, SetUp
  <2> QED BY <2>1, <2>2, <2>3, <2>4, <2>5
<1>2. ASSUME NEW c \in Conns, NEW f \in Frames, PhoneSend(c, f) PROVE Parts'
  BY <1>0, <1>2 DEF PhoneSend, chanVars, reqVars, TypeOK, SetUp, RegistryLeads, RequestAimed,
     ChannelCarries, Carries, HelloAhead
<1>3. ASSUME NEW c \in Conns, PhoneClose(c) PROVE Parts'
  BY <1>0, <1>3 DEF PhoneClose, chanVars, reqVars, TypeOK, SetUp, RegistryLeads, RequestAimed,
     ChannelCarries, Carries, HelloAhead
<1>4. ASSUME NEW c \in Conns, NetDrop(c) PROVE Parts'
  BY <1>0, <1>4 DEF NetDrop, chanVars, reqVars, TypeOK, SetUp, RegistryLeads, RequestAimed,
     ChannelCarries, Carries, HelloAhead
<1>5. ASSUME NEW c \in Conns, ReadHello(c) PROVE Parts'
  BY <1>0, <1>5 DEF ReadHello, NextFrame, chanVars, reqVars, TypeOK, SetUp, RegistryLeads, RequestAimed,
     ChannelCarries, Carries, HelloAhead
<1>6. ASSUME NEW c \in Conns, Register(c) PROVE Parts'
  <2>1. \A k \in Conns : SetUp(k)'
    BY <1>0, <1>6 DEF Register, chanVars, reqVars, TypeOK, SetUp
  <2>2. \A k \in Devices : RegistryLeads(k)'
    BY <1>0, <1>6 DEF Register, chanVars, reqVars, TypeOK, RegistryLeads, SetUp
  <2>3. \A k \in Msgs : RequestAimed(k)'
    BY <1>0, <1>6 DEF Register, chanVars, reqVars, TypeOK, RequestAimed, RegistryLeads, SetUp
  <2>4. \A k \in Conns, n \in Msgs : ChannelCarries(k, n)'
    BY <1>0, <1>6 DEF Register, chanVars, reqVars, TypeOK, ChannelCarries, Carries, SetUp
  <2>5. \A k \in Conns : HelloAhead(k)'
    BY <1>0, <1>6 DEF Register, chanVars, reqVars, TypeOK, HelloAhead, SetUp
  <2> QED BY <2>1, <2>2, <2>3, <2>4, <2>5
<1>7. ASSUME NEW c \in Conns, ReadBeat(c) PROVE Parts'
  BY <1>0, <1>7 DEF ReadBeat, NextFrame, chanVars, reqVars, TypeOK, SetUp, RegistryLeads, RequestAimed,
     ChannelCarries, Carries, HelloAhead
<1>8. ASSUME NEW c \in Conns, SendReply(c) PROVE Parts'
  <2>1. \A k \in Conns : SetUp(k)'
    BY <1>0, <1>8 DEF SendReply, HasRoom, reqVars, TypeOK, SetUp
  <2>2. \A k \in Devices : RegistryLeads(k)'
    BY <1>0, <1>8 DEF SendReply, HasRoom, reqVars, TypeOK, RegistryLeads, SetUp
  <2>3. \A k \in Msgs : RequestAimed(k)'
    BY <1>0, <1>8 DEF SendReply, HasRoom, reqVars, TypeOK, RequestAimed, RegistryLeads, SetUp
  <2>4. \A k \in Conns, n \in Msgs : ChannelCarries(k, n)'
    <3>1. outbox' = [outbox EXCEPT ![c] = Append(@, Reply)] \/ UNCHANGED outbox
      BY <1>8 DEF SendReply
    <3>2. Reply \in Items /\ outbox[c] \in Seq(Items)
      BY DEF Items, TypeOK
    <3>3. \A x : (\E i \in DOMAIN Append(outbox[c], Reply) : Append(outbox[c], Reply)[i] = x)
                     => x = Reply \/ \E i \in DOMAIN outbox[c] : outbox[c][i] = x
      BY <3>2, AppendFacts
    <3>4. ASSUME NEW k \in Conns, NEW n \in Msgs, Carries(k, n)' PROVE Carries(k, n)
      BY <1>8, <3>1, <3>3, <3>4 DEF SendReply, Carries, TypeOK
    <3> QED BY <1>8, <3>4 DEF SendReply, reqVars, ChannelCarries
  <2>5. \A k \in Conns : HelloAhead(k)'
    <3>1. Reply \in Items /\ outbox[c] \in Seq(Items)
      BY DEF Items, TypeOK
    <3>2. /\ Append(outbox[c], Reply) # <<>>
          /\ outbox[c] # <<>> => Head(Append(outbox[c], Reply)) = Head(outbox[c])
      BY <3>1, AppendFacts
    <3> QED BY <1>8, <3>2 DEF SendReply, TypeOK, HelloAhead
  <2> QED BY <2>1, <2>2, <2>3, <2>4, <2>5
<1>9. ASSUME NEW c \in Conns, ReadClose(c) PROVE Parts'
  BY <1>0, <1>9 DEF ReadClose, chanVars, reqVars, TypeOK, SetUp, RegistryLeads, RequestAimed,
     ChannelCarries, Carries, HelloAhead
<1>10. ASSUME NEW c \in Conns, ReadError(c) PROVE Parts'
  BY <1>0, <1>10 DEF ReadError, chanVars, reqVars, TypeOK, SetUp, RegistryLeads, RequestAimed,
     ChannelCarries, Carries, HelloAhead
<1>11. ASSUME NEW c \in Conns, Unregister(c) PROVE Parts'
  <2>1. \A k \in Conns : SetUp(k)'
    BY <1>0, <1>11 DEF Unregister, chanVars, reqVars, TypeOK, SetUp
  <2>2. \A k \in Devices : RegistryLeads(k)'
    BY <1>0, <1>11 DEF Unregister, chanVars, reqVars, TypeOK, RegistryLeads, SetUp
  <2>3. \A k \in Msgs : RequestAimed(k)'
    BY <1>0, <1>11 DEF Unregister, chanVars, reqVars, TypeOK, RequestAimed, RegistryLeads, SetUp
  <2>4. \A k \in Conns, n \in Msgs : ChannelCarries(k, n)'
    BY <1>0, <1>11 DEF Unregister, chanVars, reqVars, TypeOK, ChannelCarries, Carries, SetUp
  <2>5. \A k \in Conns : HelloAhead(k)'
    BY <1>0, <1>11 DEF Unregister, chanVars, reqVars, TypeOK, HelloAhead, SetUp
  <2> QED BY <2>1, <2>2, <2>3, <2>4, <2>5
<1>12. ASSUME NEW c \in Conns, DropSender(c) PROVE Parts'
  BY <1>0, <1>12 DEF DropSender, chanVars, reqVars, TypeOK, SetUp, RegistryLeads, RequestAimed,
     ChannelCarries, Carries, HelloAhead
<1>13. ASSUME NEW c \in Conns, Finish(c) PROVE Parts'
  BY <1>0, <1>13 DEF Finish, chanVars, reqVars, TypeOK, SetUp, RegistryLeads, RequestAimed,
     ChannelCarries, Carries, HelloAhead
<1>14. ASSUME NEW c \in Conns, Write(c) PROVE Parts'
  <2>1. \A k \in Conns : SetUp(k)'
    BY <1>0, <1>14 DEF Write, Sending, connVars, reqVars, TypeOK, SetUp
  <2>2. \A k \in Devices : RegistryLeads(k)'
    BY <1>0, <1>14 DEF Write, Sending, connVars, reqVars, TypeOK, RegistryLeads, SetUp
  <2>3. \A k \in Msgs : RequestAimed(k)'
    BY <1>0, <1>14 DEF Write, Sending, connVars, reqVars, TypeOK, RequestAimed, RegistryLeads, SetUp
  <2>4. \A k \in Conns, n \in Msgs : ChannelCarries(k, n)'
    <3>1. ASSUME NEW k \in Conns, NEW n \in Msgs, Carries(k, n)' PROVE Carries(k, n)
      BY <1>14, <3>1 DEF Write, Sending, TypeOK, Carries
    <3> QED BY <1>14, <3>1 DEF Write, connVars, reqVars, ChannelCarries
  <2>5. \A k \in Conns : HelloAhead(k)'
    BY <1>0, <1>14 DEF Write, Sending, connVars, reqVars, TypeOK, HelloAhead, SetUp
  <2> QED BY <2>1, <2>2, <2>3, <2>4, <2>5
<1>15. ASSUME NEW c \in Conns, WriteIntoVoid(c) PROVE Parts'
  <2>1. \A k \in Conns : SetUp(k)'
    BY <1>0, <1>15 DEF WriteIntoVoid, Sending, connVars, reqVars, TypeOK, SetUp
  <2>2. \A k \in Devices : RegistryLeads(k)'
    BY <1>0, <1>15 DEF WriteIntoVoid, Sending, connVars, reqVars, TypeOK, RegistryLeads, SetUp
  <2>3. \A k \in Msgs : RequestAimed(k)'
    BY <1>0, <1>15 DEF WriteIntoVoid, Sending, connVars, reqVars, TypeOK, RequestAimed, RegistryLeads, SetUp
  <2>4. \A k \in Conns, n \in Msgs : ChannelCarries(k, n)'
    BY <1>0, <1>15 DEF WriteIntoVoid, Sending, connVars, reqVars, TypeOK, ChannelCarries, Carries, SetUp
  <2>5. \A k \in Conns : HelloAhead(k)'
    BY <1>0, <1>15 DEF WriteIntoVoid, Sending, connVars, reqVars, TypeOK, HelloAhead, SetUp
  <2> QED BY <2>1, <2>2, <2>3, <2>4, <2>5
<1>16. ASSUME NEW c \in Conns, WriteError(c) PROVE Parts'
  <2>1. \A k \in Conns : SetUp(k)'
    BY <1>0, <1>16 DEF WriteError, Sending, connVars, reqVars, TypeOK, SetUp
  <2>2. \A k \in Devices : RegistryLeads(k)'
    BY <1>0, <1>16 DEF WriteError, Sending, connVars, reqVars, TypeOK, RegistryLeads, SetUp
  <2>3. \A k \in Msgs : RequestAimed(k)'
    BY <1>0, <1>16 DEF WriteError, Sending, connVars, reqVars, TypeOK, RequestAimed, RegistryLeads, SetUp
  <2>4. \A k \in Conns, n \in Msgs : ChannelCarries(k, n)'
    BY <1>0, <1>16 DEF WriteError, Sending, connVars, reqVars, TypeOK, ChannelCarries, Carries, SetUp
  <2>5. \A k \in Conns : HelloAhead(k)'
    BY <1>0, <1>16 DEF WriteError, Sending, connVars, reqVars, TypeOK, HelloAhead, SetUp
  <2> QED BY <2>1, <2>2, <2>3, <2>4, <2>5
<1>17. ASSUME NEW c \in Conns, WriterEnd(c) PROVE Parts'
  BY <1>0, <1>17 DEF WriterEnd, connVars, reqVars, TypeOK, SetUp, RegistryLeads, RequestAimed,
     ChannelCarries, Carries, HelloAhead
<1>18. ASSUME NEW m \in Msgs, NEW d \in Devices, Lookup(m, d) PROVE Parts'
  <2>1. \A k \in Conns : SetUp(k)'
    BY <1>0, <1>18 DEF Lookup, connVars, chanVars, TypeOK, SetUp
  <2>2. \A k \in Devices : RegistryLeads(k)'
    BY <1>0, <1>18 DEF Lookup, connVars, chanVars, TypeOK, RegistryLeads, SetUp
  <2>3. \A k \in Msgs : RequestAimed(k)'
    BY <1>0, <1>18 DEF Lookup, connVars, chanVars, TypeOK, RequestAimed, RegistryLeads, SetUp
  <2>4. \A k \in Conns, n \in Msgs : ChannelCarries(k, n)'
    BY <1>0, <1>18 DEF Lookup, connVars, chanVars, TypeOK, ChannelCarries, Carries, SetUp
  <2>5. \A k \in Conns : HelloAhead(k)'
    BY <1>0, <1>18 DEF Lookup, connVars, chanVars, TypeOK, HelloAhead, SetUp
  <2> QED BY <2>1, <2>2, <2>3, <2>4, <2>5
<1>19. ASSUME NEW m \in Msgs, TrySend(m) PROVE Parts'
  <2>0. /\ m \in Items /\ target[m] \in Conns /\ outbox[target[m]] \in Seq(Items)
        /\ \/ outbox' = [outbox EXCEPT ![target[m]] = Append(@, m)] /\ req' = [req EXCEPT ![m] = "ok"]
              /\ HasRoom(target[m])
           \/ UNCHANGED outbox /\ req' = [req EXCEPT ![m] = "queue_full"]
    BY <1>19 DEF TrySend, RequestAimed, TypeOK, Items
  <2>1. \A k \in Conns : SetUp(k)'
    BY <1>19, <2>0 DEF TrySend, HasRoom, connVars, SetUp, RequestAimed, TypeOK
  <2>2. \A k \in Devices : RegistryLeads(k)'
    BY <1>0, <1>19 DEF TrySend, HasRoom, connVars, TypeOK, RegistryLeads, SetUp
  <2>3. \A k \in Msgs : RequestAimed(k)'
    BY <1>0, <1>19 DEF TrySend, HasRoom, connVars, TypeOK, RequestAimed, RegistryLeads, SetUp
  <2>4. \A k \in Conns, n \in Msgs : ChannelCarries(k, n)'
    <3> DEFINE a == Append(outbox[target[m]], m)
    <3>1. \A x : (\E i \in DOMAIN a : a[i] = x)
                     => x = m \/ \E i \in DOMAIN outbox[target[m]] : outbox[target[m]][i] = x
      BY <2>0, AppendFacts
    <3> HIDE DEF a
    <3>2. ASSUME NEW k \in Conns, NEW n \in Msgs, Carries(k, n)'
          PROVE  Carries(k, n) \/ (n = m /\ k = target[m] /\ req'[m] = "ok")
      <4>1. CASE outbox' = [outbox EXCEPT ![target[m]] = a] /\ req' = [req EXCEPT ![m] = "ok"]
        <5>1. delivered' = delivered /\ outbox'[target[m]] = a /\ req'[m] = "ok"
              /\ (k # target[m] => outbox'[k] = outbox[k])
          BY <1>19, <2>0, <4>1 DEF TrySend, TypeOK
        <5> QED BY <5>1, <3>1, <3>2 DEF Carries
      <4>2. CASE UNCHANGED outbox
        BY <1>19, <4>2, <3>2 DEF TrySend, Carries
      <4> QED BY <2>0, <4>1, <4>2 DEF a
    <3> QED BY <1>19, <2>0, <3>2 DEF TrySend, ChannelCarries, TypeOK
  <2>5. \A k \in Conns : HelloAhead(k)'
    <3>1. /\ Append(outbox[target[m]], m) # <<>>
          /\ outbox[target[m]] # <<>> =>
                Head(Append(outbox[target[m]], m)) = Head(outbox[target[m]])
      BY <2>0, AppendFacts
    <3> QED BY <1>19, <2>0, <3>1 DEF TrySend, connVars, TypeOK, HelloAhead
  <2> QED BY <2>1, <2>2, <2>3, <2>4, <2>5
<1>20. ASSUME NEW d \in Devices, RemoveDevice(d) PROVE Parts'
  BY <1>0, <1>20 DEF RemoveDevice, connVars, chanVars, reqVars, TypeOK, SetUp, RegistryLeads, RequestAimed,
     ChannelCarries, Carries, HelloAhead
<1>21. ASSUME UNCHANGED vars PROVE Parts'
  BY <1>21 DEF vars, connVars, chanVars, reqVars, SetUp, RegistryLeads, RequestAimed,
     ChannelCarries, Carries, HelloAhead
<1>22. Parts'
  BY <1>1, <1>2, <1>3, <1>4, <1>5, <1>6, <1>7, <1>8, <1>9, <1>10, <1>11, <1>12, <1>13, <1>14, <1>15, <1>16, <1>17, <1>18, <1>19, <1>20, <1>21
  DEF Next, ReaderStep, WriterStep
<1> QED BY <1>0, <1>22

\* No connection, no entry and no request: the invariant holds at the start.
LEMMA InitInv == Init => LinkInv
BY ConstantsAssumption DEF Init, ConstantsAssumption, LinkInv, TypeOK, ConnStates, SockStates,
   Items, ReqStates, SetUp, RegistryLeads, RequestAimed, ChannelCarries, Carries, HelloAhead

\* Every reachable state satisfies the inductive invariant.
THEOREM LinkInvariant == Spec => []LinkInv
BY InitInv, LinkStep, PTL DEF Spec

\* The handlers, the registry and the requests keep their state in range; the
\* channel of a connection never holds more than its capacity.
THEOREM TypeCorrect == Spec => []TypeOK
<1>1. LinkInv => TypeOK
  BY DEF LinkInv
<1> QED BY <1>1, LinkInvariant, PTL

\* For any number of phones, connections and concurrent REST requests, an
\* envelope only ever enters the channel of a connection of the phone it is
\* addressed to.
THEOREM Routing == Spec => []RoutedToOwner
<1>1. LinkInv => RoutedToOwner
  BY DEF LinkInv, RoutedToOwner, ChannelCarries, RequestAimed
<1> QED BY <1>1, LinkInvariant, PTL

\* After the cleanup of a connection no registry entry leads to its channel.
THEOREM CleanExit == Spec => []CleanExitForgets
<1>1. LinkInv => CleanExitForgets
  BY ConstantsAssumption DEF ConstantsAssumption, LinkInv, CleanExitForgets, RegistryLeads, Registrable
<1> QED BY <1>1, LinkInvariant, PTL

\* The desktop's hello is the first envelope a phone receives on any
\* connection.
THEOREM HelloIsFirst == Spec => []HelloFirst
<1>1. LinkInv => HelloFirst
  BY DEF LinkInv, HelloFirst, HelloAhead
<1> QED BY <1>1, LinkInvariant, PTL
=============================================================================
