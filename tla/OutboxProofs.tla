----------------------------- MODULE OutboxProofs -----------------------------
(***************************************************************************)
(* DeviceLink implements Outbox, and an accepted envelope is carried       *)
(* exactly once, for any sets of devices, connections and requests and any *)
(* capacity. Both rest on the inductive invariant of DeviceLinkProofs.     *)
(***************************************************************************)
EXTENDS DeviceLinkProofs

\* No envelope of a request is twice on the way of c.
OnTheWayOnce(c) ==
    \A m \in Msgs :
        /\ AtMostOnce(m, delivered[c]) /\ AtMostOnce(m, outbox[c])
        /\ \A i \in DOMAIN delivered[c], j \in DOMAIN outbox[c] :
               ~(delivered[c][i] = m /\ outbox[c][j] = m)

\* What was accepted is on its way while the socket is up.
StillCarried(m) ==
    req[m] = "ok" /\ sock[target[m]] = "up" => Carries(target[m], m)

\* The inductive invariant: that of the link, and the two above.
OnceInv ==
    /\ LinkInv
    /\ \A c \in Conns : OnTheWayOnce(c)
    /\ \A m \in Msgs : StillCarried(m)

-----------------------------------------------------------------------------
\* A sequence after Append, position by position.
LEMMA Appended ==
    ASSUME NEW S, NEW s \in Seq(S), NEW e \in S
    PROVE  /\ DOMAIN Append(s, e) = 1..(Len(s) + 1) /\ DOMAIN s = 1..Len(s) /\ Len(s) \in Nat
           /\ Append(s, e)[Len(s) + 1] = e
           /\ \A i \in 1..Len(s) : Append(s, e)[i] = s[i]
           /\ \A i \in 1..(Len(s) + 1) : i = Len(s) + 1 \/ i \in 1..Len(s)
OBVIOUS

\* A sequence after Tail, position by position.
LEMMA Shifted ==
    ASSUME NEW S, NEW s \in Seq(S), s # <<>>
    PROVE  /\ DOMAIN s = 1..Len(s) /\ Len(s) \in Nat \ {0}
           /\ Tail(s) \in Seq(S) /\ DOMAIN Tail(s) = 1..(Len(s) - 1)
           /\ \A i \in 1..(Len(s) - 1) : Tail(s)[i] = s[i + 1] /\ i + 1 \in 1..Len(s)
           /\ Head(s) = s[1] /\ 1 \in DOMAIN s /\ Head(s) \in S
OBVIOUS

\* Appending something else, or something new, keeps every envelope single.
LEMMA AppendOnce ==
    ASSUME NEW S, NEW s \in Seq(S), NEW e \in S, NEW m, AtMostOnce(m, s),
           e = m => \A i \in DOMAIN s : s[i] # m
    PROVE  AtMostOnce(m, Append(s, e))
BY Appended DEF AtMostOnce

\* So does taking the head away.
LEMMA TailOnce ==
    ASSUME NEW S, NEW s \in Seq(S), s # <<>>, NEW m, AtMostOnce(m, s)
    PROVE  /\ AtMostOnce(m, Tail(s))
           /\ Head(s) = m => \A i \in DOMAIN Tail(s) : Tail(s)[i] # m
<1>1. \A i \in DOMAIN Tail(s) : i \in Nat /\ i \in 1..(Len(s) - 1) /\ i + 1 \in DOMAIN s /\ i + 1 # 1
  BY Shifted
<1>2. ASSUME NEW i \in DOMAIN Tail(s), NEW j \in DOMAIN Tail(s), Tail(s)[i] = m, Tail(s)[j] = m
      PROVE  i = j
  <2>1. s[i + 1] = m /\ s[j + 1] = m
    BY <1>1, <1>2, Shifted
  <2>2. i + 1 = j + 1
    BY <1>1, <2>1 DEF AtMostOnce
  <2> QED BY <1>1, <2>2
<1>3. ASSUME NEW i \in DOMAIN Tail(s), Tail(s)[i] = m, Head(s) = m PROVE FALSE
  BY <1>1, <1>3, Shifted DEF AtMostOnce
<1> QED BY <1>2, <1>3 DEF AtMostOnce

-----------------------------------------------------------------------------
\* Steps that leave the channels and the requests alone.
LEMMA QuietStep ==
    ASSUME OnceInv, UNCHANGED <<chanVars, reqVars>>,
           \A c \in Conns : sock'[c] = "up" => sock[c] = "up"
    PROVE  /\ \A c \in Conns : OnTheWayOnce(c)'
           /\ \A m \in Msgs : StillCarried(m)'
<1>1. \A c \in Conns : OnTheWayOnce(c)'
  BY DEF OnceInv, chanVars, OnTheWayOnce, AtMostOnce
<1>2. ASSUME NEW m \in Msgs PROVE StillCarried(m)'
  <2>1. req[m] = "ok" => target[m] \in Conns
    BY DEF OnceInv, LinkInv, RequestAimed
  <2> QED BY <2>1 DEF OnceInv, chanVars, reqVars, StillCarried, Carries
<1> QED BY <1>1, <1>2

\* Every step of the link keeps OnceInv: only try_send adds an envelope of a
\* request, one that was nowhere before; the writer moves the head over; what
\* is dropped belongs to a socket that is down.
LEMMA OnceStep == OnceInv /\ [Next]_vars => OnceInv'
<1> SUFFICES ASSUME OnceInv, [Next]_vars PROVE OnceInv'
  OBVIOUS
<1>0. LinkInv /\ LinkInv' /\ TypeOK /\ TypeOK'
  BY LinkStep DEF OnceInv, LinkInv
<1>t. /\ \A c \in Conns : outbox[c] \in Seq(Items) /\ delivered[c] \in Seq(Items)
      /\ \A m \in Msgs : m # Hello /\ m # Reply
      /\ Hello \in Items /\ Reply \in Items /\ Msgs \subseteq Items
  BY <1>0, ConstantsAssumption DEF TypeOK, Items, ConstantsAssumption
<1>a. \A m \in Msgs : req[m] = "ok" => target[m] \in Conns /\ conn[target[m]] # "none"
  BY <1>0, ConstantsAssumption DEF LinkInv, RequestAimed, SetUp, ConstantsAssumption
<1> DEFINE Goal == /\ \A k \in Conns : OnTheWayOnce(k)'
                   /\ \A n \in Msgs : StillCarried(n)'
<1>1. ASSUME NEW c \in Conns, NEW d \in Devices, Connect(c, d) PROVE Goal
  <2>1. delivered'[c] = <<>> /\ outbox'[c] = <<Hello>>
    BY <1>0, <1>1 DEF Connect, LinkInv, SetUp, TypeOK
  <2>2. ASSUME NEW k \in Conns PROVE OnTheWayOnce(k)'
    <3>1. CASE k = c
      BY <2>1, <3>1, <1>t DEF OnTheWayOnce, AtMostOnce
    <3>2. CASE k # c
      BY <1>0, <1>1, <3>2 DEF Connect, OnceInv, OnTheWayOnce, AtMostOnce, TypeOK
    <3> QED BY <3>1, <3>2
  <2>3. ASSUME NEW n \in Msgs PROVE StillCarried(n)'
    BY <1>0, <1>1, <1>a DEF Connect, reqVars, OnceInv, StillCarried, Carries, TypeOK
  <2> QED BY <2>2, <2>3
<1>2. ASSUME NEW c \in Conns, NEW f \in Frames, PhoneSend(c, f) PROVE Goal
  BY <1>2, QuietStep DEF PhoneSend
<1>3. ASSUME NEW c \in Conns, PhoneClose(c) PROVE Goal
  BY <1>0, <1>3, QuietStep DEF PhoneClose, TypeOK
<1>4. ASSUME NEW c \in Conns, NetDrop(c) PROVE Goal
  BY <1>0, <1>4, QuietStep DEF NetDrop, TypeOK
<1>5. ASSUME NEW c \in Conns,
             \/ ReadHello(c) \/ Register(c) \/ ReadBeat(c) \/ ReadClose(c) \/ ReadError(c)
             \/ Unregister(c) \/ DropSender(c) \/ Finish(c)
      PROVE  Goal
  BY <1>5, QuietStep DEF ReadHello, Register, ReadBeat, ReadClose, ReadError, Unregister, DropSender, Finish
<1>6. ASSUME NEW c \in Conns, SendReply(c) PROVE Goal
  <2>1. CASE UNCHANGED outbox
    BY <1>6, <2>1, QuietStep DEF SendReply, chanVars
  <2>2. CASE outbox' = [outbox EXCEPT ![c] = Append(@, Reply)]
    <3>1. outbox'[c] = Append(outbox[c], Reply) /\ (\A k \in Conns \ {c} : outbox'[k] = outbox[k])
          /\ UNCHANGED <<delivered, req, target, sock>>
      BY <1>0, <1>6, <2>2 DEF SendReply, reqVars, TypeOK
    <3>2. ASSUME NEW n \in Msgs PROVE AtMostOnce(n, outbox'[c])
      BY <1>t, <3>1, AppendOnce DEF OnceInv, OnTheWayOnce
    <3>3. ASSUME NEW n \in Msgs, NEW j \in DOMAIN outbox'[c], outbox'[c][j] = n
          PROVE  j \in DOMAIN outbox[c] /\ outbox[c][j] = n
      BY <1>t, <3>1, <3>3, Appended
    <3>4. ASSUME NEW k \in Conns PROVE OnTheWayOnce(k)'
      <4>1. CASE k = c
        <5>1. ASSUME NEW n \in Msgs
              PROVE  /\ AtMostOnce(n, outbox'[c]) /\ AtMostOnce(n, delivered'[c])
                     /\ \A i \in DOMAIN delivered'[c], j \in DOMAIN outbox'[c] :
                            ~(delivered'[c][i] = n /\ outbox'[c][j] = n)
          BY <3>1, <3>2, <3>3 DEF OnceInv, OnTheWayOnce
        <5> QED BY <4>1, <5>1 DEF OnTheWayOnce, AtMostOnce
      <4>2. CASE k # c
        <5>1. UNCHANGED <<outbox[k], delivered[k]>>
          BY <3>1, <4>2
        <5> QED BY <5>1 DEF OnceInv, OnTheWayOnce, AtMostOnce
      <4> QED BY <4>1, <4>2
    <3>5. ASSUME NEW n \in Msgs, NEW j \in DOMAIN outbox[c], outbox[c][j] = n
          PROVE  j \in DOMAIN outbox'[c] /\ outbox'[c][j] = n
      BY <1>t, <3>1, <3>5, Appended
    <3>6. \A n \in Msgs : StillCarried(n)'
      BY <1>a, <3>1, <3>5 DEF OnceInv, StillCarried, Carries
    <3> QED BY <3>4, <3>6
  <2> QED BY <1>6, <2>1, <2>2 DEF SendReply
<1>7. ASSUME NEW c \in Conns, Write(c) PROVE Goal
  <2>1. /\ outbox[c] # <<>> /\ outbox'[c] = Tail(outbox[c])
        /\ delivered'[c] = Append(delivered[c], Head(outbox[c]))
        /\ \A k \in Conns \ {c} : outbox'[k] = outbox[k] /\ delivered'[k] = delivered[k]
        /\ UNCHANGED <<req, target, sock>>
    BY <1>0, <1>7 DEF Write, Sending, connVars, reqVars, TypeOK
  <2>2. Head(outbox[c]) \in Items /\ outbox[c][1] = Head(outbox[c]) /\ 1 \in DOMAIN outbox[c]
    BY <1>t, <2>1, Shifted
  <2>3. ASSUME NEW n \in Msgs
        PROVE  /\ AtMostOnce(n, outbox'[c]) /\ AtMostOnce(n, delivered'[c])
               /\ \A i \in DOMAIN delivered'[c], j \in DOMAIN outbox'[c] :
                      ~(delivered'[c][i] = n /\ outbox'[c][j] = n)
    <3>1. /\ AtMostOnce(n, outbox[c]) /\ AtMostOnce(n, delivered[c])
          /\ \A i \in DOMAIN delivered[c], j \in DOMAIN outbox[c] :
                 ~(delivered[c][i] = n /\ outbox[c][j] = n)
      BY DEF OnceInv, OnTheWayOnce
    <3>2. /\ AtMostOnce(n, Tail(outbox[c]))
          /\ Head(outbox[c]) = n => \A i \in DOMAIN Tail(outbox[c]) : Tail(outbox[c])[i] # n
      BY <1>t, <2>1, <3>1, TailOnce
    <3>3. AtMostOnce(n, delivered'[c])
      BY <1>t, <2>1, <2>2, <3>1, AppendOnce
    <3>4. ASSUME NEW j \in DOMAIN outbox'[c], outbox'[c][j] = n
          PROVE  \E h \in DOMAIN outbox[c] : outbox[c][h] = n
      BY <1>t, <2>1, <3>4, Shifted
    <3>5. ASSUME NEW i \in DOMAIN delivered'[c], delivered'[c][i] = n, Head(outbox[c]) # n
          PROVE  \E h \in DOMAIN delivered[c] : delivered[c][h] = n
      BY <1>t, <2>1, <2>2, <3>5, Appended
    <3> QED BY <2>1, <3>1, <3>2, <3>3, <3>4, <3>5
  <2>4. ASSUME NEW k \in Conns PROVE OnTheWayOnce(k)'
    <3>1. CASE k = c
      BY <2>3, <3>1 DEF OnceInv, OnTheWayOnce, AtMostOnce
    <3>2. CASE k # c
      <4>1. UNCHANGED <<outbox[k], delivered[k]>>
        BY <2>1, <3>2
      <4> QED BY <4>1 DEF OnceInv, OnTheWayOnce, AtMostOnce
    <3> QED BY <3>1, <3>2
  <2>5. ASSUME NEW n \in Msgs, Carries(c, n) PROVE Carries(c, n)'
    <3>1. CASE \E i \in DOMAIN delivered[c] : delivered[c][i] = n
      BY <1>t, <2>1, <2>2, <3>1, Appended DEF Carries
    <3>2. CASE Head(outbox[c]) = n
      <4>1. delivered'[c][Len(delivered[c]) + 1] = n /\ Len(delivered[c]) + 1 \in DOMAIN delivered'[c]
        BY <1>t, <2>1, <2>2, <3>2, Appended
      <4> QED BY <4>1 DEF Carries
    <3>3. ASSUME NEW i \in DOMAIN outbox[c], outbox[c][i] = n, i # 1 PROVE Carries(c, n)'
      <4>1. i - 1 \in 1..(Len(outbox[c]) - 1) /\ (i - 1) + 1 = i
        BY <1>t, <2>1, <3>3, Shifted
      <4>2. i - 1 \in DOMAIN outbox'[c] /\ outbox'[c][i - 1] = n
        BY <1>t, <2>1, <3>3, <4>1, Shifted
      <4> QED BY <4>2 DEF Carries
    <3> QED BY <2>2, <2>5, <3>1, <3>2, <3>3 DEF Carries
  <2>6. ASSUME NEW n \in Msgs PROVE StillCarried(n)'
    <3>1. CASE target[n] = c
      BY <1>a, <2>1, <2>5, <3>1 DEF OnceInv, StillCarried
    <3>2. CASE target[n] # c
      BY <1>a, <2>1, <3>2 DEF OnceInv, StillCarried, Carries
    <3> QED BY <3>1, <3>2
  <2> QED BY <2>4, <2>6
<1>8. ASSUME NEW c \in Conns, WriteIntoVoid(c) PROVE Goal
  <2>1. /\ outbox[c] # <<>> /\ outbox'[c] = Tail(outbox[c]) /\ sock[c] # "up"
        /\ \A k \in Conns \ {c} : outbox'[k] = outbox[k]
        /\ UNCHANGED <<delivered, req, target, sock>>
    BY <1>0, <1>8 DEF WriteIntoVoid, Sending, connVars, reqVars, TypeOK
  <2>2. ASSUME NEW n \in Msgs PROVE AtMostOnce(n, outbox'[c])
    BY <1>t, <2>1, TailOnce DEF OnceInv, OnTheWayOnce
  <2>3. ASSUME NEW n \in Msgs, NEW j \in DOMAIN outbox'[c], outbox'[c][j] = n
        PROVE  \E h \in DOMAIN outbox[c] : outbox[c][h] = n
    BY <1>t, <2>1, <2>3, Shifted
  <2>4. ASSUME NEW k \in Conns PROVE OnTheWayOnce(k)'
    <3>1. CASE k = c
      <4>1. ASSUME NEW n \in Msgs
            PROVE  /\ AtMostOnce(n, outbox'[c]) /\ AtMostOnce(n, delivered'[c])
                   /\ \A i \in DOMAIN delivered'[c], j \in DOMAIN outbox'[c] :
                          ~(delivered'[c][i] = n /\ outbox'[c][j] = n)
        BY <2>1, <2>2, <2>3 DEF OnceInv, OnTheWayOnce
      <4> QED BY <3>1, <4>1 DEF OnTheWayOnce, AtMostOnce
    <3>2. CASE k # c
      <4>1. UNCHANGED <<outbox[k], delivered[k]>>
        BY <2>1, <3>2
      <4> QED BY <4>1 DEF OnceInv, OnTheWayOnce, AtMostOnce
    <3> QED BY <3>1, <3>2
  <2>5. \A n \in Msgs : StillCarried(n)'
    BY <1>a, <2>1 DEF OnceInv, StillCarried, Carries
  <2> QED BY <2>4, <2>5
<1>9. ASSUME NEW c \in Conns, WriteError(c) PROVE Goal
  <2>1. /\ outbox'[c] = <<>> /\ sock[c] # "up"
        /\ \A k \in Conns \ {c} : outbox'[k] = outbox[k]
        /\ UNCHANGED <<delivered, req, target, sock>>
    BY <1>0, <1>9 DEF WriteError, Sending, connVars, reqVars, TypeOK
  <2>2. \A k \in Conns : OnTheWayOnce(k)'
    BY <2>1 DEF OnceInv, OnTheWayOnce, AtMostOnce
  <2>3. \A n \in Msgs : StillCarried(n)'
    BY <1>a, <2>1 DEF OnceInv, StillCarried, Carries
  <2> QED BY <2>2, <2>3
<1>10. ASSUME NEW c \in Conns, WriterEnd(c) PROVE Goal
  BY <1>10, <1>a DEF WriterEnd, connVars, reqVars, OnceInv, OnTheWayOnce, AtMostOnce, StillCarried, Carries
<1>11. ASSUME NEW m \in Msgs, NEW d \in Devices, Lookup(m, d) PROVE Goal
  <2>1. \A k \in Conns : OnTheWayOnce(k)'
    BY <1>11 DEF Lookup, chanVars, OnceInv, OnTheWayOnce, AtMostOnce
  <2>2. ASSUME NEW n \in Msgs PROVE StillCarried(n)'
    <3>1. /\ UNCHANGED <<sock, outbox, delivered>>
          /\ n # m => UNCHANGED <<req[n], target[n]>>
          /\ n = m => req'[n] # "ok"
      BY <1>0, <1>11 DEF Lookup, connVars, chanVars, TypeOK
    <3> QED BY <3>1 DEF OnceInv, StillCarried, Carries
  <2> QED BY <2>1, <2>2
<1>12. ASSUME NEW m \in Msgs, TrySend(m) PROVE Goal
  <2> DEFINE c == target[m]
  <2>0. c \in Conns /\ req[m] = "holding" /\ UNCHANGED <<delivered, target, sock>>
    BY <1>0, <1>12 DEF TrySend, connVars, LinkInv, RequestAimed
  <2>1. CASE UNCHANGED outbox /\ req' = [req EXCEPT ![m] = "queue_full"]
    <3>1. \A k \in Conns : OnTheWayOnce(k)'
      BY <2>0, <2>1 DEF OnceInv, OnTheWayOnce, AtMostOnce
    <3>2. \A n \in Msgs : req'[n] = "ok" => req[n] = "ok"
      BY <1>0, <2>1 DEF TypeOK
    <3> QED BY <1>a, <2>0, <2>1, <3>1, <3>2 DEF OnceInv, StillCarried, Carries
  <2>2. CASE outbox' = [outbox EXCEPT ![c] = Append(@, m)] /\ req' = [req EXCEPT ![m] = "ok"]
    <3>1. /\ outbox'[c] = Append(outbox[c], m) /\ \A k \in Conns \ {c} : outbox'[k] = outbox[k]
          /\ \A n \in Msgs \ {m} : req'[n] = req[n]
      BY <1>0, <2>0, <2>2 DEF TypeOK
    <3>2. ~Carries(c, m)
      BY <1>0, <2>0 DEF LinkInv, ChannelCarries
    <3>3. ASSUME NEW n \in Msgs PROVE AtMostOnce(n, outbox'[c])
      BY <1>t, <2>0, <3>1, <3>2, AppendOnce DEF OnceInv, OnTheWayOnce, Carries
    <3>4. ASSUME NEW n \in Msgs, NEW j \in DOMAIN outbox'[c], outbox'[c][j] = n
          PROVE  n = m \/ \E h \in DOMAIN outbox[c] : outbox[c][h] = n
      BY <1>t, <2>0, <3>1, <3>4, Appended
    <3>5. ASSUME NEW k \in Conns PROVE OnTheWayOnce(k)'
      <4>1. CASE k = c
        BY <2>0, <3>2, <3>3, <3>4, <4>1 DEF OnceInv, OnTheWayOnce, AtMostOnce, Carries
      <4>2. CASE k # c
        <5>1. UNCHANGED <<outbox[k], delivered[k]>>
          BY <2>0, <3>1, <4>2
        <5> QED BY <5>1 DEF OnceInv, OnTheWayOnce, AtMostOnce
      <4> QED BY <4>1, <4>2
    <3>6. ASSUME NEW n \in Msgs, n # m, Carries(c, n) PROVE Carries(c, n)'
      <4>1. ASSUME NEW i \in DOMAIN outbox[c] PROVE i \in DOMAIN outbox'[c] /\ outbox'[c][i] = outbox[c][i]
        BY <1>t, <2>0, <3>1, <4>1, Appended
      <4> QED BY <2>0, <3>6, <4>1 DEF Carries
    <3>7. Carries(c, m)'
      <4>1. Len(outbox[c]) + 1 \in DOMAIN outbox'[c] /\ outbox'[c][Len(outbox[c]) + 1] = m
        BY <1>t, <2>0, <3>1, Appended
      <4> QED BY <2>0, <4>1 DEF Carries
    <3>8. ASSUME NEW n \in Msgs PROVE StillCarried(n)'
      <4>1. CASE n = m
        BY <2>0, <3>7, <4>1 DEF StillCarried, Carries
      <4>2. CASE n # m
        BY <1>a, <2>0, <3>1, <3>6, <4>2 DEF OnceInv, StillCarried, Carries
      <4> QED BY <4>1, <4>2
    <3> QED BY <3>5, <3>8
  <2> QED BY <1>12, <2>1, <2>2 DEF TrySend
<1>13. ASSUME NEW d \in Devices, RemoveDevice(d) PROVE Goal
  BY <1>13, QuietStep DEF RemoveDevice, connVars
<1>14. ASSUME UNCHANGED vars PROVE Goal
  <2>1. UNCHANGED <<chanVars, reqVars>> /\ sock' = sock
    BY <1>14 DEF vars, connVars
  <2> QED BY <2>1, QuietStep
<1> HIDE DEF Goal
<1>15. Goal
  BY <1>1, <1>2, <1>3, <1>4, <1>5, <1>6, <1>7, <1>8, <1>9, <1>10, <1>11, <1>12, <1>13, <1>14
  DEF Next, ReaderStep, WriterStep
<1> QED BY <1>0, <1>15 DEF OnceInv, Goal

\* For any number of requests, connections and phones: an envelope is accepted
\* just when try_send answered Ok, once, by the channel the request looked up,
\* and is there or at the phone as long as the socket is up.
THEOREM ExactlyOnce == Spec => []AcceptedExactlyOnce
<1>1. Init => OnceInv
  <2>1. Init => LinkInv
    BY InitInv
  <2> QED BY <2>1 DEF Init, OnceInv, OnTheWayOnce, AtMostOnce, StillCarried
<1>2. OnceInv => AcceptedExactlyOnce
  BY DEF OnceInv, LinkInv, ChannelCarries, OnTheWayOnce, StillCarried, AcceptedExactlyOnce
<1> QED BY <1>1, <1>2, OnceStep, PTL DEF Spec

-----------------------------------------------------------------------------
\* The two barred functions change only where the step is.
LEMMA BarAt ==
    ASSUME NEW c \in Conns, \A k \in Conns \ {c} : UNCHANGED <<sock[k], outbox[k]>>
    PROVE  /\ phaseBar' = [phaseBar EXCEPT ![c] = phaseBar'[c]]
           /\ queueBar' = [queueBar EXCEPT ![c] = queueBar'[c]]
<1>1. /\ phaseBar' = [k \in Conns |-> phaseBar'[k]]
      /\ \A k \in Conns \ {c} : phaseBar'[k] = phaseBar[k]
  BY DEF phaseBar
<1>2. phaseBar' = [phaseBar EXCEPT ![c] = phaseBar'[c]]
  <2>1. phaseBar = [k \in Conns |-> phaseBar[k]]
    BY DEF phaseBar
  <2> HIDE DEF phaseBar
  <2> QED BY <1>1, <2>1
<1>3. /\ queueBar' = [k \in Conns |-> queueBar'[k]]
      /\ \A k \in Conns \ {c} : queueBar'[k] = queueBar[k]
  BY DEF queueBar
<1>4. queueBar' = [queueBar EXCEPT ![c] = queueBar'[c]]
  BY <1>3 DEF queueBar
<1> QED BY <1>2, <1>4

\* A step of DeviceLink is a step of Outbox or changes nothing there.
LEMMA StepRefines == LinkInv /\ LinkInv' /\ [Next]_vars => [Promise!Next]_Promise!vars
<1> SUFFICES ASSUME LinkInv, LinkInv', [Next]_vars PROVE [Promise!Next]_Promise!vars
  OBVIOUS
<1>0. TypeOK /\ TypeOK'
  BY DEF LinkInv
<1> DEFINE Quiet == UNCHANGED <<phaseBar, queueBar, delivered, takenBar>>
           Goal  == Promise!Next \/ Quiet
<1>q. Quiet => [Promise!Next]_Promise!vars
  BY DEF Promise!vars
<1>s. ASSUME UNCHANGED <<sock, outbox, delivered, req>> PROVE Quiet
  BY <1>s DEF phaseBar, queueBar, takenBar
<1>1. ASSUME NEW c \in Conns, NEW d \in Devices, Connect(c, d) PROVE Goal
  <2>1. /\ sock[c] = "none" /\ sock'[c] = "up" /\ outbox'[c] = <<Hello>>
        /\ \A k \in Conns \ {c} : UNCHANGED <<sock[k], outbox[k]>>
        /\ UNCHANGED <<delivered, req>>
    BY <1>0, <1>1 DEF Connect, reqVars, LinkInv, SetUp, TypeOK
  <2>2. /\ phaseBar[c] = "new" /\ phaseBar'[c] = "live" /\ queueBar'[c] = <<Hello>>
    BY <2>1 DEF phaseBar, queueBar
  <2>3. takenBar' = takenBar
    BY <2>1 DEF takenBar
  <2>4. Promise!Open(c)
    BY <2>1, <2>2, <2>3, BarAt DEF Promise!Open
  <2> QED BY <2>4 DEF Promise!Next
<1>2. ASSUME NEW c \in Conns, PhoneClose(c) \/ NetDrop(c) PROVE Goal
  <2>1. /\ sock[c] = "up" /\ sock'[c] \notin {"none", "up"}
        /\ \A k \in Conns \ {c} : UNCHANGED <<sock[k], outbox[k]>>
        /\ UNCHANGED <<delivered, req>>
    BY <1>0, <1>2 DEF PhoneClose, NetDrop, chanVars, reqVars, TypeOK
  <2>2. phaseBar[c] = "live" /\ phaseBar'[c] = "over" /\ queueBar'[c] = <<>>
    BY <2>1 DEF phaseBar, queueBar
  <2>3. takenBar' = takenBar
    BY <2>1 DEF takenBar
  <2>4. Promise!End(c)
    BY <2>1, <2>2, <2>3, BarAt DEF Promise!End
  <2> QED BY <2>4 DEF Promise!Next
<1>3. ASSUME NEW c \in Conns, NEW f \in Frames, PhoneSend(c, f) PROVE Goal
  BY <1>3, <1>s DEF PhoneSend, chanVars, reqVars
<1>4. ASSUME NEW c \in Conns,
             \/ ReadHello(c) \/ Register(c) \/ ReadBeat(c) \/ ReadClose(c) \/ ReadError(c)
             \/ Unregister(c) \/ DropSender(c) \/ Finish(c) \/ WriterEnd(c)
      PROVE  Goal
  BY <1>4, <1>s DEF ReadHello, Register, ReadBeat, ReadClose, ReadError, Unregister,
     DropSender, Finish, WriterEnd, connVars, chanVars, reqVars
<1>5. ASSUME NEW c \in Conns, SendReply(c) PROVE Goal
  <2>0. UNCHANGED <<sock, delivered, req>>
    BY <1>5 DEF SendReply, reqVars
  <2>1. CASE UNCHANGED outbox
    BY <2>0, <2>1, <1>s
  <2>2. CASE HasRoom(c) /\ outbox' = [outbox EXCEPT ![c] = Append(@, Reply)]
    <3>1. /\ outbox'[c] = Append(outbox[c], Reply) /\ Len(outbox[c]) < OutboxCap
          /\ \A k \in Conns \ {c} : UNCHANGED <<sock[k], outbox[k]>>
      BY <1>0, <2>0, <2>2 DEF HasRoom, TypeOK
    <3>2. takenBar' = takenBar /\ phaseBar' = phaseBar
      BY <2>0 DEF takenBar, phaseBar
    <3>3. CASE sock[c] = "up"
      <4>1. /\ phaseBar[c] = "live" /\ queueBar[c] = outbox[c] /\ queueBar'[c] = outbox'[c]
        BY <2>0, <3>3 DEF phaseBar, queueBar
      <4>2. Promise!Enter(c, Reply)
        BY <2>0, <3>1, <3>2, <4>1, BarAt DEF Promise!Enter
      <4>3. Promise!Note(c)
        BY <3>2, <4>2 DEF Promise!Note
      <4> QED BY <4>3 DEF Promise!Next
    <3>4. CASE sock[c] # "up"
      <4>1. \A k \in Conns : queueBar'[k] = queueBar[k]
        BY <2>0, <3>1, <3>4 DEF queueBar
      <4>2. queueBar' = queueBar
        BY <4>1 DEF queueBar
      <4> QED BY <2>0, <3>2, <4>2
    <3> QED BY <3>3, <3>4
  <2> QED BY <1>5, <2>1, <2>2 DEF SendReply
<1>6. ASSUME NEW c \in Conns, Write(c) PROVE Goal
  <2>1. /\ sock[c] = "up" /\ outbox[c] # <<>> /\ outbox'[c] = Tail(outbox[c])
        /\ delivered' = [delivered EXCEPT ![c] = Append(@, Head(outbox[c]))]
        /\ \A k \in Conns \ {c} : UNCHANGED <<sock[k], outbox[k]>>
        /\ UNCHANGED <<sock, req>>
    BY <1>0, <1>6 DEF Write, Sending, connVars, reqVars, TypeOK
  <2>2. takenBar' = takenBar /\ phaseBar' = phaseBar
    BY <2>1 DEF takenBar, phaseBar
  <2>3. phaseBar[c] = "live" /\ queueBar[c] = outbox[c] /\ queueBar'[c] = outbox'[c]
    BY <2>1 DEF phaseBar, queueBar
  <2>4. Promise!Arrive(c)
    BY <2>1, <2>2, <2>3, BarAt DEF Promise!Arrive
  <2> QED BY <2>4 DEF Promise!Next
<1>7. ASSUME NEW c \in Conns, WriteIntoVoid(c) \/ WriteError(c) PROVE Goal
  <2>1. /\ sock[c] # "up" /\ UNCHANGED <<sock, delivered, req>>
        /\ \A k \in Conns \ {c} : outbox'[k] = outbox[k]
    BY <1>0, <1>7 DEF WriteIntoVoid, WriteError, Sending, connVars, reqVars, TypeOK
  <2>2. \A k \in Conns : queueBar'[k] = queueBar[k]
    BY <2>1 DEF queueBar
  <2>3. queueBar' = queueBar /\ takenBar' = takenBar /\ phaseBar' = phaseBar
    BY <2>1, <2>2 DEF queueBar, takenBar, phaseBar
  <2> QED BY <2>1, <2>3
<1>8. ASSUME NEW m \in Msgs, NEW d \in Devices, Lookup(m, d) PROVE Goal
  <2>1. UNCHANGED <<sock, outbox, delivered>> /\ \A n \in Msgs : req'[n] = "ok" <=> req[n] = "ok"
    BY <1>0, <1>8 DEF Lookup, connVars, chanVars, TypeOK
  <2> QED BY <2>1 DEF phaseBar, queueBar, takenBar
<1>9. ASSUME NEW m \in Msgs, TrySend(m) PROVE Goal
  <2> DEFINE c == target[m]
  <2>0. /\ c \in Conns /\ req[m] = "holding" /\ UNCHANGED <<delivered, target, sock>>
        /\ sock[c] # "none"
    BY <1>0, <1>9, ConstantsAssumption
    DEF TrySend, connVars, LinkInv, RequestAimed, SetUp, ConstantsAssumption
  <2>1. CASE UNCHANGED outbox /\ req' = [req EXCEPT ![m] = "queue_full"]
    <3>1. \A n \in Msgs : req'[n] = "ok" <=> req[n] = "ok"
      BY <1>0, <2>0, <2>1 DEF TypeOK
    <3> QED BY <2>0, <2>1, <3>1 DEF phaseBar, queueBar, takenBar
  <2>2. CASE /\ HasRoom(c) /\ outbox' = [outbox EXCEPT ![c] = Append(@, m)]
             /\ req' = [req EXCEPT ![m] = "ok"]
    <3>1. /\ outbox'[c] = Append(outbox[c], m) /\ Len(outbox[c]) < OutboxCap
          /\ \A k \in Conns \ {c} : UNCHANGED <<sock[k], outbox[k]>>
          /\ \A n \in Msgs : req'[n] = "ok" <=> req[n] = "ok" \/ n = m
      BY <1>0, <2>0, <2>2 DEF HasRoom, TypeOK
    <3>2. m \in Msgs \ takenBar /\ takenBar' = takenBar \cup {m} /\ phaseBar' = phaseBar
      BY <2>0, <3>1 DEF takenBar, phaseBar
    <3>3. CASE sock[c] = "up"
      <4>1. /\ phaseBar[c] = "live" /\ queueBar[c] = outbox[c] /\ queueBar'[c] = outbox'[c]
        BY <2>0, <3>3 DEF phaseBar, queueBar
      <4>2. queueBar' = [queueBar EXCEPT ![c] = Append(@, m)]
        BY <2>0, <3>1, <4>1, BarAt
      <4>3. Promise!Enter(c, m)
        BY <2>0, <3>1, <3>2, <4>1, <4>2 DEF Promise!Enter
      <4>4. Promise!Accept(c)
        BY <3>2, <4>3 DEF Promise!Accept
      <4> QED BY <2>0, <4>4 DEF Promise!Next
    <3>4. CASE sock[c] # "up"
      <4>1. \A k \in Conns : queueBar'[k] = queueBar[k]
        BY <2>0, <3>1, <3>4 DEF queueBar
      <4>2. queueBar' = queueBar
        BY <4>1 DEF queueBar
      <4>3. phaseBar[c] = "over"
        BY <2>0, <3>4 DEF phaseBar
      <4>4. Promise!AcceptTooLate
        BY <2>0, <3>2, <4>2, <4>3 DEF Promise!AcceptTooLate
      <4> QED BY <4>4 DEF Promise!Next
    <3> QED BY <3>3, <3>4
  <2> QED BY <1>9, <2>1, <2>2 DEF TrySend
<1>10. ASSUME NEW d \in Devices, RemoveDevice(d) PROVE Goal
  BY <1>10, <1>s DEF RemoveDevice, connVars, chanVars, reqVars
<1>11. ASSUME UNCHANGED vars PROVE Goal
  BY <1>11, <1>s DEF vars, connVars, chanVars, reqVars
<1>12. Goal
  <2> HIDE DEF Goal
  <2> QED BY <1>1, <1>2, <1>3, <1>4, <1>5, <1>6, <1>7, <1>8, <1>9, <1>10, <1>11
          DEF Next, ReaderStep, WriterStep
<1> QED BY <1>12, <1>q

\* For every set of phones, connections and requests and every capacity, the
\* link is the bounded first-in first-out queues Outbox promises: accepted
\* once, in order, none lost before the end of the connection.
THEOREM LinkImplementsOutbox == Spec => ImplementsOutbox
<1>1. Init => Promise!Init
  BY DEF Init, Promise!Init, phaseBar, queueBar, takenBar
<1> QED BY <1>1, LinkInvariant, StepRefines, PTL DEF Spec, ImplementsOutbox, Promise!Spec
===============================================================================
