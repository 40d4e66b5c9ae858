---------------------------- MODULE PairingProofs ----------------------------
(***************************************************************************)
(* Proofs about Pairing for any number of attempts, disconnections and     *)
(* restarts.                                                               *)
(***************************************************************************)
EXTENDS Pairing, SequenceTheorems, FiniteSetTheorems, TLAPS

\* Users have agreed: to the code on the phone, or both to a phone-initiated
\* pairing.
Agreed == clicks # <<>> \/ (inits > 0 /\ grants > 0)

\* Envelopes that may be on their way to the desktop.
UpMsgs == {m \in Message : /\ m.type = "confirm" /\ m.ok => clicks # <<>>
                           /\ m.type = "complete" => Agreed}

\* Envelopes that may be on their way to the phone.
DownMsgs == {m \in Message : /\ m.type = "complete" => clicks # <<>>
                             /\ m.type = "confirm" /\ m.ok => grants > 0}

\* What a handler may hold between two lock sections.
Holds == {t \in Held : /\ t.what = "confirm" /\ t.ok => clicks # <<>>
                       /\ t.what = "complete" => Agreed}

\* Consent precedes every envelope and every session that rests on it.
ConsentAhead ==
    /\ up \in [Handlers -> Seq(UpMsgs)]
    /\ down \in Seq(DownMsgs)
    /\ taken \in [Handlers -> Holds]
    /\ session.kind = "paired" => Agreed
    /\ phone.st = "Initiating" => inits > 0
    /\ phone.st = "Paired" => clicks # <<>>

\* Before the first fault there is one handler, and while it holds a session
\* the map has no paired one.
OneHandler ==
    faults = 0 => /\ OldIdle
                  /\ taken["cur"] # Nothing => session.kind # "paired"

\* The inductive invariant.
PairInv == TypeOK /\ ConsentAhead /\ OneHandler

-----------------------------------------------------------------------------
\* Prefixes and suffixes of a queue hold what the queue holds.
LEMMA CutFacts ==
    ASSUME NEW S, NEW s \in Seq(S)
    PROVE  /\ \A j \in 0..Len(s) : SubSeq(s, 1, j) \in Seq(S)
           /\ \A k \in 0..Len(s) : SubSeq(s, k + 1, Len(s)) \in Seq(S)
           /\ s # <<>> => Head(s) \in S /\ Tail(s) \in Seq(S)
           /\ \A e \in S : Append(s, e) \in Seq(S) /\ Append(s, e) # <<>>
<1>1. Len(s) \in Nat /\ \A i \in 1..Len(s) : s[i] \in S
  BY LenProperties, ElementOfSeq
<1>2. ASSUME NEW j \in 0..Len(s) PROVE SubSeq(s, 1, j) \in Seq(S)
  <2>1. j \in Int /\ 1 \in Int /\ \A i \in 1..j : s[i] \in S
    BY <1>1
  <2> QED BY ONLY <2>1, SubSeqProperties
<1>3. ASSUME NEW k \in 0..Len(s) PROVE SubSeq(s, k + 1, Len(s)) \in Seq(S)
  <2>1. k + 1 \in Int /\ Len(s) \in Int /\ \A i \in (k + 1)..Len(s) : s[i] \in S
    BY <1>1
  <2> QED BY ONLY <2>1, SubSeqProperties
<1>4. s # <<>> => Head(s) \in S /\ Tail(s) \in Seq(S)
  BY HeadTailProperties
<1>5. \A e \in S : Append(s, e) \in Seq(S) /\ Append(s, e) # <<>>
  BY AppendProperties
<1> QED BY <1>2, <1>3, <1>4, <1>5

\* A queue of one allowed envelope is a queue of allowed envelopes.
LEMMA Single == ASSUME NEW S, NEW e \in S PROVE <<e>> \in Seq(S)
OBVIOUS

\* A queue of allowed envelopes stays one when more envelopes are allowed.
LEMMA Widen == ASSUME NEW S, NEW T, S \subseteq T, NEW s \in Seq(S) PROVE s \in Seq(T)
OBVIOUS

-----------------------------------------------------------------------------
\* What may be in the map and in a handler's hands, and what is read off it.
LEMMA Shapes ==
    /\ Started \subseteq Attempts /\ 0 \in Attempts
    /\ NoSession \in Session /\ [kind |-> "responder", att |-> 0] \in Session
    /\ \A n \in Started, k \in {"initiator", "paired"} : [kind |-> k, att |-> n] \in Session
    /\ \A s \in Session : /\ s.kind \in {"none", "responder", "initiator", "paired"}
                          /\ s.att \in Attempts
                          /\ s.kind \in {"initiator", "paired"} => s.att \in Started
    /\ Nothing \in Held /\ HelloHeld \in Held
    /\ \A n \in Started, w \in {"challenge", "confirm", "complete"}, o \in BOOLEAN :
          [what |-> w, att |-> n, ok |-> o] \in Held
    /\ \A t \in Held : /\ t.what \in {"nothing", "hello", "challenge", "confirm", "complete"}
                       /\ t.att \in Attempts /\ t.ok \in BOOLEAN
                       /\ t.what \in {"challenge", "confirm", "complete"} => t.att \in Started
<1>1. Started \subseteq Attempts /\ 0 \in Attempts
  BY BoundsAssumption DEF BoundsAssumption, Started, Attempts
<1>2. /\ NoSession \in Session /\ [kind |-> "responder", att |-> 0] \in Session
      /\ \A n \in Started, k \in {"initiator", "paired"} : [kind |-> k, att |-> n] \in Session
  BY DEF Session, NoSession
<1>3. ASSUME NEW s \in Session
      PROVE  /\ s.kind \in {"none", "responder", "initiator", "paired"}
             /\ s.att \in Attempts
             /\ s.kind \in {"initiator", "paired"} => s.att \in Started
  <2>1. CASE s \in [kind : {"none", "responder"}, att : {0}]
    BY <1>1, <2>1
  <2>2. CASE s \in [kind : {"initiator", "paired"}, att : Started]
    BY <1>1, <2>2
  <2> QED BY <2>1, <2>2 DEF Session
<1>4. /\ Nothing \in Held /\ HelloHeld \in Held
      /\ \A n \in Started, w \in {"challenge", "confirm", "complete"}, o \in BOOLEAN :
            [what |-> w, att |-> n, ok |-> o] \in Held
  BY DEF Held, Nothing, HelloHeld
<1>5. ASSUME NEW t \in Held
      PROVE  /\ t.what \in {"nothing", "hello", "challenge", "confirm", "complete"}
             /\ t.att \in Attempts /\ t.ok \in BOOLEAN
             /\ t.what \in {"challenge", "confirm", "complete"} => t.att \in Started
  <2>1. CASE t \in [what : {"nothing", "hello"}, att : {0}, ok : {FALSE}]
    BY <1>1, <2>1
  <2>2. CASE t \in [what : {"challenge", "confirm", "complete"}, att : Started, ok : BOOLEAN]
    BY <1>1, <2>2
  <2> QED BY <2>1, <2>2 DEF Held
<1> QED BY <1>1, <1>2, <1>3, <1>4, <1>5

-----------------------------------------------------------------------------
\* Types survive a step of the handlers, the phone, the users and the
\* connection.
LEMMA TypeStep == TypeOK /\ [Next]_vars => TypeOK'
<1> SUFFICES ASSUME TypeOK, [Next]_vars PROVE TypeOK'
  OBVIOUS
<1> USE BoundsAssumption DEF BoundsAssumption, TypeOK, Attempts, Types, Message, Msg, PhoneStates
<1>1. \A h \in Handlers : up[h] \in Seq(Message) /\ taken[h] \in Held
  OBVIOUS
<1>2. \A h \in Handlers : up[h] # <<>> => Head(up[h]) \in Message /\ Tail(up[h]) \in Seq(Message)
  BY <1>1, CutFacts
<1>3. \A m \in Message : Append(up["cur"], m) \in Seq(Message) /\ Append(down, m) \in Seq(Message)
  BY CutFacts DEF Handlers
<1>4. down # <<>> => Head(down) \in Message /\ Tail(down) \in Seq(Message)
  BY CutFacts
<1>5. \A j \in 0..Len(up["cur"]) : /\ SubSeq(up["cur"], 1, j) \in Seq(Message)
                                   /\ SubSeq(up["cur"], j + 1, Len(up["cur"])) \in Seq(Message)
  BY CutFacts DEF Handlers
<1>0. Started \subseteq Attempts
  BY Shapes
<1>6. "cur" \in Handlers /\ "old" \in Handlers
  BY DEF Handlers
<1>7. \A h \in Handlers, e \in Seq(Message) : [up EXCEPT ![h] = e] \in [Handlers -> Seq(Message)]
  OBVIOUS
<1>8. \A h \in Handlers, e \in Held : [taken EXCEPT ![h] = e] \in [Handlers -> Held]
  OBVIOUS
<1>9. \A t \in Types, a \in Attempts, o \in BOOLEAN : Msg(t, a, o) \in Message
  OBVIOUS
<1>10. \A t \in Types, o \in BOOLEAN : Msg(t, 0, o) \in Message
  BY <1>9
<1> HIDE DEF Message, Msg
<1>11. ASSUME NEW h \in Handlers, RecvHello(h) PROVE TypeOK'
  <2>1. HelloHeld \in Held
    BY Shapes
  <2> QED BY <1>11, <1>2, <1>7, <1>8, <2>1 DEF RecvHello, Arrives, phoneVars, histVars
<1>12. ASSUME NEW h \in Handlers, InsertResponder(h) PROVE TypeOK'
  <2>1. Nothing \in Held /\ [kind |-> "responder", att |-> 0] \in Session
    BY Shapes
  <2> QED BY <1>12, <1>8, <2>1 DEF InsertResponder, linkVars, phoneVars, histVars
<1>13. ASSUME NEW h \in Handlers, RecvRequest(h) PROVE TypeOK'
  BY <1>13, <1>2, <1>7 DEF RecvRequest, Arrives, linkVars, phoneVars, histVars
<1>14. ASSUME NEW h \in Handlers, NEW t \in {"challenge", "confirm"}, TakeInitiator(h, t) PROVE TypeOK'
  <2>1. session.kind = "initiator" =>
           [what |-> t, att |-> session.att, ok |-> Head(up[h]).ok] \in Held
    <3>1. Head(up[h]).ok \in BOOLEAN
      BY <1>14, <1>2 DEF Message, TakeInitiator, Arrives
    <3> QED BY <3>1, Shapes
  <2>2. taken' \in [Handlers -> Held] /\ session' \in Session
    <3>1. NoSession \in Session
      BY Shapes
    <3>2. CASE session.kind = "initiator"
      BY <1>14, <1>8, <2>1, <3>1, <3>2 DEF TakeInitiator
    <3>3. CASE session.kind # "initiator"
      BY <1>14, <3>3 DEF TakeInitiator
    <3> QED BY <3>2, <3>3
  <2>3. up' \in [Handlers -> Seq(Message)]
    BY <1>14, <1>2, <1>7 DEF TakeInitiator, Arrives
  <2> QED BY <1>14, <2>2, <2>3 DEF TakeInitiator, linkVars, phoneVars, histVars
<1>15. ASSUME NEW h \in Handlers, FinishChallenge(h) PROVE TypeOK'
  <2>1. /\ Nothing \in Held /\ taken[h].att \in Attempts
        /\ [kind |-> "initiator", att |-> taken[h].att] \in Session
    BY <1>1, <1>15, Shapes DEF FinishChallenge
  <2>2. Msg("reject", taken[h].att, FALSE) \in Message
    BY <2>1, <1>9
  <2> QED BY <1>15, <1>3, <1>8, <2>1, <2>2
          DEF FinishChallenge, PutBack, ReplyToPhone, linkVars, phoneVars, histVars
<1>16. ASSUME NEW h \in Handlers, FinishConfirm(h) PROVE TypeOK'
  <2>1. Nothing \in Held /\ taken[h].att \in Attempts
    BY <1>1, Shapes
  <2>2. Msg("complete", taken[h].att, TRUE) \in Message
    BY <2>1, <1>9
  <2>3. taken' \in [Handlers -> Held]
    BY <1>16, <1>8, <2>1 DEF FinishConfirm
  <2>4. [kind |-> "initiator", att |-> taken[h].att] \in Session
    BY <1>1, <1>16, Shapes DEF FinishConfirm
  <2>5. session' \in Session /\ completes' \in Nat /\ down' \in Seq(Message)
    <3>1. CASE taken[h].ok
      <4>1. /\ session' = [kind |-> "initiator", att |-> taken[h].att]
            /\ completes' = completes + 1
            /\ down' \in {down, Append(down, Msg("complete", taken[h].att, TRUE))}
        BY <1>16, <3>1 DEF FinishConfirm, PutBack, ReplyToPhone
      <4>2. down' \in Seq(Message)
        BY <1>3, <2>2, <4>1
      <4> QED BY <2>4, <4>1, <4>2
    <3>2. CASE ~taken[h].ok
      BY <1>16, <3>2 DEF FinishConfirm
    <3> QED BY <3>1, <3>2
  <2> QED BY <1>16, <2>3, <2>5 DEF FinishConfirm, linkVars, phoneVars
<1>17. ASSUME NEW h \in Handlers, RecvComplete(h) PROVE TypeOK'
  <2>1. session.kind = "initiator" =>
           [what |-> "complete", att |-> session.att, ok |-> TRUE] \in Held
    BY Shapes
  <2>2. taken' \in [Handlers -> Held] /\ session' \in Session
    <3>1. NoSession \in Session
      BY Shapes
    <3>2. CASE session.kind = "initiator"
      BY <1>17, <1>8, <2>1, <3>1, <3>2 DEF RecvComplete
    <3>3. CASE session.kind = "responder"
      BY <1>17, <3>1, <3>3 DEF RecvComplete
    <3>4. CASE session.kind \notin {"initiator", "responder"}
      BY <1>17, <3>4 DEF RecvComplete
    <3> QED BY <3>2, <3>3, <3>4
  <2>3. up' \in [Handlers -> Seq(Message)]
    BY <1>17, <1>2, <1>7 DEF RecvComplete, Arrives
  <2> QED BY <1>17, <2>2, <2>3 DEF RecvComplete, linkVars, phoneVars, histVars
<1>18. ASSUME NEW h \in Handlers, FinishComplete(h) PROVE TypeOK'
  <2>1. /\ Nothing \in Held
        /\ [kind |-> "paired", att |-> taken[h].att] \in Session
    BY <1>1, <1>18, Shapes DEF FinishComplete
  <2> QED BY <1>18, <1>8, <2>1 DEF FinishComplete, linkVars, phoneVars, histVars
<1>21. ASSUME PairStart PROVE TypeOK'
  <2>1. starts' \in Attempts /\ starts' \in 0..MaxStarts /\ starts' \in Started
    BY <1>21 DEF PairStart, Started
  <2>2. Msg("request", starts', TRUE) \in Message
    BY <2>1, <1>9
  <2> QED BY <1>21, <1>3, <2>1, <2>2 DEF PairStart, PushToPhone, linkVars, phoneVars, histVars
<1>22. ASSUME NEW n \in Attempts, InsertInitiator(n) PROVE TypeOK'
  <2>1. [kind |-> "initiator", att |-> n] \in Session
    BY <1>22, Shapes DEF InsertInitiator
  <2> QED BY <1>22, <2>1 DEF InsertInitiator, linkVars, phoneVars, histVars
<1>23. ASSUME NEW a \in BOOLEAN, Decide(a) PROVE TypeOK'
  <2>1. Msg("confirm", 0, a) \in Message
    BY <1>10
  <2>2. down' \in Seq(Message)
    BY <1>23, <1>3, <2>1 DEF Decide, PushToPhone
  <2>3. grants' \in Nat
    BY <1>23 DEF Decide
  <2> QED BY <1>23, <2>2, <2>3 DEF Decide, linkVars, phoneVars
<1>24. ASSUME RemoveDevice PROVE TypeOK'
  BY <1>24, Shapes DEF RemoveDevice, phoneVars, histVars
<1>30. ASSUME OnHello PROVE TypeOK'
  <2>1. Msg("hello", 0, TRUE) \in Message
    BY <1>10
  <2>2. Append(up["cur"], Msg("hello", 0, TRUE)) \in Seq(Message)
    BY <1>3, <2>1
  <2>3. up' \in {up, [up EXCEPT !["cur"] = Append(@, Msg("hello", 0, TRUE))]}
    BY <1>30 DEF OnHello, ToDesktop
  <2>4. up' \in [Handlers -> Seq(Message)]
    BY <1>6, <1>7, <2>2, <2>3
  <2> QED BY <1>30, <1>4, <2>4
          DEF OnHello, Delivered, PhoneOnly, deskVars, linkVars, phoneVars, histVars
<1>31. ASSUME OnRequest PROVE TypeOK'
  <2>1. Head(down) \in Message /\ Head(down).att \in Attempts
    BY <1>31, <1>4 DEF OnRequest, Delivered, Message
  <2>2. Msg("challenge", Head(down).att, TRUE) \in Message
    BY <2>1, <1>9
  <2> QED BY <1>31, <1>3, <1>4, <1>6, <1>7, <2>1, <2>2
          DEF OnRequest, Delivered, ToDesktop, PhoneOnly, deskVars, linkVars, histVars
<1>32. ASSUME OnConfirm PROVE TypeOK'
  <2>1. Msg("complete", 0, TRUE) \in Message
    BY <1>10
  <2>2. up' \in [Handlers -> Seq(Message)]
    BY <1>32, <1>3, <1>6, <1>7, <2>1 DEF OnConfirm, ToDesktop
  <2>3. down' \in Seq(Message)
    BY <1>32, <1>4 DEF OnConfirm, Delivered
  <2>4. phone' \in [st : PhoneStates, att : Attempts]
    <3>1. phone' \in {phone, [st |-> "Confirming", att |-> 0], [st |-> "Failed", att |-> 0]}
      BY <1>32 DEF OnConfirm
    <3> QED BY <3>1
  <2> QED BY <1>32, <2>2, <2>3, <2>4 DEF OnConfirm, PhoneOnly, deskVars, linkVars, histVars
<1>33. ASSUME OnComplete PROVE TypeOK'
  <2>1. Head(down) \in Message /\ Head(down).att \in Attempts
    BY <1>33, <1>4 DEF OnComplete, Delivered, Message
  <2>2. Msg("complete", Head(down).att, TRUE) \in Message
    BY <2>1, <1>9
  <2> QED BY <1>33, <1>3, <1>4, <1>6, <1>7, <2>1, <2>2
          DEF OnComplete, Delivered, ToDesktop, PhoneOnly, deskVars, linkVars, histVars
<1>34. ASSUME OnReject PROVE TypeOK'
  BY <1>34, <1>4 DEF OnReject, Delivered, PhoneOnly, deskVars, linkVars, histVars
<1>35. ASSUME Expire PROVE TypeOK'
  BY <1>35 DEF Expire, PhoneOnly, deskVars, linkVars, histVars
<1>36. ASSUME UserAccepts PROVE TypeOK'
  <2>1. Msg("confirm", phone.att, TRUE) \in Message /\ Append(clicks, phone.att) \in Seq(Attempts)
    BY <1>9, CutFacts
  <2>2. up' \in [Handlers -> Seq(Message)]
    <3>1. CASE expired
      BY <1>36, <3>1 DEF UserAccepts
    <3>2. CASE ~expired
      <4>1. Append(up["cur"], Msg("confirm", phone.att, TRUE)) \in Seq(Message)
        BY <1>3, <2>1
      <4>2. up' = [up EXCEPT !["cur"] = Append(@, Msg("confirm", phone.att, TRUE))]
        BY <1>36, <3>2 DEF UserAccepts, ToDesktop
      <4> QED BY <1>6, <1>7, <4>1, <4>2
    <3> QED BY <3>1, <3>2
  <2>3. clicks' \in Seq(Attempts) /\ phone' \in [st : PhoneStates, att : Attempts]
    BY <1>36, <2>1 DEF UserAccepts
  <2> QED BY <1>36, <2>2, <2>3 DEF UserAccepts, deskVars, linkVars
<1>37. ASSUME UserRejects PROVE TypeOK'
  <2>1. Msg("confirm", phone.att, FALSE) \in Message
    BY <1>9
  <2> QED BY <1>37, <1>3, <1>6, <1>7, <2>1
          DEF UserRejects, ToDesktop, PhoneOnly, deskVars, linkVars, histVars
<1>38. ASSUME UserResets PROVE TypeOK'
  BY <1>38 DEF UserResets, PhoneOnly, deskVars, linkVars, histVars
<1>39. ASSUME UserInitiates PROVE TypeOK'
  <2>1. Msg("request", 0, TRUE) \in Message
    BY <1>10
  <2>2. up' \in [Handlers -> Seq(Message)]
    BY <1>39, <1>3, <1>6, <1>7, <2>1 DEF UserInitiates, ToDesktop
  <2>3. phone' \in [st : PhoneStates, att : Attempts] /\ inits' \in 0..MaxInits
    BY <1>39 DEF UserInitiates
  <2> QED BY <1>39, <2>2, <2>3 DEF UserInitiates, deskVars, linkVars, histVars
<1>41. ASSUME Reconnect PROVE TypeOK'
  <2>1. Msg("hello", 0, TRUE) \in Message
    BY <1>10
  <2>2. <<Msg("hello", 0, TRUE)>> \in Seq(Message)
    BY <2>1, Single
  <2> QED BY <1>41, <1>3, <1>6, <1>7, <2>1, <2>2 DEF Reconnect, ToDesktop, deskVars, phoneVars, histVars
<1>42. ASSUME NEW j \in 0..Len(up["cur"]), NEW k \in 0..Len(up["cur"]), Disconnect(j, k)
       PROVE  /\ link' \in BOOLEAN /\ closing' \in BOOLEAN
              /\ registered' \in {"no", "live", "stale"}
              /\ said' \in [Handlers -> BOOLEAN] /\ taken' \in [Handlers -> Held]
              /\ down' \in Seq(Message) /\ up' \in [Handlers -> Seq(Message)]
  <2>1. Nothing \in Held
    BY Shapes
  <2>2. said' \in [Handlers -> BOOLEAN]
    BY <1>42, <1>6 DEF Disconnect
  <2>3. taken' \in [Handlers -> Held]
    BY <1>42, <1>1, <1>6, <2>1 DEF Disconnect
  <2>4. up' \in [Handlers -> Seq(Message)] /\ down' \in Seq(Message)
    <3>1. SubSeq(up["cur"], 1, j) \in Seq(Message) /\ SubSeq(up["cur"], k + 1, Len(up["cur"])) \in Seq(Message)
      BY <1>5
    <3>2. <<>> \in Seq(Message)
      OBVIOUS
    <3> QED BY <1>42, <1>6, <3>1, <3>2 DEF Disconnect
  <2> QED BY <1>42, <2>2, <2>3, <2>4 DEF Disconnect
<1>43. ASSUME Drop PROVE TypeOK'
  <2>1. PICK k \in 0..Len(up["cur"]) : \E j \in 0..k : Disconnect(j, k)
    BY <1>43 DEF Drop
  <2>2. PICK j \in 0..k : Disconnect(j, k)
    BY <2>1
  <2>3. j \in 0..Len(up["cur"])
    BY <1>1, <1>6
  <2> QED BY <1>43, <1>42, <2>2, <2>3 DEF Drop, phoneVars, histVars
<1>44. ASSUME Unregister PROVE TypeOK'
  BY <1>44 DEF Unregister, deskVars, phoneVars, histVars
<1>45. ASSUME DesktopRestarts PROVE TypeOK'
  <2>1. Nothing \in Held
    BY Shapes
  <2>2. PICK k \in 0..Len(up["cur"]) :
           up' = [up EXCEPT !["cur"] = SubSeq(@, k + 1, Len(@)), !["old"] = <<>>]
    BY <1>45 DEF DesktopRestarts
  <2>3. up' \in [Handlers -> Seq(Message)]
    <3>1. SubSeq(up["cur"], k + 1, Len(up["cur"])) \in Seq(Message) /\ <<>> \in Seq(Message)
      BY <1>5
    <3> QED BY <1>6, <2>2, <3>1
  <2>4. session' \in Session /\ taken' \in [Handlers -> Held] /\ said' \in [Handlers -> BOOLEAN]
    BY <1>45, <2>1, Shapes DEF DesktopRestarts
  <2>5. faults' \in 0..MaxFaults /\ starting' \subseteq Started /\ down' \in Seq(Message)
    BY <1>45 DEF DesktopRestarts
  <2>6. pending' \in BOOLEAN /\ closing' \in BOOLEAN /\ link' \in BOOLEAN /\ registered' \in {"no", "live", "stale"}
    BY <1>45 DEF DesktopRestarts
  <2> QED BY <1>45, <2>3, <2>4, <2>5, <2>6 DEF DesktopRestarts, phoneVars, histVars
<1>46. ASSUME PhoneRestarts PROVE TypeOK'
  <2>2. Len(up["cur"]) \in 0..Len(up["cur"])
    BY <1>1, <1>6
  <2>3. phone' \in [st : PhoneStates, att : Attempts]
    BY <1>46 DEF PhoneRestarts
  <2>4. faults' \in 0..MaxFaults
    BY <1>46 DEF PhoneRestarts
  <2>6. expired' \in BOOLEAN
    BY <1>46 DEF PhoneRestarts
  <2> DEFINE LinkTyped ==
               /\ link' \in BOOLEAN /\ closing' \in BOOLEAN
               /\ registered' \in {"no", "live", "stale"}
               /\ said' \in [Handlers -> BOOLEAN] /\ taken' \in [Handlers -> Held]
               /\ down' \in Seq(Message) /\ up' \in [Handlers -> Seq(Message)]
  <2>5. LinkTyped
    <3>1. ASSUME NEW j \in 0..Len(up["cur"]), Disconnect(j, Len(up["cur"])) PROVE LinkTyped
      BY <1>42, <2>2, <3>1
    <3>2. CASE UNCHANGED <<taken, linkVars, down>> /\ up' = [up EXCEPT !["cur"] = <<>>]
      BY <1>6, <3>2 DEF linkVars
    <3> QED BY <1>46, <3>1, <3>2 DEF PhoneRestarts
  <2> QED BY <1>46, <2>3, <2>4, <2>5, <2>6 DEF PhoneRestarts, histVars
<1>47. CASE UNCHANGED vars
  BY <1>47 DEF vars, deskVars, linkVars, phoneVars, histVars
<1> QED
  BY <1>11, <1>12, <1>13, <1>14, <1>15, <1>16, <1>17, <1>18, <1>21, <1>22, <1>23, <1>24, <1>30, <1>31, <1>32, <1>33,
     <1>34, <1>35, <1>36, <1>37, <1>38, <1>39, <1>41, <1>43, <1>44, <1>45, <1>46, <1>47
  DEF Next, Dispatch, RecvChallenge, RecvConfirm, PhoneHandles, User, Fault

-----------------------------------------------------------------------------
\* What the users have agreed to is never taken back, so whatever was allowed
\* in a queue or in the hands of a handler stays allowed.
LEMMA ConsentGrows ==
    ASSUME TypeOK, ConsentAhead, [Next]_vars
    PROVE  /\ clicks # <<>> => clicks' # <<>>
           /\ Agreed => Agreed'
           /\ UpMsgs \subseteq UpMsgs' /\ DownMsgs \subseteq DownMsgs' /\ Holds \subseteq Holds'
           /\ up \in [Handlers -> Seq(UpMsgs')]
           /\ down \in Seq(DownMsgs')
           /\ taken \in [Handlers -> Holds']
<1> DEFINE Kept == /\ clicks # <<>> => clicks' # <<>>
                   /\ inits > 0 => inits' > 0
                   /\ grants > 0 => grants' > 0
<1>1. Kept
  <2>1. CASE UserAccepts
    <3>1. Append(clicks, phone.att) # <<>>
      BY CutFacts DEF TypeOK
    <3> QED BY <2>1, <3>1 DEF UserAccepts
  <2>2. CASE UserInitiates
    BY <2>2 DEF UserInitiates, histVars, TypeOK
  <2>3. ASSUME NEW a \in BOOLEAN, Decide(a) PROVE Kept
    BY <2>3 DEF Decide, TypeOK
  <2>4. CASE UNCHANGED <<clicks, inits, grants>>
    BY <2>4
  <2>5. UserAccepts \/ UserInitiates \/ (\E a \in BOOLEAN : Decide(a)) \/ UNCHANGED <<clicks, inits, grants>>
    BY DEF Next, Dispatch, PhoneHandles, User, Fault, vars, histVars, PhoneOnly,
       RecvHello, InsertResponder, RecvRequest, RecvChallenge, RecvConfirm, TakeInitiator,
       FinishChallenge, FinishConfirm, RecvComplete, FinishComplete, InsertInitiator, PairStart,
       OnHello, OnRequest, OnConfirm, OnComplete, OnReject, Expire, UserRejects, UserResets,
       RemoveDevice, Drop, DesktopRestarts, PhoneRestarts, Reconnect, Unregister
  <2> QED BY <2>1, <2>2, <2>3, <2>4, <2>5
<1>2. Agreed => Agreed'
  BY <1>1 DEF Agreed
<1>3. UpMsgs \subseteq UpMsgs' /\ DownMsgs \subseteq DownMsgs' /\ Holds \subseteq Holds'
  BY <1>1, <1>2 DEF UpMsgs, DownMsgs, Holds, Message, Held
<1>4. \A h \in Handlers : up[h] \in Seq(UpMsgs')
  BY <1>3, Widen DEF ConsentAhead
<1>5. down \in Seq(DownMsgs')
  BY <1>3, Widen DEF ConsentAhead
<1> QED BY <1>1, <1>2, <1>3, <1>4, <1>5 DEF ConsentAhead

\* Every step keeps consent ahead of what rests on it: an Accept is queued
\* only by a press of the button, a certificate leaves only on an Accept, and
\* a session is paired only on a certificate.
LEMMA ConsentStep == ASSUME TypeOK, ConsentAhead, [Next]_vars PROVE ConsentAhead'
<1>0. /\ TypeOK' /\ "cur" \in Handlers /\ "old" \in Handlers
      /\ clicks # <<>> => clicks' # <<>>
      /\ Agreed => Agreed'
      /\ UpMsgs \subseteq UpMsgs' /\ DownMsgs \subseteq DownMsgs' /\ Holds \subseteq Holds'
      /\ up \in [Handlers -> Seq(UpMsgs')]
      /\ down \in Seq(DownMsgs')
      /\ taken \in [Handlers -> Holds']
      /\ session.kind = "paired" => Agreed'
      /\ phone.st = "Paired" => clicks' # <<>>
  BY TypeStep, ConsentGrows DEF Handlers, ConsentAhead
<1>1. \A h \in Handlers : up[h] # <<>> => Head(up[h]) \in UpMsgs /\ Tail(up[h]) \in Seq(UpMsgs')
  BY <1>0, CutFacts DEF ConsentAhead
<1>2. down # <<>> => Head(down) \in DownMsgs /\ Tail(down) \in Seq(DownMsgs')
  BY <1>0, CutFacts DEF ConsentAhead
<1>3. /\ \A m \in UpMsgs' : Append(up["cur"], m) \in Seq(UpMsgs')
      /\ \A m \in DownMsgs' : Append(down, m) \in Seq(DownMsgs')
  BY <1>0, CutFacts
<1>4. /\ \A h \in Handlers, e \in Seq(UpMsgs') : [up EXCEPT ![h] = e] \in [Handlers -> Seq(UpMsgs')]
      /\ \A h \in Handlers, e \in Holds' : [taken EXCEPT ![h] = e] \in [Handlers -> Holds']
  BY <1>0
<1>5. Nothing \in Holds' /\ HelloHeld \in Holds'
  BY Shapes DEF Holds, Nothing, HelloHeld
<1>6. \A a \in Attempts :
         /\ Msg("hello", a, TRUE) \in UpMsgs' /\ Msg("request", a, TRUE) \in UpMsgs'
         /\ Msg("challenge", a, TRUE) \in UpMsgs' /\ Msg("confirm", a, FALSE) \in UpMsgs'
         /\ clicks' # <<>> => Msg("confirm", a, TRUE) \in UpMsgs'
         /\ Agreed' => Msg("complete", a, TRUE) \in UpMsgs'
  BY DEF UpMsgs, Msg, Message, Types
<1>7. \A a \in Attempts :
         /\ Msg("hello", a, TRUE) \in DownMsgs' /\ Msg("request", a, TRUE) \in DownMsgs'
         /\ Msg("reject", a, FALSE) \in DownMsgs'
         /\ Msg("confirm", a, FALSE) \in DownMsgs'
         /\ grants' > 0 => Msg("confirm", a, TRUE) \in DownMsgs'
         /\ clicks' # <<>> => Msg("complete", a, TRUE) \in DownMsgs'
  BY DEF DownMsgs, Msg, Message, Types
<1>8. /\ 0 \in Attempts /\ session.att \in Attempts /\ phone.att \in Attempts
      /\ \A h \in Handlers : taken[h] \in Holds /\ taken[h].att \in Attempts
  <2>1. \A h \in Handlers : taken[h] \in Held /\ taken[h] \in Holds
    BY DEF TypeOK, ConsentAhead
  <2> QED BY <2>1, Shapes DEF TypeOK
<1>9. clicks # <<>> => Agreed
  BY DEF Agreed
<1>11. ASSUME NEW h \in Handlers, RecvHello(h) PROVE ConsentAhead'
  BY <1>11, <1>0, <1>1, <1>4, <1>5 DEF RecvHello, Arrives, ConsentAhead, phoneVars, histVars
<1>12. ASSUME NEW h \in Handlers, InsertResponder(h) PROVE ConsentAhead'
  BY <1>12, <1>0, <1>4, <1>5 DEF InsertResponder, ConsentAhead, phoneVars, histVars
<1>13. ASSUME NEW h \in Handlers, RecvRequest(h) PROVE ConsentAhead'
  BY <1>13, <1>0, <1>1, <1>4 DEF RecvRequest, Arrives, ConsentAhead, phoneVars, histVars
<1>14. ASSUME NEW h \in Handlers, NEW t \in {"challenge", "confirm"}, TakeInitiator(h, t) PROVE ConsentAhead'
  <2>1. session.kind = "initiator" =>
           [what |-> t, att |-> session.att, ok |-> Head(up[h]).ok] \in Holds
    <3>1. /\ Head(up[h]).ok \in BOOLEAN
          /\ t = "confirm" /\ Head(up[h]).ok => clicks # <<>>
      BY <1>14, <1>1 DEF TakeInitiator, Arrives, UpMsgs, Message
    <3>2. session.kind = "initiator" =>
             [what |-> t, att |-> session.att, ok |-> Head(up[h]).ok] \in Held
      BY <3>1, Shapes DEF TypeOK
    <3> QED BY <3>1, <3>2 DEF Holds
  <2>2. taken' \in [Handlers -> Holds']
    BY <1>14, <1>0, <1>4, <2>1 DEF TakeInitiator
  <2>3. session'.kind = "paired" => Agreed'
    BY <1>14, <1>0 DEF TakeInitiator, NoSession
  <2> QED BY <1>14, <1>0, <1>1, <1>4, <2>2, <2>3 DEF TakeInitiator, Arrives, ConsentAhead, phoneVars, histVars
<1>15. ASSUME NEW h \in Handlers, FinishChallenge(h) PROVE ConsentAhead'
  <2>1. down' \in Seq(DownMsgs')
    BY <1>15, <1>0, <1>3, <1>7, <1>8 DEF FinishChallenge, ReplyToPhone
  <2> QED BY <1>15, <1>0, <1>4, <1>5, <2>1 DEF FinishChallenge, PutBack, ConsentAhead, phoneVars, histVars
<1>16. ASSUME NEW h \in Handlers, FinishConfirm(h) PROVE ConsentAhead'
  <2>1. down' \in Seq(DownMsgs') /\ (session'.kind = "paired" => Agreed')
    <3>1. CASE taken[h].ok
      <4>1. Msg("complete", taken[h].att, TRUE) \in DownMsgs'
        BY <1>16, <3>1, <1>0, <1>7, <1>8 DEF FinishConfirm, Holds
      <4>2. /\ session' = [kind |-> "initiator", att |-> taken[h].att]
            /\ down' \in {down, Append(down, Msg("complete", taken[h].att, TRUE))}
        BY <1>16, <3>1 DEF FinishConfirm, PutBack, ReplyToPhone
      <4> QED BY <1>0, <1>3, <4>1, <4>2
    <3>2. CASE ~taken[h].ok
      BY <1>16, <1>0, <3>2 DEF FinishConfirm
    <3> QED BY <3>1, <3>2
  <2> QED BY <1>16, <1>0, <1>4, <1>5, <2>1 DEF FinishConfirm, ConsentAhead, phoneVars
<1>17. ASSUME NEW h \in Handlers, RecvComplete(h) PROVE ConsentAhead'
  <2>1. Agreed
    BY <1>17, <1>1 DEF RecvComplete, Arrives, UpMsgs
  <2>2. session.kind = "initiator" =>
           [what |-> "complete", att |-> session.att, ok |-> TRUE] \in Holds
    <3>1. session.kind = "initiator" =>
             [what |-> "complete", att |-> session.att, ok |-> TRUE] \in Held
      BY Shapes DEF TypeOK
    <3> QED BY <2>1, <3>1 DEF Holds
  <2>3. \/ taken' = taken
        \/ /\ session.kind = "initiator"
           /\ taken' = [taken EXCEPT ![h] = [what |-> "complete", att |-> session.att, ok |-> TRUE]]
    BY <1>17 DEF RecvComplete
  <2>4. taken' \in [Handlers -> Holds']
    BY <1>0, <1>4, <2>2, <2>3
  <2> QED BY <1>17, <1>0, <1>1, <1>4, <2>1, <2>4 DEF RecvComplete, Arrives, ConsentAhead, phoneVars, histVars
<1>18. ASSUME NEW h \in Handlers, FinishComplete(h) PROVE ConsentAhead'
  <2>1. Agreed
    BY <1>18, <1>8 DEF FinishComplete, Holds
  <2> QED BY <1>18, <1>0, <1>4, <1>5, <2>1 DEF FinishComplete, ConsentAhead, phoneVars, histVars
<1>21. ASSUME PairStart PROVE ConsentAhead'
  <2>1. starts' \in Attempts
    BY <1>21, BoundsAssumption DEF PairStart, TypeOK, Attempts, BoundsAssumption
  <2>2. down' \in Seq(DownMsgs')
    BY <1>21, <1>0, <1>3, <1>7, <2>1 DEF PairStart, PushToPhone
  <2> QED BY <1>21, <1>0, <2>2 DEF PairStart, ConsentAhead, phoneVars, histVars
<1>22. ASSUME NEW n \in Attempts, InsertInitiator(n) PROVE ConsentAhead'
  BY <1>22, <1>0 DEF InsertInitiator, ConsentAhead, phoneVars, histVars
<1>23. ASSUME NEW a \in BOOLEAN, Decide(a) PROVE ConsentAhead'
  <2>1. Msg("confirm", 0, a) \in DownMsgs'
    <3>1. CASE a = TRUE
      <4>1. grants' > 0
        BY <1>23, <3>1 DEF Decide, TypeOK
      <4> QED BY <1>7, <1>8, <3>1, <4>1
    <3>2. CASE a = FALSE
      BY <1>7, <1>8, <3>2
    <3> QED BY <3>1, <3>2
  <2>2. down' \in Seq(DownMsgs')
    BY <1>23, <1>0, <1>3, <2>1 DEF Decide, PushToPhone
  <2> QED BY <1>23, <1>0, <2>2 DEF Decide, ConsentAhead, phoneVars
<1>24. ASSUME RemoveDevice PROVE ConsentAhead'
  BY <1>24, <1>0 DEF RemoveDevice, NoSession, ConsentAhead, phoneVars, histVars
<1>30. ASSUME OnHello PROVE ConsentAhead'
  <2>1. up' \in [Handlers -> Seq(UpMsgs')]
    <3>1. Append(up["cur"], Msg("hello", 0, TRUE)) \in Seq(UpMsgs')
      BY <1>3, <1>6, <1>8
    <3>2. up' \in {up, [up EXCEPT !["cur"] = Append(@, Msg("hello", 0, TRUE))]}
      BY <1>30 DEF OnHello, ToDesktop
    <3> QED BY <1>0, <1>4, <3>1, <3>2
  <2> QED BY <1>30, <1>0, <1>2, <2>1 DEF OnHello, Delivered, ConsentAhead, PhoneOnly, deskVars, phoneVars, histVars
<1>31. ASSUME OnRequest PROVE ConsentAhead'
  <2>1. Msg("challenge", Head(down).att, TRUE) \in UpMsgs'
    BY <1>31, <1>2, <1>6 DEF OnRequest, Delivered, DownMsgs, Message
  <2>2. up' \in [Handlers -> Seq(UpMsgs')]
    BY <1>31, <1>0, <1>3, <1>4, <2>1 DEF OnRequest, ToDesktop
  <2> QED BY <1>31, <1>0, <1>2, <2>2 DEF OnRequest, Delivered, ConsentAhead, PhoneOnly, deskVars
<1>32. ASSUME OnConfirm PROVE ConsentAhead'
  <2>1. CASE phone.st = "Initiating" /\ Head(down).ok
    <3>1. inits > 0 /\ grants > 0
      BY <1>32, <1>2, <2>1 DEF OnConfirm, Delivered, DownMsgs, ConsentAhead
    <3>2. Msg("complete", 0, TRUE) \in UpMsgs'
      BY <1>0, <1>6, <1>8, <3>1 DEF Agreed
    <3>3. up' \in [Handlers -> Seq(UpMsgs')]
      BY <1>32, <1>0, <1>3, <1>4, <2>1, <3>2 DEF OnConfirm, ToDesktop
    <3>4. phone'.st = "Confirming"
      BY <1>32, <2>1 DEF OnConfirm
    <3> QED BY <1>32, <1>0, <1>2, <3>3, <3>4 DEF OnConfirm, Delivered, ConsentAhead, PhoneOnly, deskVars
  <2>2. CASE ~(phone.st = "Initiating" /\ Head(down).ok)
    <3>1. up' = up /\ (phone' = phone \/ phone'.st = "Failed")
      <4>1. CASE phone.st # "Initiating"
        BY <1>32, <4>1 DEF OnConfirm
      <4>2. CASE phone.st = "Initiating" /\ ~Head(down).ok
        <5>1. up' = up /\ phone' = [st |-> "Failed", att |-> 0]
          BY <1>32, <4>2 DEF OnConfirm
        <5> QED BY <5>1
      <4> QED BY <2>2, <4>1, <4>2
    <3> QED BY <1>32, <1>0, <1>2, <3>1 DEF OnConfirm, Delivered, ConsentAhead, PhoneOnly, deskVars, histVars
  <2> QED BY <2>1, <2>2
<1>33. ASSUME OnComplete PROVE ConsentAhead'
  <2>1. clicks # <<>> /\ Head(down).att \in Attempts
    BY <1>33, <1>2 DEF OnComplete, Delivered, DownMsgs, Message
  <2>2. Msg("complete", Head(down).att, TRUE) \in UpMsgs'
    BY <1>0, <1>6, <1>9, <2>1
  <2>3. up' \in [Handlers -> Seq(UpMsgs')]
    BY <1>33, <1>0, <1>3, <1>4, <2>2 DEF OnComplete, ToDesktop
  <2>4. phone'.st = "Paired"
    BY <1>33 DEF OnComplete, TypeOK
  <2> QED BY <1>33, <1>0, <1>2, <2>1, <2>3, <2>4 DEF OnComplete, Delivered, ConsentAhead, PhoneOnly, deskVars
<1>34. ASSUME OnReject PROVE ConsentAhead'
  <2>1. phone'.st = "Failed"
    BY <1>34 DEF OnReject, TypeOK
  <2> QED BY <1>34, <1>0, <1>2, <2>1 DEF OnReject, Delivered, ConsentAhead, PhoneOnly, deskVars
<1>35. ASSUME Expire PROVE ConsentAhead'
  BY <1>35, <1>0 DEF Expire, ConsentAhead, PhoneOnly, deskVars, histVars
<1>36. ASSUME UserAccepts PROVE ConsentAhead'
  <2>1. phone'.st \in {"Failed", "Confirming"}
    BY <1>36 DEF UserAccepts, TypeOK
  <2>2. up' \in [Handlers -> Seq(UpMsgs')]
    <3>1. CASE expired
      BY <1>36, <1>0, <3>1 DEF UserAccepts
    <3>2. CASE ~expired
      <4>1. clicks' # <<>>
        BY <1>36, <1>8, <3>2, CutFacts DEF UserAccepts, TypeOK
      <4>2. Append(up["cur"], Msg("confirm", phone.att, TRUE)) \in Seq(UpMsgs')
        BY <1>3, <1>6, <1>8, <4>1
      <4>3. up' = [up EXCEPT !["cur"] = Append(@, Msg("confirm", phone.att, TRUE))]
        BY <1>36, <3>2 DEF UserAccepts, ToDesktop
      <4> QED BY <1>0, <1>4, <4>2, <4>3
    <3> QED BY <3>1, <3>2
  <2> QED BY <1>36, <1>0, <2>1, <2>2 DEF UserAccepts, ConsentAhead, deskVars
<1>37. ASSUME UserRejects PROVE ConsentAhead'
  <2>1. phone'.st = "Failed"
    BY <1>37 DEF UserRejects, TypeOK
  <2>2. up' \in [Handlers -> Seq(UpMsgs')]
    BY <1>37, <1>0, <1>3, <1>4, <1>6, <1>8 DEF UserRejects, ToDesktop
  <2> QED BY <1>37, <1>0, <2>1, <2>2 DEF UserRejects, ConsentAhead, PhoneOnly, deskVars
<1>38. ASSUME UserResets PROVE ConsentAhead'
  BY <1>38, <1>0 DEF UserResets, ConsentAhead, PhoneOnly, deskVars
<1>39. ASSUME UserInitiates PROVE ConsentAhead'
  <2>1. inits' > 0
    BY <1>39 DEF UserInitiates, TypeOK
  <2>2. up' \in [Handlers -> Seq(UpMsgs')]
    BY <1>39, <1>0, <1>3, <1>4, <1>6, <1>8 DEF UserInitiates, ToDesktop
  <2> QED BY <1>39, <1>0, <2>1, <2>2 DEF UserInitiates, ConsentAhead, deskVars
<1>41. ASSUME Reconnect PROVE ConsentAhead'
  <2>1. up' \in [Handlers -> Seq(UpMsgs')]
    BY <1>41, <1>0, <1>3, <1>4, <1>6, <1>8 DEF Reconnect, ToDesktop
  <2>2. Msg("hello", 0, TRUE) \in DownMsgs'
    BY <1>7, <1>8
  <2>3. <<Msg("hello", 0, TRUE)>> \in Seq(DownMsgs')
    BY <2>2, Single
  <2> QED BY <1>41, <1>0, <2>1, <2>3 DEF Reconnect, ConsentAhead, deskVars, phoneVars, histVars
<1>42. ASSUME NEW j \in 0..Len(up["cur"]), NEW k \in 0..Len(up["cur"]), Disconnect(j, k)
       PROVE  up' \in [Handlers -> Seq(UpMsgs')] /\ down' \in Seq(DownMsgs') /\ taken' \in [Handlers -> Holds']
  <2>1. SubSeq(up["cur"], 1, j) \in Seq(UpMsgs') /\ SubSeq(up["cur"], k + 1, Len(up["cur"])) \in Seq(UpMsgs')
    BY <1>0, CutFacts
  <2>2. <<>> \in Seq(DownMsgs')
    OBVIOUS
  <2>3. taken' \in [Handlers -> Holds']
    BY <1>42, <1>0, <1>5 DEF Disconnect
  <2> QED BY <1>42, <1>0, <2>1, <2>2, <2>3 DEF Disconnect
<1>43. ASSUME Drop PROVE ConsentAhead'
  <2>1. PICK k \in 0..Len(up["cur"]) : \E j \in 0..k : Disconnect(j, k)
    BY <1>43 DEF Drop
  <2>2. PICK j \in 0..k : Disconnect(j, k)
    BY <2>1
  <2>3. j \in 0..Len(up["cur"])
    BY DEF TypeOK, Handlers
  <2>4. up' \in [Handlers -> Seq(UpMsgs')] /\ down' \in Seq(DownMsgs') /\ taken' \in [Handlers -> Holds']
    BY <1>42, <2>2, <2>3
  <2> QED BY <1>43, <1>0, <2>4 DEF Drop, ConsentAhead, phoneVars, histVars
<1>44. ASSUME Unregister PROVE ConsentAhead'
  BY <1>44, <1>0 DEF Unregister, ConsentAhead, deskVars, phoneVars, histVars
<1>45. ASSUME DesktopRestarts PROVE ConsentAhead'
  <2>1. PICK k \in 0..Len(up["cur"]) :
           up' = [up EXCEPT !["cur"] = SubSeq(@, k + 1, Len(@)), !["old"] = <<>>]
    BY <1>45 DEF DesktopRestarts
  <2>2. SubSeq(up["cur"], k + 1, Len(up["cur"])) \in Seq(UpMsgs') /\ <<>> \in Seq(UpMsgs')
    BY <1>0, CutFacts
  <2>3. up' \in [Handlers -> Seq(UpMsgs')]
    BY <1>0, <2>1, <2>2
  <2>4. taken' \in [Handlers -> Holds'] /\ down' \in Seq(DownMsgs')
    BY <1>45, <1>5 DEF DesktopRestarts
  <2> QED BY <1>45, <1>0, <2>3, <2>4 DEF DesktopRestarts, NoSession, ConsentAhead, phoneVars, histVars
<1>46. ASSUME PhoneRestarts PROVE ConsentAhead'
  <2>2. Len(up["cur"]) \in 0..Len(up["cur"])
    BY DEF TypeOK, Handlers
  <2>3. up' \in [Handlers -> Seq(UpMsgs')] /\ down' \in Seq(DownMsgs') /\ taken' \in [Handlers -> Holds']
    <3>1. CASE \E j \in 0..Len(up["cur"]) : Disconnect(j, Len(up["cur"]))
      BY <1>42, <2>2, <3>1
    <3>2. CASE UNCHANGED <<taken, linkVars, down>> /\ up' = [up EXCEPT !["cur"] = <<>>]
      BY <1>0, <3>2
    <3> QED BY <1>46, <3>1, <3>2 DEF PhoneRestarts
  <2> QED BY <1>46, <1>0, <2>3 DEF PhoneRestarts, ConsentAhead, histVars
<1>47. CASE UNCHANGED vars
  BY <1>47, <1>0 DEF vars, deskVars, phoneVars, histVars, ConsentAhead
<1> QED
  BY <1>11, <1>12, <1>13, <1>14, <1>15, <1>16, <1>17, <1>18, <1>21, <1>22, <1>23, <1>24, <1>30, <1>31, <1>32, <1>33,
     <1>34, <1>35, <1>36, <1>37, <1>38, <1>39, <1>41, <1>43, <1>44, <1>45, <1>46, <1>47
  DEF Next, Dispatch, RecvChallenge, RecvConfirm, PhoneHandles, User, Fault

-----------------------------------------------------------------------------
\* Steps of the handlers are the only ones that change what a handler holds
\* without a fault; one that takes leaves no paired session behind.
LEMMA HandlerStep == ASSUME TypeOK, OneHandler, [Next]_vars PROVE OneHandler'
<1> SUFFICES ASSUME faults' = 0 PROVE OldIdle' /\ (taken'["cur"] # Nothing => session'.kind # "paired")
  BY DEF OneHandler
<1> USE DEF TypeOK
<1>1. /\ faults = 0 \/ UNCHANGED vars
      /\ ~RemoveDevice /\ ~Drop /\ ~DesktopRestarts /\ ~PhoneRestarts
  <2>1. ~RemoveDevice /\ ~Drop /\ ~DesktopRestarts /\ ~PhoneRestarts
    BY DEF RemoveDevice, Drop, DesktopRestarts, PhoneRestarts
  <2>2. ASSUME ~(RemoveDevice \/ Drop \/ DesktopRestarts \/ PhoneRestarts) PROVE UNCHANGED faults
    BY <2>2 DEF Next, Dispatch, PhoneHandles, User, Fault, vars, PhoneOnly,
       RecvHello, InsertResponder, RecvRequest, RecvChallenge, RecvConfirm, TakeInitiator,
       FinishChallenge, FinishConfirm, RecvComplete, FinishComplete, InsertInitiator, PairStart, Decide,
       OnHello, OnRequest, OnConfirm, OnComplete, OnReject, Expire, UserAccepts, UserRejects, UserResets,
       UserInitiates, Reconnect, Unregister
  <2> QED BY <2>1, <2>2
<1>2. /\ faults = 0
      /\ OldIdle
      /\ taken["cur"] # Nothing => session.kind # "paired"
      /\ "cur" \in Handlers /\ "old" \in Handlers
  BY <1>1 DEF OneHandler, vars, Handlers
<1>3. ASSUME NEW h \in Handlers, Dispatch(h)
      PROVE  OldIdle' /\ (taken'["cur"] # Nothing => session'.kind # "paired")
  <2>1. h = "cur"
    <3>1. up["old"] = <<>> /\ taken["old"].what = "nothing"
      BY <1>2 DEF OldIdle, Nothing
    <3>2. (\E t \in Types : Arrives(h, t)) \/ taken[h].what # "nothing"
      BY <1>3 DEF Dispatch, Types, RecvHello, InsertResponder, RecvRequest, RecvChallenge, RecvConfirm,
         TakeInitiator, FinishChallenge, FinishConfirm, RecvComplete, FinishComplete
    <3>3. up[h] # <<>> \/ taken[h].what # "nothing"
      BY <3>2 DEF Arrives
    <3> QED BY <3>1, <3>3 DEF Handlers
  <2>2. CASE RecvHello(h) \/ InsertResponder(h) \/ RecvRequest(h) \/ RecvChallenge(h) \/ RecvConfirm(h)
    BY <1>2, <2>1, <2>2 DEF RecvHello, InsertResponder, RecvRequest, RecvChallenge, RecvConfirm,
       TakeInitiator, Arrives, OldIdle, NoSession
  <2>3. CASE FinishChallenge(h) \/ FinishConfirm(h) \/ FinishComplete(h)
    BY <1>2, <2>1, <2>3 DEF FinishChallenge, FinishConfirm, FinishComplete, OldIdle
  <2>4. CASE RecvComplete(h)
    BY <1>2, <2>1, <2>4 DEF RecvComplete, Arrives, OldIdle, NoSession
  <2> QED BY <1>3, <2>2, <2>3, <2>4 DEF Dispatch
<1>4. ASSUME NEW n \in Attempts, InsertInitiator(n)
      PROVE  OldIdle' /\ (taken'["cur"] # Nothing => session'.kind # "paired")
  BY <1>2, <1>4 DEF InsertInitiator, OldIdle
<1>5. CASE PhoneHandles \/ User \/ Expire \/ Reconnect
  BY <1>2, <1>5 DEF PhoneHandles, User, OnHello, OnRequest, OnConfirm, OnComplete, OnReject, Expire, PairStart, Decide,
     UserAccepts, UserRejects, UserResets, UserInitiates, Reconnect, PhoneOnly, deskVars, ToDesktop, OldIdle
<1>6. CASE Unregister \/ UNCHANGED vars
  BY <1>2, <1>6 DEF Unregister, deskVars, vars, OldIdle
<1> QED BY <1>1, <1>3, <1>4, <1>5, <1>6 DEF Next, Fault

-----------------------------------------------------------------------------
\* Every reachable state satisfies the inductive invariant.
THEOREM PairingInvariant == Spec => []PairInv
<1>1. Init => PairInv
  <2> SUFFICES ASSUME Init PROVE PairInv
    OBVIOUS
  <2> USE DEF Init
  <2>0. /\ 0 \in Attempts /\ NoSession \in Session /\ Nothing \in Held
        /\ [st |-> "Idle", att |-> 0] \in [st : PhoneStates, att : Attempts]
    BY BoundsAssumption DEF BoundsAssumption, Session, NoSession, Held, Nothing, Attempts, PhoneStates
  <2>1. TypeOK
    <3>1. starts \in 0..MaxStarts /\ inits \in 0..MaxInits /\ faults \in 0..MaxFaults
      BY BoundsAssumption DEF BoundsAssumption
    <3>2. /\ taken \in [Handlers -> Held] /\ said \in [Handlers -> BOOLEAN]
          /\ up \in [Handlers -> Seq(Message)] /\ down \in Seq(Message) /\ clicks \in Seq(Attempts)
      BY <2>0
    <3> QED BY <2>0, <3>1, <3>2 DEF TypeOK
  <2>2. Nothing \in Holds
    BY BoundsAssumption DEF BoundsAssumption, Holds, Held, Nothing, Attempts
  <2>3. ConsentAhead
    BY <2>2 DEF ConsentAhead, NoSession
  <2>4. OneHandler
    BY DEF OneHandler, OldIdle, Handlers
  <2> QED BY <2>1, <2>3, <2>4 DEF PairInv
<1>2. PairInv /\ [Next]_vars => PairInv'
  BY TypeStep, ConsentStep, HandlerStep DEF PairInv
<1> QED BY <1>1, <1>2, PTL DEF Spec

\* Handlers, phone and queues keep their states in range, whatever the number
\* of attempts and faults.
THEOREM PairingTypes == Spec => []TypeOK
<1>1. PairInv => TypeOK
  BY DEF PairInv
<1> QED BY <1>1, PairingInvariant, PTL

\* However often pairing is started, interrupted and restarted, neither the
\* phone nor the desktop is paired before a user agreed to it.
THEOREM Consent == Spec => []ConsentBeforePaired
<1>1. PairInv => ConsentBeforePaired
  BY DEF PairInv, ConsentAhead, Agreed, ConsentBeforePaired
<1> QED BY <1>1, PairingInvariant, PTL

\* No late envelope takes a paired session apart: paired is left only for a
\* new pair_start, by a fault, or by an overlapping handler after one.
THEOREM PairedStays == Spec => PairedIsStable
<1>1. PairInv /\ [Next]_vars =>
        [session.kind = "paired" /\ session'.kind # "paired" =>
          \/ session'.kind = "initiator" /\ starting' # starting
          \/ faults' > faults
          \/ faults > 0 /\ \E h \in Handlers : taken[h] # Nothing /\ taken'[h] = Nothing]_vars
  <2> SUFFICES ASSUME PairInv, Next, session.kind = "paired", session'.kind # "paired"
               PROVE  \/ session'.kind = "initiator" /\ starting' # starting
                      \/ faults' > faults
                      \/ faults > 0 /\ \E h \in Handlers : taken[h] # Nothing /\ taken'[h] = Nothing
    BY DEF vars
  <2> USE DEF PairInv, TypeOK
  <2>1. CASE Fault
    BY <2>1 DEF Fault, RemoveDevice, Drop, DesktopRestarts, PhoneRestarts
  <2>2. ASSUME NEW n \in Attempts, InsertInitiator(n)
        PROVE  session'.kind = "initiator" /\ starting' # starting
    BY <2>2 DEF InsertInitiator
  <2>3. ASSUME NEW h \in Handlers, Dispatch(h)
        PROVE  faults > 0 /\ \E g \in Handlers : taken[g] # Nothing /\ taken'[g] = Nothing
    <3>1. taken[h].what # "nothing" /\ taken' = [taken EXCEPT ![h] = Nothing]
      BY <2>3 DEF Dispatch, RecvHello, InsertResponder, RecvRequest, RecvChallenge, RecvConfirm,
         TakeInitiator, FinishChallenge, FinishConfirm, RecvComplete, FinishComplete
    <3>2. taken[h] # Nothing /\ taken'[h] = Nothing
      BY <3>1 DEF Nothing
    <3>3. faults # 0
      BY <3>2 DEF OneHandler, OldIdle, Handlers
    <3> QED BY <3>2, <3>3
  <2>4. CASE PhoneHandles \/ User \/ Expire \/ Reconnect \/ Unregister
    BY <2>4 DEF PhoneHandles, User, OnHello, OnRequest, OnConfirm, OnComplete, OnReject, Expire, PairStart, Decide,
       UserAccepts, UserRejects, UserResets, UserInitiates, Reconnect, Unregister, PhoneOnly, deskVars
  <2> QED BY <2>1, <2>2, <2>3, <2>4 DEF Next
<1> QED BY <1>1, PairingInvariant, PTL DEF Spec, PairedIsStable

-----------------------------------------------------------------------------
\* The press of Accept an envelope carries to the desktop.
Yes(m) == m.type = "confirm" /\ m.ok
YesAt(q) == {i \in DOMAIN q : Yes(q[i])}
Yeses(q) == Cardinality(YesAt(q))
YesHeld(h) == IF taken[h].what = "confirm" /\ taken[h].ok THEN 1 ELSE 0

\* The presses on their way to a handler or with it.
YesWay(h) == Yeses(up[h]) + YesHeld(h)

\* Every press of Accept is on its way, with a handler, answered or lost, and
\* none is in two places.
ClicksCounted == completes + YesWay("cur") + YesWay("old") <= Len(clicks)

\* A set that fits into another one after a shift is no larger.
LEMMA Shifted ==
    ASSUME NEW S \in SUBSET Int, NEW T, IsFiniteSet(T), NEW d \in Int, \A i \in S : i + d \in T
    PROVE  IsFiniteSet(S) /\ Cardinality(S) <= Cardinality(T)
<1> DEFINE f == [i \in S |-> i + d]
<1>1. f \in Injection(S, T)
  BY DEF Injection, IsInjective
<1> QED BY <1>1, FS_Injection

\* How many presses a queue holds, and how queue operations change that.
LEMMA YesFinite ==
    ASSUME NEW q \in Seq(Message)
    PROVE  IsFiniteSet(YesAt(q)) /\ Yeses(q) \in Nat /\ YesAt(q) \subseteq 1..Len(q)
<1>1. Len(q) \in Nat /\ DOMAIN q = 1..Len(q)
  BY LenProperties
<1>2. IsFiniteSet(1..Len(q)) /\ YesAt(q) \subseteq 1..Len(q)
  BY <1>1, FS_Interval DEF YesAt
<1>3. IsFiniteSet(YesAt(q))
  BY <1>2, FS_Subset
<1> QED BY <1>2, <1>3, FS_CardinalityType DEF Yeses

\* The head of a queue carries its press away.
LEMMA YesTail ==
    ASSUME NEW q \in Seq(Message), q # <<>>
    PROVE  Yeses(Tail(q)) + (IF Yes(Head(q)) THEN 1 ELSE 0) <= Yeses(q)
<1>1. /\ Tail(q) \in Seq(Message) /\ Len(q) \in Nat \ {0} /\ Len(Tail(q)) = Len(q) - 1
      /\ \A i \in 1..Len(Tail(q)) : Tail(q)[i] = q[i + 1]
      /\ DOMAIN q = 1..Len(q) /\ DOMAIN Tail(q) = 1..Len(Tail(q)) /\ Head(q) = q[1]
  BY LenProperties, HeadTailProperties, EmptySeq
<1>2. /\ IsFiniteSet(YesAt(q) \ {1}) /\ IsFiniteSet(YesAt(q)) /\ Yeses(q) \in Nat
      /\ Yeses(Tail(q)) \in Nat /\ YesAt(Tail(q)) \in SUBSET Int
  <2>1. IsFiniteSet(YesAt(q)) /\ Yeses(q) \in Nat
    BY YesFinite
  <2>2. Yeses(Tail(q)) \in Nat /\ YesAt(Tail(q)) \subseteq 1..Len(Tail(q))
    BY <1>1, YesFinite
  <2>3. YesAt(Tail(q)) \in SUBSET Int
    BY <1>1, <2>2
  <2> QED BY <2>1, <2>2, <2>3, FS_RemoveElement
<1>3. ASSUME NEW i \in YesAt(Tail(q)) PROVE i + 1 \in YesAt(q) \ {1}
  <2>1. i \in 1..Len(Tail(q)) /\ Yes(Tail(q)[i])
    BY <1>1 DEF YesAt
  <2>2. i + 1 \in DOMAIN q /\ i + 1 # 1 /\ q[i + 1] = Tail(q)[i]
    BY <1>1, <2>1
  <2>3. Yes(q[i + 1])
    BY <2>1, <2>2
  <2> QED BY <2>2, <2>3 DEF YesAt
<1>4. Cardinality(YesAt(Tail(q))) <= Cardinality(YesAt(q) \ {1})
  <2>1. 1 \in Int
    OBVIOUS
  <2> QED BY <1>2, <1>3, <2>1, Shifted, Zenon
<1>5. Cardinality(YesAt(q) \ {1}) = IF 1 \in YesAt(q) THEN Yeses(q) - 1 ELSE Yeses(q)
  BY <1>2, FS_RemoveElement DEF Yeses
<1>6. 1 \in YesAt(q) <=> Yes(Head(q))
  <2>1. 1 \in DOMAIN q /\ Head(q) = q[1]
    BY <1>1
  <2> QED BY <2>1, Zenon DEF YesAt
<1> HIDE DEF Yes
<1> QED BY <1>2, <1>4, <1>5, <1>6 DEF Yeses

\* An envelope adds at most its own press.
LEMMA YesAppend ==
    ASSUME NEW q \in Seq(Message), NEW m \in Message
    PROVE  Yeses(Append(q, m)) <= Yeses(q) + (IF Yes(m) THEN 1 ELSE 0)
<1>1. /\ Append(q, m) \in Seq(Message) /\ Len(Append(q, m)) = Len(q) + 1 /\ Len(q) \in Nat
      /\ \A i \in 1..Len(q) : Append(q, m)[i] = q[i]
      /\ Append(q, m)[Len(q) + 1] = m
      /\ DOMAIN q = 1..Len(q) /\ DOMAIN Append(q, m) = 1..(Len(q) + 1)
  BY AppendProperties, LenProperties
<1>2. /\ IsFiniteSet(YesAt(q)) /\ Yeses(q) \in Nat /\ IsFiniteSet(YesAt(q) \cup {Len(q) + 1})
      /\ Len(q) + 1 \notin YesAt(q)
  BY <1>1, YesFinite, FS_AddElement
<1>3. Cardinality(YesAt(q) \cup {Len(q) + 1}) = Yeses(q) + 1
  BY <1>2, FS_AddElement DEF Yeses
<1>4. CASE Yes(m)
  <2>1. YesAt(Append(q, m)) \subseteq YesAt(q) \cup {Len(q) + 1}
    BY <1>1 DEF YesAt
  <2> QED BY <1>2, <1>3, <1>4, <2>1, FS_Subset DEF Yeses
<1>5. CASE ~Yes(m)
  <2>1. YesAt(Append(q, m)) \subseteq YesAt(q)
    BY <1>1, <1>5 DEF YesAt
  <2> QED BY <1>2, <1>5, <2>1, FS_Subset DEF Yeses
<1> QED BY <1>4, <1>5

\* What is before and behind the cut of a lost connection is no more than what
\* was there.
LEMMA YesCut ==
    ASSUME NEW q \in Seq(Message), NEW k \in 0..Len(q), NEW j \in 0..k
    PROVE  Yeses(SubSeq(q, 1, j)) + Yeses(SubSeq(q, k + 1, Len(q))) <= Yeses(q)
<1> DEFINE a == SubSeq(q, 1, j)
           b == SubSeq(q, k + 1, Len(q))
           A == {i \in YesAt(q) : i <= k}
           B == {i \in YesAt(q) : i > k}
<1>1. Len(q) \in Nat /\ k \in Nat /\ j \in Nat /\ j <= k /\ k <= Len(q) /\ DOMAIN q = 1..Len(q)
      /\ \A i \in 1..Len(q) : q[i] \in Message
  BY LenProperties, ElementOfSeq
<1>2. /\ a \in Seq(Message) /\ Len(a) = j /\ DOMAIN a = 1..j
      /\ \A i \in 1..j : a[i] = q[i]
  <2>1. \A i \in 1..j : q[i] \in Message
    BY <1>1
  <2>2. /\ a \in Seq(Message) /\ Len(a) = (IF 1 <= j THEN j - 1 + 1 ELSE 0)
        /\ \A i \in 1..(j - 1 + 1) : a[i] = q[1 + i - 1]
    BY <1>1, <2>1, SubSeqProperties
  <2> QED BY <1>1, <2>2, LenProperties
<1>3. /\ b \in Seq(Message) /\ Len(b) = Len(q) - k /\ DOMAIN b = 1..(Len(q) - k)
      /\ \A i \in 1..(Len(q) - k) : b[i] = q[k + i]
  <2>1. \A i \in (k + 1)..Len(q) : q[i] \in Message
    BY <1>1
  <2>2. /\ b \in Seq(Message) /\ Len(b) = (IF k + 1 <= Len(q) THEN Len(q) - (k + 1) + 1 ELSE 0)
        /\ \A i \in 1..(Len(q) - (k + 1) + 1) : b[i] = q[k + 1 + i - 1]
    BY <1>1, <2>1, SubSeqProperties
  <2>3. Len(b) = Len(q) - k /\ Len(q) - (k + 1) + 1 = Len(q) - k
    <3>1. \A m, n \in Nat : n <= m => /\ (IF n + 1 <= m THEN m - (n + 1) + 1 ELSE 0) = m - n
                                      /\ m - (n + 1) + 1 = m - n
      OBVIOUS
    <3> HIDE DEF b
    <3> QED BY <1>1, <2>2, <3>1
  <2>4. DOMAIN b = 1..Len(b)
    BY <2>2, LenProperties
  <2>5. ASSUME NEW i \in 1..(Len(q) - k) PROVE b[i] = q[k + i]
    <3>1. k + 1 + i - 1 = k + i
      BY <1>1
    <3> QED BY <2>2, <2>3, <3>1
  <2> QED BY <2>2, <2>3, <2>4, <2>5
<1>4. /\ IsFiniteSet(YesAt(q)) /\ YesAt(q) \subseteq 1..Len(q)
      /\ IsFiniteSet(A) /\ IsFiniteSet(B) /\ A \cup B = YesAt(q) /\ A \cap B = {}
      /\ Cardinality(A) \in Nat /\ Cardinality(B) \in Nat
  <2>1. IsFiniteSet(YesAt(q)) /\ YesAt(q) \subseteq 1..Len(q)
    BY YesFinite
  <2>2. IsFiniteSet(A) /\ IsFiniteSet(B)
    BY <2>1, FS_Subset
  <2>3. A \cup B = YesAt(q) /\ A \cap B = {}
    BY <1>1, <2>1
  <2> QED BY <2>1, <2>2, <2>3, FS_CardinalityType
<1>5. Yeses(a) <= Cardinality(A)
  <2>1. YesAt(a) \subseteq A
    BY <1>1, <1>2 DEF YesAt
  <2> QED BY <1>4, <2>1, FS_Subset DEF Yeses
<1>6. Yeses(b) <= Cardinality(B)
  <2>1. ASSUME NEW i \in YesAt(b) PROVE i \in Int /\ i + k \in B
    <3>1. i \in 1..(Len(q) - k) /\ Yes(b[i])
      BY <1>3 DEF YesAt
    <3>2. i \in Int /\ i + k \in DOMAIN q /\ i + k > k /\ k + i = i + k
      BY <1>1, <3>1
    <3>3. Yes(q[i + k])
      BY <1>3, <3>1, <3>2
    <3> QED BY <3>2, <3>3 DEF YesAt
  <2>2. YesAt(b) \in SUBSET Int /\ \A i \in YesAt(b) : i + k \in B
    BY <2>1
  <2>3. k \in Int
    BY <1>1
  <2>4. Cardinality(YesAt(b)) <= Cardinality(B)
    <3> HIDE DEF B, b
    <3> QED BY <1>4, <2>2, <2>3, Shifted, Zenon
  <2> QED BY <2>4 DEF Yeses
<1>7. Cardinality(A \cup B) = Cardinality(A) + Cardinality(B)
  <2> HIDE DEF A, B
  <2>1. Cardinality(A \cup B) = Cardinality(A) + Cardinality(B) - Cardinality(A \cap B)
    BY <1>4, FS_Union
  <2>2. Cardinality(A \cap B) = 0
    BY <1>4, FS_EmptySet
  <2> QED BY <1>4, <2>1, <2>2
<1>8. Yeses(a) \in Nat /\ Yeses(b) \in Nat
  BY <1>2, <1>3, YesFinite
<1>9. Yeses(q) = Cardinality(A) + Cardinality(B)
  BY <1>4, <1>7 DEF Yeses
<1> HIDE DEF a, b, A, B
<1>10. Yeses(a) + Yeses(b) <= Yeses(q)
  BY <1>4, <1>5, <1>6, <1>8, <1>9
<1> QED BY <1>10 DEF a, b

\* A press moves on or is lost; only the user makes another.
LEMMA ClicksStep == ASSUME TypeOK, TypeOK', ClicksCounted, [Next]_vars PROVE ClicksCounted'
<1>0. /\ "cur" \in Handlers /\ "old" \in Handlers /\ Handlers = {"cur", "old"}
      /\ up \in [Handlers -> Seq(Message)] /\ taken \in [Handlers -> Held] /\ taken' \in [Handlers -> Held]
  BY DEF Handlers, TypeOK
<1>1. \A h \in Handlers : /\ up[h] \in Seq(Message) /\ up'[h] \in Seq(Message)
                          /\ Yeses(up[h]) \in Nat /\ Yeses(up'[h]) \in Nat
  BY YesFinite DEF TypeOK
<1>2. \A h \in Handlers : YesHeld(h) \in {0, 1} /\ YesHeld(h)' \in {0, 1}
  BY DEF YesHeld
<1>3. Len(clicks) \in Nat /\ Len(clicks') \in Nat /\ completes \in Nat /\ completes' \in Nat
  BY LenProperties DEF TypeOK
<1>8. \A h \in Handlers : /\ YesWay(h) = Yeses(up[h]) + YesHeld(h)
                            /\ YesWay(h)' = Yeses(up'[h]) + YesHeld(h)'
  BY DEF YesWay, Yeses, YesAt, Yes
<1>9. \A h \in Handlers : YesWay(h) \in Nat /\ YesWay(h)' \in Nat
  <2>1. \A a \in Nat, b \in {0, 1} : a + b \in Nat
    OBVIOUS
  <2> HIDE DEF TypeOK
  <2> QED BY <1>1, <1>2, <1>8, <2>1, Zenon
<1>10. ClicksCounted' <=> completes' + YesWay("cur")' + YesWay("old")' <= Len(clicks')
  BY DEF ClicksCounted, YesWay
<1>18. /\ YesWay("cur") = Yeses(up["cur"]) + YesHeld("cur") /\ YesWay("old") = Yeses(up["old"]) + YesHeld("old")
       /\ YesWay("cur")' = Yeses(up'["cur"]) + YesHeld("cur")' /\ YesWay("old")' = Yeses(up'["old"]) + YesHeld("old")'
       /\ Yeses(up["cur"]) \in Nat /\ Yeses(up["old"]) \in Nat /\ Yeses(up'["cur"]) \in Nat /\ Yeses(up'["old"]) \in Nat
       /\ YesHeld("cur") \in {0, 1} /\ YesHeld("old") \in {0, 1} /\ YesHeld("cur")' \in {0, 1} /\ YesHeld("old")' \in {0, 1}
  BY <1>0, <1>1, <1>2, <1>8
\* What is lost or moves within one handler.
<1>4. ASSUME NEW h \in Handlers, clicks' = clicks,
             \A g \in Handlers \ {h} : up'[g] = up[g] /\ taken'[g] = taken[g],
             completes' + YesWay(h)' <= completes + YesWay(h)
      PROVE  ClicksCounted'
  <2>1. \A g \in Handlers \ {h} : YesWay(g)' = YesWay(g)
    BY <1>4, <1>8 DEF YesHeld
  <2>3. CASE h = "cur"
    <3>1. YesWay("old")' = YesWay("old")
      BY <1>0, <2>1, <2>3
    <3> QED BY <1>0, <1>3, <1>4, <1>9, <1>10, <2>3, <3>1 DEF ClicksCounted
  <2>4. CASE h = "old"
    <3>1. YesWay("cur")' = YesWay("cur")
      BY <1>0, <2>1, <2>4
    <3> QED BY <1>0, <1>3, <1>4, <1>9, <1>10, <2>4, <3>1 DEF ClicksCounted
  <2> QED BY <1>0, <2>3, <2>4
\* What the phone sends other than an accepted confirm.
<1>5. ASSUME NEW m \in Message, ~Yes(m), ToDesktop(m), UNCHANGED <<taken, clicks, completes>>
      PROVE  ClicksCounted'
  <2>1. Yeses(up'["cur"]) <= Yeses(up["cur"])
    <3>1. up'["cur"] = Append(up["cur"], m)
      BY <1>0, <1>5 DEF ToDesktop
    <3>2. Yeses(Append(up["cur"], m)) <= Yeses(up["cur"]) + (IF Yes(m) THEN 1 ELSE 0)
      BY <1>0, <1>1, YesAppend
    <3> HIDE DEF Yes
    <3> QED BY <1>0, <1>1, <1>5, <3>1, <3>2
  <2>2. YesHeld("cur")' = YesHeld("cur")
    BY <1>5 DEF YesHeld
  <2>3. YesWay("cur")' <= YesWay("cur")
    BY <1>0, <1>1, <1>2, <1>8, <2>1, <2>2
  <2>4. completes' + YesWay("cur")' <= completes + YesWay("cur")
    <3>1. YesWay("cur") \in Nat /\ YesWay("cur")' \in Nat
      BY <1>0, <1>9
    <3> QED BY <1>3, <1>5, <2>3, <3>1
  <2>5. \A g \in Handlers \ {"cur"} : up'[g] = up[g] /\ taken'[g] = taken[g]
    BY <1>5 DEF ToDesktop
  <2> QED BY <1>0, <1>4, <1>5, <2>4, <2>5
\* A step that leaves all of it alone, and one that loses a queue.
<1>6. ASSUME UNCHANGED <<up, taken, clicks, completes>> PROVE ClicksCounted'
  BY <1>6 DEF ClicksCounted, YesWay, YesHeld
\* A received envelope that is not held, and one that is.
<1>7. ASSUME NEW h \in Handlers, NEW t, Arrives(h, t), UNCHANGED <<clicks, completes>>,
             \A g \in Handlers \ {h} : taken'[g] = taken[g],
             YesHeld(h)' = 0 \/ Yes(Head(up[h]))
      PROVE  ClicksCounted'
  <2>1. up[h] # <<>> /\ up'[h] = Tail(up[h]) /\ \A g \in Handlers \ {h} : up'[g] = up[g]
    BY <1>0, <1>7 DEF Arrives
  <2>2. YesHeld(h) = 0
    BY <1>7 DEF Arrives, YesHeld, Nothing
  <2>3. Yeses(Tail(up[h])) + (IF Yes(Head(up[h])) THEN 1 ELSE 0) <= Yeses(up[h])
    BY <1>1, <2>1, YesTail
  <2>4. YesWay(h)' <= YesWay(h)
    <3> HIDE DEF Yes
    <3> QED BY <1>1, <1>2, <1>7, <1>8, <2>1, <2>2, <2>3
  <2>5. completes' + YesWay(h)' <= completes + YesWay(h)
    <3>1. YesWay(h) \in Nat /\ YesWay(h)' \in Nat
      BY <1>9
    <3> QED BY <1>3, <1>7, <2>4, <3>1
  <2> QED BY <1>4, <1>7, <2>1, <2>5
<1>11. ASSUME NEW h \in Handlers, RecvHello(h) PROVE ClicksCounted'
  <2>1. YesHeld(h)' = 0
    BY <1>11 DEF RecvHello, Arrives, YesHeld, HelloHeld, Nothing
  <2> QED BY <1>7, <1>11, <2>1 DEF RecvHello, histVars
<1>12. ASSUME NEW h \in Handlers, InsertResponder(h) \/ FinishChallenge(h) \/ FinishComplete(h) PROVE ClicksCounted'
  <2>1. /\ up' = up /\ taken' = [taken EXCEPT ![h] = Nothing] /\ clicks' = clicks /\ completes' = completes
    BY <1>12 DEF InsertResponder, FinishChallenge, FinishComplete, histVars
  <2>2. YesHeld(h)' = 0
    BY <1>0, <2>1 DEF YesHeld, Nothing
  <2>3. completes' + YesWay(h)' <= completes + YesWay(h)
    BY <1>1, <1>2, <1>3, <1>8, <2>1, <2>2
  <2>4. \A g \in Handlers \ {h} : up'[g] = up[g] /\ taken'[g] = taken[g]
    BY <2>1
  <2> QED BY <1>4, <2>1, <2>3, <2>4
<1>13. ASSUME NEW h \in Handlers, RecvRequest(h) PROVE ClicksCounted'
  <2>1. YesHeld(h)' = 0
    BY <1>13 DEF RecvRequest, Arrives, YesHeld, Nothing
  <2> QED BY <1>7, <1>13, <2>1 DEF RecvRequest, histVars
<1>14. ASSUME NEW h \in Handlers, NEW t \in {"challenge", "confirm"}, TakeInitiator(h, t) PROVE ClicksCounted'
  <2>1. YesHeld(h)' = 0 \/ Yes(Head(up[h]))
    <3>1. CASE session.kind = "initiator"
      <4>1. taken'[h] = [what |-> t, att |-> session.att, ok |-> Head(up[h]).ok] /\ Head(up[h]).type = t
        BY <1>0, <1>14, <3>1 DEF TakeInitiator, Arrives
      <4> QED BY <4>1 DEF YesHeld, Yes
    <3>2. CASE session.kind # "initiator"
      BY <1>14, <3>2 DEF TakeInitiator, Arrives, YesHeld, Nothing
    <3> QED BY <3>1, <3>2
  <2> QED BY <1>0, <1>7, <1>14, <2>1 DEF TakeInitiator, histVars
<1>15. ASSUME NEW h \in Handlers, FinishConfirm(h) PROVE ClicksCounted'
  <2>1. up' = up /\ taken' = [taken EXCEPT ![h] = Nothing] /\ clicks' = clicks
        /\ completes' = completes + YesHeld(h)
    <3>1. CASE taken[h].ok
      BY <1>3, <1>15, <3>1 DEF FinishConfirm, YesHeld
    <3>2. CASE ~taken[h].ok
      <4>1. completes' = completes /\ YesHeld(h) = 0
        BY <1>15, <3>2 DEF FinishConfirm, YesHeld
      <4> QED BY <1>3, <1>15, <4>1 DEF FinishConfirm
    <3> QED BY <3>1, <3>2
  <2>2. YesHeld(h)' = 0
    BY <1>0, <2>1 DEF YesHeld, Nothing
  <2>3. completes' + YesWay(h)' <= completes + YesWay(h)
    BY <1>1, <1>2, <1>3, <1>8, <2>1, <2>2
  <2>4. \A g \in Handlers \ {h} : up'[g] = up[g] /\ taken'[g] = taken[g]
    BY <2>1
  <2> QED BY <1>4, <2>1, <2>3, <2>4
<1>16. ASSUME NEW h \in Handlers, RecvComplete(h) PROVE ClicksCounted'
  <2>1. YesHeld(h)' = 0
    BY <1>0, <1>16 DEF RecvComplete, Arrives, YesHeld, Nothing
  <2> QED BY <1>0, <1>7, <1>16, <2>1 DEF RecvComplete, histVars
<1>20. ASSUME NEW n \in Attempts, InsertInitiator(n) PROVE ClicksCounted'
  BY <1>6, <1>20 DEF InsertInitiator, histVars
<1>21. ASSUME PairStart PROVE ClicksCounted'
  BY <1>6, <1>21 DEF PairStart, histVars
<1>22. ASSUME NEW a \in BOOLEAN, Decide(a) PROVE ClicksCounted'
  BY <1>6, <1>22 DEF Decide
<1>23. ASSUME RemoveDevice \/ Unregister \/ Expire \/ UserResets \/ OnReject PROVE ClicksCounted'
  BY <1>6, <1>23 DEF RemoveDevice, Unregister, Expire, UserResets, OnReject, PhoneOnly, deskVars, histVars
<1>24. \A t \in Types \ {"confirm"}, n \in Attempts, o \in BOOLEAN : Msg(t, n, o) \in Message /\ ~Yes(Msg(t, n, o))
  BY DEF Message, Msg, Yes
<1>25. 0 \in Attempts /\ (down # <<>> => Head(down).att \in Attempts) /\ phone.att \in Attempts
  <2>1. down \in Seq(Message) /\ phone.att \in Attempts /\ 0 \in Attempts
    BY BoundsAssumption DEF BoundsAssumption, Attempts, TypeOK
  <2>2. down # <<>> => Head(down) \in Message
    BY <2>1, CutFacts
  <2> QED BY <2>1, <2>2 DEF Message
<1>26. "hello" \in Types \ {"confirm"} /\ "challenge" \in Types \ {"confirm"} /\ "complete" \in Types \ {"confirm"}
       /\ "request" \in Types \ {"confirm"}
  BY DEF Types
<1>30. ASSUME OnHello PROVE ClicksCounted'
  BY <1>5, <1>6, <1>24, <1>25, <1>26, <1>30 DEF OnHello, PhoneOnly, deskVars, histVars
<1>31. ASSUME OnRequest PROVE ClicksCounted'
  BY <1>5, <1>24, <1>25, <1>26, <1>31 DEF OnRequest, Delivered, PhoneOnly, deskVars, histVars
<1>32. ASSUME OnConfirm PROVE ClicksCounted'
  <2>1. UNCHANGED <<taken, clicks, completes>> /\ (up' = up \/ ToDesktop(Msg("complete", 0, TRUE)))
    BY <1>32 DEF OnConfirm, PhoneOnly, deskVars, histVars
  <2> QED BY <1>5, <1>6, <1>24, <1>25, <1>26, <2>1
<1>33. ASSUME OnComplete PROVE ClicksCounted'
  BY <1>5, <1>24, <1>25, <1>26, <1>33 DEF OnComplete, Delivered, PhoneOnly, deskVars, histVars
<1>34. ASSUME UserAccepts PROVE ClicksCounted'
  <2>1. CASE expired
    BY <1>6, <1>34, <2>1 DEF UserAccepts, deskVars
  <2>2. CASE ~expired
    <3> DEFINE m == Msg("confirm", phone.att, TRUE)
    <3>1. m \in Message
      BY <1>25 DEF Message, Msg, Types
    <3>2. up'["cur"] = Append(up["cur"], m) /\ up'["old"] = up["old"] /\ taken' = taken /\ completes' = completes
      BY <1>0, <1>34, <2>2 DEF UserAccepts, ToDesktop, deskVars
    <3>3. Yeses(up'["cur"]) <= Yeses(up["cur"]) + 1
      <4>1. Yeses(Append(up["cur"], m)) <= Yeses(up["cur"]) + (IF Yes(m) THEN 1 ELSE 0)
        BY <1>0, <1>1, <3>1, YesAppend
      <4>2. Yes(m)
        BY DEF Yes, Msg
      <4> QED BY <3>2, <4>1, <4>2
    <3>4. Len(clicks') = Len(clicks) + 1
      BY <1>34, <2>2, <1>25, AppendProperties DEF UserAccepts
    <3>5. YesHeld("cur")' = YesHeld("cur") /\ YesHeld("old")' = YesHeld("old")
      BY <3>2 DEF YesHeld
    <3>6. Yeses(up'["old"]) = Yeses(up["old"]) /\ completes' = completes
      BY <3>2
    <3> HIDE DEF m
    <3> QED BY <1>3, <1>10, <1>18, <3>3, <3>4, <3>5, <3>6 DEF ClicksCounted
  <2> QED BY <2>1, <2>2
<1>35. ASSUME UserRejects PROVE ClicksCounted'
  <2>1. Msg("confirm", phone.att, FALSE) \in Message /\ ~Yes(Msg("confirm", phone.att, FALSE))
    BY <1>25 DEF Message, Msg, Types, Yes
  <2> QED BY <1>5, <1>35, <2>1 DEF UserRejects, PhoneOnly, deskVars, histVars
<1>36. ASSUME UserInitiates PROVE ClicksCounted'
  BY <1>5, <1>24, <1>25, <1>26, <1>36 DEF UserInitiates, deskVars, histVars
<1>37. ASSUME Reconnect PROVE ClicksCounted'
  BY <1>5, <1>24, <1>25, <1>26, <1>37 DEF Reconnect, deskVars, histVars
<1>41. ASSUME NEW k \in 0..Len(up["cur"]), NEW j \in 0..k, Disconnect(j, k), UNCHANGED histVars PROVE ClicksCounted'
  <2>1. /\ up'["cur"] = SubSeq(up["cur"], k + 1, Len(up["cur"])) /\ up'["old"] = SubSeq(up["cur"], 1, j)
        /\ taken'["cur"] = Nothing /\ taken'["old"] = taken["cur"]
    BY <1>0, <1>41 DEF Disconnect
  <2>2. Yeses(up'["old"]) + Yeses(up'["cur"]) <= Yeses(up["cur"])
    BY <1>0, <1>1, <2>1, YesCut
  <2>3. YesHeld("cur")' = 0 /\ YesHeld("old")' = YesHeld("cur")
    BY <2>1 DEF YesHeld, Nothing
  <2>4. completes' = completes /\ clicks' = clicks
    BY <1>41 DEF histVars
  <2> QED BY <1>3, <1>10, <1>18, <2>2, <2>3, <2>4 DEF ClicksCounted
<1>42. ASSUME Drop PROVE ClicksCounted'
  BY <1>41, <1>42 DEF Drop
<1>43. ASSUME PhoneRestarts PROVE ClicksCounted'
  <2>1. Len(up["cur"]) \in Nat /\ Len(up["cur"]) \in 0..Len(up["cur"]) /\ 0 \in 0..Len(up["cur"])
    BY <1>0, <1>1, LenProperties
  <2>2. CASE \E j \in 0..Len(up["cur"]) : Disconnect(j, Len(up["cur"]))
    BY <1>41, <1>43, <2>1, <2>2 DEF PhoneRestarts
  <2>3. CASE UNCHANGED <<taken, linkVars, down>> /\ up' = [up EXCEPT !["cur"] = <<>>]
    <3>1. up'["cur"] = SubSeq(up["cur"], 1, 0) /\ up'["old"] = up["old"]
      <4>1. SubSeq(up["cur"], 1, 0) = <<>>
        BY SubSeqEmpty
      <4> QED BY <1>0, <2>3, <4>1
    <3>2. Yeses(up'["cur"]) <= Yeses(up["cur"])
      <4>1. SubSeq(up["cur"], Len(up["cur"]) + 1, Len(up["cur"])) = <<>> /\ SubSeq(up["cur"], 1, 0) = <<>>
        BY <2>1, SubSeqEmpty
      <4>2. Yeses(up'["cur"]) + Yeses(up'["cur"]) <= Yeses(up["cur"])
        BY <1>0, <1>1, <2>1, <3>1, <4>1, YesCut
      <4> QED BY <1>0, <1>1, <4>2
    <3>3. YesHeld("cur")' = YesHeld("cur") /\ YesHeld("old")' = YesHeld("old")
      BY <2>3 DEF YesHeld
    <3>4. completes' = completes /\ clicks' = clicks /\ Yeses(up'["old"]) = Yeses(up["old"])
      BY <1>43, <3>1 DEF PhoneRestarts, histVars
    <3> QED BY <1>3, <1>10, <1>18, <3>2, <3>3, <3>4 DEF ClicksCounted
  <2> QED BY <1>43, <2>2, <2>3 DEF PhoneRestarts
<1>44. ASSUME DesktopRestarts PROVE ClicksCounted'
  <2>1. PICK k \in 0..Len(up["cur"]) :
           up' = [up EXCEPT !["cur"] = SubSeq(@, k + 1, Len(@)), !["old"] = <<>>]
    BY <1>44 DEF DesktopRestarts
  <2>2. Len(up["cur"]) \in Nat
    BY <1>0, <1>1, LenProperties
  <2>3. up'["cur"] = SubSeq(up["cur"], k + 1, Len(up["cur"])) /\ up'["old"] = SubSeq(up["cur"], 1, 0)
    <3>1. SubSeq(up["cur"], 1, 0) = <<>>
      BY SubSeqEmpty
    <3> QED BY <1>0, <2>1, <3>1
  <2>4. Yeses(up'["old"]) + Yeses(up'["cur"]) <= Yeses(up["cur"])
    <3>1. 0 \in 0..k
      BY <2>2
    <3> QED BY <1>0, <1>1, <2>3, <3>1, YesCut
  <2>5. YesHeld("cur")' = 0 /\ YesHeld("old")' = 0
    BY <1>0, <1>44 DEF DesktopRestarts, YesHeld, Nothing
  <2>6. completes' = completes /\ clicks' = clicks
    BY <1>44 DEF DesktopRestarts, histVars
  <2> QED BY <1>3, <1>10, <1>18, <2>4, <2>5, <2>6 DEF ClicksCounted
<1>45. CASE UNCHANGED vars
  BY <1>6, <1>45 DEF vars, deskVars, histVars
<1> QED
  BY <1>11, <1>12, <1>13, <1>14, <1>15, <1>16, <1>20, <1>21, <1>22, <1>23, <1>30, <1>31, <1>32, <1>33,
     <1>34, <1>35, <1>36, <1>37, <1>42, <1>43, <1>44, <1>45
  DEF Next, Dispatch, RecvChallenge, RecvConfirm, PhoneHandles, User, Fault

-----------------------------------------------------------------------------
\* The envelopes that carry an attempt on, one after the other.
Main == {"request", "confirm", "complete"}

\* A queue without envelopes of some types, and one with a single envelope of
\* those, of type t, and nothing of the types A behind it.
Free(q, T) == \A i \in DOMAIN q : q[i].type \notin T
One(q, t, A) ==
    \E i \in DOMAIN q :
        /\ q[i].type = t
        /\ \A j \in DOMAIN q : j # i => q[j].type \notin Main
        /\ \A j \in DOMAIN q : i < j => q[j].type \notin A

\* Where an undisturbed attempt is: not begun; on its way to the phone, on
\* display, answered, its answer with the handler, the certificate sent, the
\* phone's sent, the phone's with the handler, complete; or given up.
Unpaired == completes = 0 /\ session.kind # "paired" /\ phone.st # "Paired"
Idling   == taken["cur"].what \notin {"confirm", "complete"}
Hidden   == phone.st # "ShowingCode"
Inserted == session.kind = "initiator" \/ taken["cur"].what \in {"challenge", "confirm", "complete"}
Sealed   == completes = 1 /\ starting = {} /\ Free(up["cur"], {"challenge"})

Fresh    == /\ starts = 0 /\ starting = {} /\ completes = 0 /\ phone.st = "Idle"
            /\ Free(down, Main) /\ Free(down, {"reject"})
            /\ Free(up["cur"], Main) /\ Free(up["cur"], {"challenge"})
            /\ session.kind \in {"none", "responder"} /\ taken["cur"].what \in {"nothing", "hello"}
GivenUp  == Free(down, Main) /\ Free(up["cur"], Main) /\ Idling /\ Unpaired /\ Hidden
Asked    == /\ One(down, "request", {}) /\ Free(up["cur"], Main) /\ Free(up["cur"], {"challenge"})
            /\ taken["cur"].what \in {"nothing", "hello"} /\ Unpaired /\ Hidden
Shown    == Free(down, Main) /\ Free(up["cur"], Main) /\ Idling /\ Unpaired /\ ~Hidden
Answered == Free(down, Main) /\ One(up["cur"], "confirm", {"challenge"}) /\ Idling /\ Unpaired /\ Hidden
Heard    == /\ Free(down, Main) /\ Free(up["cur"], Main) /\ Free(up["cur"], {"challenge"})
            /\ taken["cur"].what = "confirm" /\ Unpaired /\ Hidden
Sent     == /\ One(down, "complete", {"reject"}) /\ Free(up["cur"], Main) /\ Sealed
            /\ session.kind = "initiator" /\ taken["cur"] = Nothing
            /\ phone.st \notin {"ShowingCode", "Paired"}
Back     == /\ Free(down, Main) /\ Free(down, {"reject"}) /\ One(up["cur"], "complete", {}) /\ Sealed
            /\ session.kind = "initiator" /\ taken["cur"] = Nothing /\ phone.st = "Paired"
Kept     == /\ Free(down, Main) /\ Free(down, {"reject"}) /\ Free(up["cur"], Main) /\ Sealed
            /\ taken["cur"].what = "complete" /\ phone.st = "Paired"
Done     == /\ Free(down, Main) /\ Free(down, {"reject"}) /\ Free(up["cur"], Main) /\ Sealed
            /\ session.kind = "paired" /\ taken["cur"] = Nothing /\ phone.st = "Paired"

Begun == starts = 1 /\ starting \subseteq {1} /\ (Inserted => starting = {})

Stage == \/ Fresh
         \/ Begun /\ (GivenUp \/ Asked \/ Shown \/ Answered \/ Heard \/ Sent \/ Back \/ Kept \/ Done)

\* Before the first connection nothing can have begun.
Unlinked == Fresh /\ up["cur"] = <<>> /\ down = <<>> /\ taken["cur"] = Nothing /\ registered = "no"

\* An undisturbed attempt is at one of its stages.
Orderly == Calm => ~pending /\ Stage /\ (~link => Unlinked)


\* The tail of a queue free of some types, and the tail of a queue that carries
\* one attempt.
LEMMA FreeTail ==
    ASSUME NEW q \in Seq(Message), q # <<>>
    PROVE  \A T : Free(q, T) => Head(q).type \notin T /\ Free(Tail(q), T)
<1>1. /\ Len(q) \in Nat \ {0} /\ DOMAIN q = 1..Len(q) /\ Head(q) = q[1]
      /\ Tail(q) \in Seq(Message) /\ Len(Tail(q)) = Len(q) - 1 /\ DOMAIN Tail(q) = 1..Len(Tail(q))
      /\ \A i \in 1..Len(Tail(q)) : Tail(q)[i] = q[i + 1]
  BY LenProperties, HeadTailProperties, EmptySeq
<1> SUFFICES ASSUME NEW T, Free(q, T) PROVE Head(q).type \notin T /\ Free(Tail(q), T)
  OBVIOUS
<1>2. 1 \in DOMAIN q
  BY <1>1
<1>3. ASSUME NEW i \in DOMAIN Tail(q) PROVE Tail(q)[i].type \notin T
  <2>1. i + 1 \in DOMAIN q /\ Tail(q)[i] = q[i + 1]
    BY <1>1
  <2> QED BY <2>1 DEF Free
<1> QED BY <1>1, <1>2, <1>3 DEF Free

LEMMA OneTail ==
    ASSUME NEW q \in Seq(Message), q # <<>>
    PROVE  \A t \in Main : \A A : One(q, t, A) =>
               \/ Head(q).type \notin Main /\ One(Tail(q), t, A)
               \/ Head(q).type = t /\ Free(Tail(q), Main) /\ Free(Tail(q), A)
<1>1. /\ Len(q) \in Nat \ {0} /\ DOMAIN q = 1..Len(q) /\ Head(q) = q[1]
      /\ Tail(q) \in Seq(Message) /\ Len(Tail(q)) = Len(q) - 1 /\ DOMAIN Tail(q) = 1..Len(Tail(q))
      /\ \A i \in 1..Len(Tail(q)) : Tail(q)[i] = q[i + 1]
  BY LenProperties, HeadTailProperties, EmptySeq
<1> SUFFICES ASSUME NEW t \in Main, NEW A, One(q, t, A)
             PROVE  \/ Head(q).type \notin Main /\ One(Tail(q), t, A)
                    \/ Head(q).type = t /\ Free(Tail(q), Main) /\ Free(Tail(q), A)
  OBVIOUS
<1>2. PICK n \in DOMAIN q : /\ q[n].type = t
                            /\ \A j \in DOMAIN q : j # n => q[j].type \notin Main
                            /\ \A j \in DOMAIN q : n < j => q[j].type \notin A
  BY DEF One
<1>3. \A i \in DOMAIN Tail(q) : i + 1 \in DOMAIN q /\ i \in Nat /\ i >= 1 /\ Tail(q)[i] = q[i + 1]
  BY <1>1
<1>4. CASE n = 1
  <2>1. ASSUME NEW i \in DOMAIN Tail(q) PROVE Tail(q)[i].type \notin Main /\ Tail(q)[i].type \notin A
    <3>1. i + 1 \in DOMAIN q /\ i + 1 # n /\ n < i + 1 /\ Tail(q)[i] = q[i + 1]
      BY <1>3, <1>4
    <3> QED BY <1>2, <3>1
  <2> QED BY <1>1, <1>2, <1>4, <2>1 DEF Free
<1>5. CASE n # 1
  <2>1. n - 1 \in DOMAIN Tail(q) /\ Tail(q)[n - 1] = q[n] /\ n \in Nat
    <3>1. n - 1 \in 1..Len(Tail(q)) /\ (n - 1) + 1 = n
      BY <1>1, <1>5
    <3> QED BY <1>1, <3>1
  <2>2. ASSUME NEW i \in DOMAIN Tail(q)
        PROVE  /\ i # n - 1 => Tail(q)[i].type \notin Main
               /\ n - 1 < i => Tail(q)[i].type \notin A
    <3>1. i + 1 \in DOMAIN q /\ Tail(q)[i] = q[i + 1] /\ (i # n - 1 => i + 1 # n) /\ (n - 1 < i => n < i + 1)
      BY <1>3, <2>1
    <3> QED BY <1>2, <3>1
  <2>3. One(Tail(q), t, A)
    BY <1>2, <2>1, <2>2 DEF One
  <2>4. Head(q).type \notin Main
    <3>1. 1 \in DOMAIN q /\ 1 # n
      BY <1>1, <1>5
    <3> QED BY <1>1, <1>2, <3>1
  <2> QED BY <2>3, <2>4
<1> QED BY <1>4, <1>5

\* The same when an envelope is added.
LEMMA FreeAppend ==
    ASSUME NEW q \in Seq(Message), NEW m \in Message
    PROVE  \A T : Free(q, T) /\ m.type \notin T => Free(Append(q, m), T)
<1>1. /\ Len(q) \in Nat /\ DOMAIN q = 1..Len(q) /\ Append(q, m) \in Seq(Message)
      /\ DOMAIN Append(q, m) = 1..(Len(q) + 1) /\ Append(q, m)[Len(q) + 1] = m
      /\ \A i \in 1..Len(q) : Append(q, m)[i] = q[i]
  BY AppendProperties, LenProperties
<1> SUFFICES ASSUME NEW T, Free(q, T), m.type \notin T, NEW i \in DOMAIN Append(q, m)
             PROVE  Append(q, m)[i].type \notin T
  BY DEF Free
<1>2. i \in DOMAIN q \/ i = Len(q) + 1
  BY <1>1
<1> QED BY <1>1, <1>2 DEF Free

LEMMA OneAppend ==
    ASSUME NEW q \in Seq(Message), NEW m \in Message
    PROVE  \A t \in Main : \A A :
               \/ One(q, t, A) /\ m.type \notin Main /\ m.type \notin A
               \/ Free(q, Main) /\ m.type = t
               => One(Append(q, m), t, A)
<1>1. /\ Len(q) \in Nat /\ DOMAIN q = 1..Len(q) /\ Append(q, m) \in Seq(Message)
      /\ DOMAIN Append(q, m) = 1..(Len(q) + 1) /\ Append(q, m)[Len(q) + 1] = m
      /\ \A i \in 1..Len(q) : Append(q, m)[i] = q[i]
  BY AppendProperties, LenProperties
<1>2. \A i \in DOMAIN Append(q, m) : i \in DOMAIN q \/ i = Len(q) + 1
  BY <1>1
<1>3. \A i \in DOMAIN q : i \in DOMAIN Append(q, m) /\ Append(q, m)[i] = q[i]
  BY <1>1
<1>4. ASSUME NEW t \in Main, NEW A, One(q, t, A), m.type \notin Main, m.type \notin A
      PROVE  One(Append(q, m), t, A)
  <2>1. PICK n \in DOMAIN q : /\ q[n].type = t
                              /\ \A j \in DOMAIN q : j # n => q[j].type \notin Main
                              /\ \A j \in DOMAIN q : n < j => q[j].type \notin A
    BY <1>4 DEF One
  <2>2. n \in DOMAIN Append(q, m) /\ Append(q, m)[n].type = t
    BY <1>3, <2>1
  <2>3. ASSUME NEW j \in DOMAIN Append(q, m)
        PROVE  /\ j # n => Append(q, m)[j].type \notin Main
               /\ n < j => Append(q, m)[j].type \notin A
    <3>1. CASE j \in DOMAIN q
      BY <1>3, <2>1, <3>1
    <3>2. CASE j = Len(q) + 1
      BY <1>1, <1>4, <3>2
    <3> QED BY <1>2, <3>1, <3>2
  <2> QED BY <2>2, <2>3 DEF One
<1>5. ASSUME NEW t \in Main, NEW A, Free(q, Main), m.type = t
      PROVE  One(Append(q, m), t, A)
  <2> DEFINE n == Len(q) + 1
  <2>1. n \in DOMAIN Append(q, m) /\ Append(q, m)[n].type = t
    BY <1>1, <1>5
  <2>2. ASSUME NEW j \in DOMAIN Append(q, m)
        PROVE  /\ j # n => Append(q, m)[j].type \notin Main
               /\ ~(n < j)
    <3>1. j \in DOMAIN q \/ j = n
      BY <1>2
    <3>2. ~(n < j)
      BY <1>1
    <3> QED BY <1>3, <1>5, <3>1, <3>2 DEF Free
  <2> HIDE DEF n
  <2> QED BY <2>1, <2>2 DEF One
<1> QED BY <1>4, <1>5

\* Nothing is in an empty queue.
LEMMA EmptyQueue == (\A T : Free(<<>>, T)) /\ \A t, A : ~One(<<>>, t, A)
BY DEF Free, One

\* Steps of an undisturbed attempt over its connection.
LEMMA OrderlyStep ==
    ASSUME TypeOK, TypeOK', ConsentAhead, OneHandler, Orderly, [Next]_vars PROVE Orderly'
<1> SUFFICES ASSUME Calm' PROVE (~pending /\ Stage /\ (~link => Unlinked))'
  BY DEF Orderly
<1>0. /\ down \in Seq(Message) /\ up \in [Handlers -> Seq(Message)] /\ up["cur"] \in Seq(Message)
      /\ taken \in [Handlers -> Held] /\ taken["cur"] \in Held /\ "cur" \in Handlers
      /\ phone \in [st : PhoneStates, att : Attempts] /\ session \in Session
      /\ starts \in Nat /\ inits \in Nat /\ faults \in Nat /\ completes \in Nat
      /\ link \in BOOLEAN /\ pending \in BOOLEAN /\ starting \subseteq Attempts
      /\ 0 \in Attempts /\ Attempts \subseteq Nat
  <2>1. starting \subseteq Attempts /\ 0 \in Attempts
    BY Shapes DEF TypeOK
  <2> QED BY <2>1, BoundsAssumption DEF BoundsAssumption, TypeOK, Handlers, Attempts
<1>1. /\ inits = 0 /\ faults = 0 /\ starts <= 1 /\ Calm
      /\ ~RemoveDevice /\ ~Drop /\ ~DesktopRestarts /\ ~PhoneRestarts /\ ~UserInitiates
  <2>1. inits' = 0 /\ faults' = 0 /\ starts' <= 1
    BY DEF Calm
  <2>2. ~RemoveDevice /\ ~Drop /\ ~DesktopRestarts /\ ~PhoneRestarts /\ ~UserInitiates
    <3>1. faults + 1 # 0 /\ inits + 1 # 0
      BY <1>0
    <3>2. faults' # faults + 1 /\ inits' # inits + 1
      BY <2>1, <3>1
    <3> QED BY <3>2 DEF RemoveDevice, Drop, DesktopRestarts, PhoneRestarts, UserInitiates
  <2>3. PairStart \/ UNCHANGED <<starts, inits, faults>>
    BY <2>2 DEF Next, Dispatch, PhoneHandles, User, Fault, vars, PhoneOnly,
       RecvHello, InsertResponder, RecvRequest, RecvChallenge, RecvConfirm, TakeInitiator,
       FinishChallenge, FinishConfirm, RecvComplete, FinishComplete, InsertInitiator, Decide,
       OnHello, OnRequest, OnConfirm, OnComplete, OnReject, Expire, UserAccepts, UserRejects, UserResets,
       Reconnect, Unregister
  <2>4. starts <= 1 /\ inits = 0 /\ faults = 0
    <3>1. PairStart => starts' = starts + 1 /\ inits' = inits /\ faults' = faults
      BY DEF PairStart
    <3> QED BY <1>0, <2>1, <2>3, <3>1
  <2> QED BY <2>2, <2>4 DEF Calm
<1>2. ~pending /\ Stage /\ (~link => Unlinked) /\ up["old"] = <<>> /\ taken["old"].what = "nothing"
  BY <1>1 DEF Orderly, OneHandler, OldIdle, Nothing
<1>3. phone.st # "Initiating"
  BY <1>1 DEF ConsentAhead
\* The handler of the old connection has nothing to do.
<1>4. ASSUME NEW h \in Handlers, Dispatch(h) PROVE h = "cur"
  <2>1. (\E t \in Types : Arrives(h, t)) \/ taken[h].what # "nothing"
    BY <1>4 DEF Dispatch, Types, RecvHello, InsertResponder, RecvRequest, RecvChallenge, RecvConfirm,
       TakeInitiator, FinishChallenge, FinishConfirm, RecvComplete, FinishComplete
  <2>2. up[h] # <<>> \/ taken[h].what # "nothing"
    BY <2>1 DEF Arrives
  <2> QED BY <1>2, <2>2 DEF Handlers
\* What the operations on the queues do to them.
<1>5. up["cur"] # <<>> =>
        /\ Head(up["cur"]) \in Message /\ Tail(up["cur"]) \in Seq(Message)
        /\ \A T : Free(up["cur"], T) => Head(up["cur"]).type \notin T /\ Free(Tail(up["cur"]), T)
        /\ \A t \in Main : \A A : One(up["cur"], t, A) =>
              \/ Head(up["cur"]).type \notin Main /\ One(Tail(up["cur"]), t, A)
              \/ Head(up["cur"]).type = t /\ Free(Tail(up["cur"]), Main) /\ Free(Tail(up["cur"]), A)
  BY <1>0, CutFacts, FreeTail, OneTail
<1>6. down # <<>> =>
        /\ Head(down) \in Message /\ Tail(down) \in Seq(Message)
        /\ \A T : Free(down, T) => Head(down).type \notin T /\ Free(Tail(down), T)
        /\ \A t \in Main : \A A : One(down, t, A) =>
              \/ Head(down).type \notin Main /\ One(Tail(down), t, A)
              \/ Head(down).type = t /\ Free(Tail(down), Main) /\ Free(Tail(down), A)
  BY <1>0, CutFacts, FreeTail, OneTail
<1>7. ASSUME NEW q \in {down, up["cur"]}, NEW m \in Message
      PROVE  /\ \A T : Free(q, T) /\ m.type \notin T => Free(Append(q, m), T)
             /\ \A t \in Main : \A A : One(q, t, A) /\ m.type \notin Main /\ m.type \notin A => One(Append(q, m), t, A)
             /\ \A t \in Main : \A A : Free(q, Main) /\ m.type = t => One(Append(q, m), t, A)
  BY <1>0, FreeAppend, OneAppend
<1>8. \A t \in Types, n \in Attempts, o \in BOOLEAN : Msg(t, n, o) \in Message /\ Msg(t, n, o).type = t
  BY DEF Message, Msg
<1>9. Main = {"request", "confirm", "complete"} /\ Types = {"hello", "request", "challenge", "confirm", "complete", "reject"}
  BY DEF Main, Types
\* Before the connection.
<1>10. CASE ~link
  <2>1. Unlinked
    BY <1>2, <1>10
  <2>2. Decide(TRUE) \/ Decide(FALSE) \/ Reconnect \/ Unregister \/ UNCHANGED vars
    <3>1. \A h \in Handlers : ~Dispatch(h)
      <4>1. ~Dispatch("cur")
        BY <1>10, <2>1 DEF Unlinked, Nothing, Dispatch, RecvHello, InsertResponder, RecvRequest, RecvChallenge, RecvConfirm,
           TakeInitiator, FinishChallenge, FinishConfirm, RecvComplete, FinishComplete, Arrives
      <4> QED BY <1>4, <4>1
    <3>2. \A n \in Attempts : ~InsertInitiator(n)
      BY <2>1 DEF Unlinked, Fresh, InsertInitiator
    <3>3. ~PhoneHandles
      BY <1>10 DEF PhoneHandles, OnHello, OnRequest, OnConfirm, OnComplete, OnReject, Delivered
    <3>4. ~PairStart /\ ~UserAccepts /\ ~UserRejects /\ ~UserResets /\ ~Expire
      BY <2>1 DEF Unlinked, Fresh, PairStart, UserAccepts, UserRejects, UserResets, Expire
    <3> QED BY <1>1, <3>1, <3>2, <3>3, <3>4 DEF Next, User, Fault
  <2>3. ~Decide(TRUE) /\ ~Decide(FALSE)
    BY <1>2 DEF Decide
  <2>4. CASE Unregister \/ UNCHANGED vars
    <3>1. UNCHANGED <<session, taken, pending, starting, link, down, up, phone, starts, completes>> /\ registered' = "no"
      BY <2>1, <2>4 DEF Unregister, vars, deskVars, linkVars, phoneVars, histVars, Unlinked
    <3> QED BY <1>2, <2>1, <3>1 DEF Stage, Unlinked, Fresh
  <2>5. CASE Reconnect
    <3>1. /\ UNCHANGED <<session, taken, pending, starting, phone, starts, completes>> /\ link' = TRUE
          /\ down' = <<Msg("hello", 0, TRUE)>> /\ up'["cur"] = Append(up["cur"], Msg("hello", 0, TRUE))
      BY <1>0, <2>5 DEF Reconnect, ToDesktop, deskVars, phoneVars, histVars
    <3>2. Free(down', Main) /\ Free(down', {"reject"})
      BY <3>1 DEF Free, Main, Msg
    <3>3. Free(up'["cur"], Main) /\ Free(up'["cur"], {"challenge"})
      <4>1. Msg("hello", 0, TRUE) \in Message /\ Msg("hello", 0, TRUE).type = "hello"
        BY <1>0, <1>8, <1>9
      <4> QED BY <1>7, <1>9, <2>1, <3>1, <4>1 DEF Unlinked, Fresh
    <3> QED BY <1>2, <2>1, <3>1, <3>2, <3>3 DEF Stage, Unlinked, Fresh
  <2> QED BY <2>2, <2>3, <2>4, <2>5
<1>20. CASE link
  <2>0. ASSUME pending' = pending, link' = link, Stage' PROVE (~pending /\ Stage /\ (~link => Unlinked))'
    BY <1>2, <1>20, <2>0
  <2> USE DEF Stage, Begun, Inserted, Fresh, GivenUp, Asked, Shown, Answered, Heard, Sent, Back, Kept, Done,
              Unpaired, Idling, Hidden, Sealed, Nothing
  \* Dispatch.
  <2>1. CASE RecvHello("cur")
    <3>1. /\ up["cur"] # <<>> /\ up'["cur"] = Tail(up["cur"]) /\ Head(up["cur"]).type = "hello" /\ taken["cur"] = Nothing
          /\ taken'["cur"].what \in {"nothing", "hello"} /\ (session.kind # "none" => taken'["cur"] = Nothing)
          /\ UNCHANGED <<session, pending, starting, link, down, phone, starts, completes>>
      <4>1. /\ up["cur"] # <<>> /\ up'["cur"] = Tail(up["cur"]) /\ Head(up["cur"]).type = "hello" /\ taken["cur"] = Nothing
        BY <1>0, <2>1 DEF RecvHello, Arrives
      <4>2. taken'["cur"] = IF session.kind = "none" THEN HelloHeld ELSE Nothing
        BY <1>0, <2>1, <4>1 DEF RecvHello
      <4> QED BY <2>1, <4>1, <4>2 DEF RecvHello, Nothing, HelloHeld, phoneVars, histVars
    <3>2. Stage'
      BY <1>2, <1>5, <1>9, <3>1
    <3> QED BY <2>0, <3>1, <3>2
  <2>2. CASE InsertResponder("cur")
    <3>1. /\ taken["cur"].what = "hello" /\ taken'["cur"] = Nothing /\ session' = [kind |-> "responder", att |-> 0]
          /\ UNCHANGED <<up, pending, starting, link, down, phone, starts, completes>>
      BY <1>0, <2>2 DEF InsertResponder, linkVars, phoneVars, histVars
    <3>2. Stage'
      BY <1>2, <3>1
    <3> QED BY <2>0, <3>1, <3>2 DEF linkVars
  <2>3. CASE RecvRequest("cur")
    <3>1. up["cur"] # <<>> /\ Head(up["cur"]).type = "request"
      BY <2>3 DEF RecvRequest, Arrives
    <3> QED BY <1>2, <1>5, <1>9, <3>1
  <2>4. ASSUME NEW t \in {"challenge", "confirm"}, TakeInitiator("cur", t)
        PROVE  (~pending /\ Stage /\ (~link => Unlinked))'
    <3>1. /\ up["cur"] # <<>> /\ up'["cur"] = Tail(up["cur"]) /\ Head(up["cur"]).type = t /\ taken["cur"] = Nothing
          /\ UNCHANGED <<pending, starting, link, down, phone, starts, completes>>
      BY <1>0, <2>4 DEF TakeInitiator, Arrives, linkVars, phoneVars, histVars
    <3>2. \/ session.kind = "initiator" /\ taken'["cur"].what = t /\ session' = NoSession
          \/ session.kind # "initiator" /\ UNCHANGED <<taken, session>>
      <4>1. CASE session.kind = "initiator"
        BY <1>0, <2>4, <4>1 DEF TakeInitiator
      <4>2. CASE session.kind # "initiator"
        BY <2>4, <4>2 DEF TakeInitiator
      <4> QED BY <4>1, <4>2
    <3>3. Stage'
      BY <1>2, <1>5, <1>9, <3>1, <3>2 DEF NoSession
    <3> QED BY <2>0, <3>1, <3>3
  <2>5. CASE FinishChallenge("cur")
    <3>1. /\ taken["cur"].what = "challenge" /\ taken'["cur"] = Nothing /\ session'.kind = "initiator"
          /\ UNCHANGED <<up, pending, starting, link, phone, starts, completes>>
          /\ down' \in {down, Append(down, Msg("reject", taken["cur"].att, FALSE))}
      BY <1>0, <1>20, <2>5 DEF FinishChallenge, PutBack, ReplyToPhone, linkVars, phoneVars, histVars
    <3>2. Msg("reject", taken["cur"].att, FALSE) \in Message /\ Msg("reject", taken["cur"].att, FALSE).type = "reject"
      <4>1. taken["cur"].att \in Attempts
        BY <1>0, Shapes
      <4> QED BY <1>8, <1>9, <4>1
    <3>3. Free(down, Main) => Free(down', Main)
      BY <1>7, <1>9, <3>1, <3>2
    <3>4. Stage'
      BY <1>2, <3>1, <3>3
    <3> QED BY <2>0, <3>1, <3>4
  <2>6. CASE FinishConfirm("cur")
    <3>1. /\ taken["cur"].what = "confirm" /\ taken'["cur"] = Nothing
          /\ UNCHANGED <<up, pending, starting, link, phone, starts>>
      BY <1>0, <2>6 DEF FinishConfirm, linkVars, phoneVars
    <3>2. Heard /\ Begun /\ starting = {}
      BY <1>2, <3>1
    <3>3. CASE taken["cur"].ok
      <4>1. /\ session'.kind = "initiator" /\ completes' = completes + 1
            /\ down' = Append(down, Msg("complete", taken["cur"].att, TRUE))
        <5>1. PutBack("cur") /\ ReplyToPhone("cur", Msg("complete", taken["cur"].att, TRUE)) /\ completes' = completes + 1
          BY <2>6, <3>3 DEF FinishConfirm
        <5> QED BY <1>20, <5>1 DEF PutBack, ReplyToPhone
      <4>2. Msg("complete", taken["cur"].att, TRUE) \in Message /\ Msg("complete", taken["cur"].att, TRUE).type = "complete"
        <5>1. taken["cur"].att \in Attempts
          BY <1>0, Shapes
        <5> QED BY <1>8, <1>9, <5>1
      <4>3. One(down', "complete", {"reject"})
        BY <1>7, <1>9, <3>2, <4>1, <4>2
      <4>4. Sent' /\ Begun'
        <5>1. completes' = 1
          BY <3>2, <4>1
        <5> QED BY <3>1, <3>2, <4>1, <4>3, <5>1
      <4> QED BY <2>0, <3>1, <4>4
    <3>4. CASE ~taken["cur"].ok
      <4>1. UNCHANGED <<session, down, completes>>
        BY <2>6, <3>4 DEF FinishConfirm
      <4>2. GivenUp' /\ Begun'
        BY <3>1, <3>2, <4>1
      <4> QED BY <2>0, <3>1, <4>2
    <3> QED BY <3>3, <3>4
  <2>7. CASE RecvComplete("cur")
    <3>1. /\ up["cur"] # <<>> /\ up'["cur"] = Tail(up["cur"]) /\ Head(up["cur"]).type = "complete" /\ taken["cur"] = Nothing
          /\ UNCHANGED <<pending, starting, link, down, phone, starts, completes>>
      BY <1>0, <2>7 DEF RecvComplete, Arrives, linkVars, phoneVars, histVars
    <3>2. Back /\ Begun
      BY <1>2, <1>5, <1>9, <3>1
    <3>3. taken'["cur"].what = "complete" /\ session' = NoSession
      BY <1>0, <2>7, <3>2 DEF RecvComplete
    <3>4. Kept' /\ Begun'
      BY <1>5, <1>9, <3>1, <3>2, <3>3
    <3> QED BY <2>0, <3>1, <3>4
  <2>8. CASE FinishComplete("cur")
    <3>1. /\ taken["cur"].what = "complete" /\ taken'["cur"] = Nothing /\ session'.kind = "paired"
          /\ UNCHANGED <<up, pending, starting, link, down, phone, starts, completes>>
      BY <1>0, <2>8 DEF FinishComplete, linkVars, phoneVars, histVars
    <3>2. Stage'
      BY <1>2, <3>1
    <3> QED BY <2>0, <3>1, <3>2
  \* The desktop's requests.
  <2>9. ASSUME NEW n \in Attempts, InsertInitiator(n) PROVE (~pending /\ Stage /\ (~link => Unlinked))'
    <3>1. /\ n \in starting /\ starting' = starting \ {n} /\ session'.kind = "initiator"
          /\ UNCHANGED <<taken, up, pending, link, down, phone, starts, completes>>
      BY <2>9 DEF InsertInitiator, linkVars, phoneVars, histVars
    <3>2. Begun /\ ~Inserted /\ (GivenUp \/ Asked \/ Shown \/ Answered)
      BY <1>2, <3>1
    <3>3. starting' = {}
      BY <3>1, <3>2
    <3>4. (GivenUp \/ Asked \/ Shown \/ Answered)' /\ Begun'
      BY <3>1, <3>2, <3>3
    <3> QED BY <2>0, <3>1, <3>4
  <2>10. CASE PairStart
    <3>1. /\ starts' = starts + 1 /\ starting' = starting \cup {starts'}
          /\ down' \in {down, Append(down, Msg("request", starts', TRUE))}
          /\ UNCHANGED <<session, taken, up, pending, link, phone, completes>>
      BY <2>10 DEF PairStart, PushToPhone, linkVars, phoneVars, histVars
    <3>2. Fresh /\ starts' = 1 /\ starting' = {1}
      <4>1. starts = 0
        BY <1>0, <1>1, <3>1 DEF Calm
      <4> QED BY <1>2, <3>1, <4>1
    <3>3. Msg("request", starts', TRUE) \in Message /\ Msg("request", starts', TRUE).type = "request"
      <4>1. starts' \in Attempts
        BY <2>10 DEF PairStart, TypeOK, Attempts
      <4> QED BY <1>8, <1>9, <4>1
    <3>4. Free(down', Main) \/ One(down', "request", {})
      <4>1. Free(down, Main)
        BY <3>2
      <4>2. One(Append(down, Msg("request", starts', TRUE)), "request", {})
        BY <1>7, <1>9, <3>3, <4>1
      <4> QED BY <3>1, <4>1, <4>2
    <3>5. Begun' /\ (GivenUp \/ Asked)'
      BY <3>1, <3>2, <3>4
    <3> QED BY <2>0, <3>1, <3>5
  <2>11. ~Decide(TRUE) /\ ~Decide(FALSE)
    BY <1>2 DEF Decide
  \* The phone.
  <2>12. CASE OnHello
    <3>1. /\ down # <<>> /\ down' = Tail(down) /\ Head(down).type = "hello"
          /\ up'["cur"] \in {up["cur"], Append(up["cur"], Msg("hello", 0, TRUE))}
          /\ UNCHANGED <<session, taken, pending, starting, link, phone, starts, completes>>
      BY <1>0, <2>12 DEF OnHello, Delivered, ToDesktop, PhoneOnly, deskVars, linkVars, phoneVars, histVars
    <3>2. Msg("hello", 0, TRUE) \in Message /\ Msg("hello", 0, TRUE).type = "hello"
      BY <1>0, <1>8, <1>9
    <3>3. /\ \A T : Free(up["cur"], T) /\ "hello" \notin T => Free(up'["cur"], T)
          /\ \A t \in Main : \A A : One(up["cur"], t, A) /\ "hello" \notin A => One(up'["cur"], t, A)
      BY <1>7, <1>9, <3>1, <3>2
    <3>4. Stage'
      BY <1>2, <1>6, <1>9, <3>1, <3>3
    <3> QED BY <2>0, <3>1, <3>4
  <2>13. CASE OnRequest
    <3>1. /\ down # <<>> /\ down' = Tail(down) /\ Head(down).type = "request"
          /\ up'["cur"] = Append(up["cur"], Msg("challenge", Head(down).att, TRUE)) /\ phone'.st = "ShowingCode"
          /\ UNCHANGED <<session, taken, pending, starting, link, starts, completes>>
      BY <1>0, <2>13 DEF OnRequest, Delivered, ToDesktop, PhoneOnly, deskVars, linkVars, phoneVars, histVars
    <3>2. Asked /\ Begun
      BY <1>2, <1>6, <1>9, <3>1
    <3>3. Msg("challenge", Head(down).att, TRUE) \in Message /\ Msg("challenge", Head(down).att, TRUE).type = "challenge"
      <4>1. Head(down).att \in Attempts
        BY <1>6, <3>1 DEF Message
      <4> QED BY <1>8, <1>9, <4>1
    <3>4. Free(up'["cur"], Main) /\ Free(down', Main)
      BY <1>6, <1>7, <1>9, <3>1, <3>2, <3>3
    <3>5. Shown' /\ Begun'
      BY <3>1, <3>2, <3>4
    <3> QED BY <2>0, <3>1, <3>5
  <2>14. CASE OnConfirm
    <3>1. down # <<>> /\ Head(down).type = "confirm"
      BY <2>14 DEF OnConfirm, Delivered
    <3> QED BY <1>2, <1>6, <1>9, <3>1
  <2>15. CASE OnComplete
    <3>1. /\ down # <<>> /\ down' = Tail(down) /\ Head(down).type = "complete"
          /\ up'["cur"] = Append(up["cur"], Msg("complete", Head(down).att, TRUE)) /\ phone'.st = "Paired"
          /\ UNCHANGED <<session, taken, pending, starting, link, starts, completes>>
      BY <1>0, <2>15 DEF OnComplete, Delivered, ToDesktop, PhoneOnly, deskVars, linkVars, phoneVars, histVars
    <3>2. Sent /\ Begun
      BY <1>2, <1>6, <1>9, <3>1
    <3>3. Msg("complete", Head(down).att, TRUE) \in Message /\ Msg("complete", Head(down).att, TRUE).type = "complete"
      <4>1. Head(down).att \in Attempts
        BY <1>6, <3>1 DEF Message
      <4> QED BY <1>8, <1>9, <4>1
    <3>4. /\ One(up'["cur"], "complete", {}) /\ Free(up'["cur"], {"challenge"})
          /\ Free(down', Main) /\ Free(down', {"reject"})
      BY <1>6, <1>7, <1>9, <3>1, <3>2, <3>3
    <3>5. Back' /\ Begun'
      BY <3>1, <3>2, <3>4
    <3> QED BY <2>0, <3>1, <3>5
  <2>16. CASE OnReject
    <3>1. /\ down # <<>> /\ down' = Tail(down) /\ Head(down).type = "reject" /\ phone'.st = "Failed"
          /\ UNCHANGED <<session, taken, up, pending, starting, link, starts, completes>>
      BY <1>0, <2>16 DEF OnReject, Delivered, PhoneOnly, deskVars, linkVars, phoneVars, histVars
    <3>2. Stage'
      BY <1>2, <1>6, <1>9, <3>1
    <3> QED BY <2>0, <3>1, <3>2
  <2>17. CASE UserAccepts
    <3>1. /\ phone.st = "ShowingCode" /\ phone'.st \in {"Failed", "Confirming"}
          /\ up'["cur"] \in {up["cur"], Append(up["cur"], Msg("confirm", phone.att, TRUE))}
          /\ UNCHANGED <<session, taken, pending, starting, link, down, starts, completes>>
      BY <1>0, <2>17 DEF UserAccepts, ToDesktop, deskVars, linkVars
    <3>2. Msg("confirm", phone.att, TRUE) \in Message /\ Msg("confirm", phone.att, TRUE).type = "confirm"
      BY <1>0, <1>8, <1>9
    <3>3. Shown /\ Begun
      BY <1>2, <3>1
    <3>4. Free(up'["cur"], Main) \/ One(up'["cur"], "confirm", {"challenge"})
      BY <1>7, <1>9, <3>1, <3>2, <3>3
    <3>5. (GivenUp \/ Answered)' /\ Begun'
      BY <3>1, <3>3, <3>4
    <3> QED BY <2>0, <3>1, <3>5
  <2>18. CASE UserRejects
    <3>1. /\ phone.st = "ShowingCode" /\ phone'.st = "Failed"
          /\ up'["cur"] = Append(up["cur"], Msg("confirm", phone.att, FALSE))
          /\ UNCHANGED <<session, taken, pending, starting, link, down, starts, completes>>
      BY <1>0, <2>18 DEF UserRejects, ToDesktop, PhoneOnly, deskVars, linkVars, histVars
    <3>2. Msg("confirm", phone.att, FALSE) \in Message /\ Msg("confirm", phone.att, FALSE).type = "confirm"
      BY <1>0, <1>8, <1>9
    <3>3. Shown /\ Begun
      BY <1>2, <3>1
    <3>4. One(up'["cur"], "confirm", {"challenge"})
      BY <1>7, <1>9, <3>1, <3>2, <3>3
    <3>5. Answered' /\ Begun'
      BY <3>1, <3>3, <3>4
    <3> QED BY <2>0, <3>1, <3>5
  <2>19. CASE UserResets
    <3>1. /\ phone.st = "Failed" /\ phone'.st = "Idle"
          /\ UNCHANGED <<session, taken, pending, starting, link, down, up, starts, completes>>
      BY <1>3, <2>19 DEF UserResets, PhoneOnly, deskVars, linkVars, histVars
    <3>2. Stage'
      BY <1>2, <3>1
    <3> QED BY <2>0, <3>1, <3>2
  \* What touches nothing of it.
  <2>20. CASE Expire \/ Unregister \/ UNCHANGED vars
    <3>1. UNCHANGED <<session, taken, pending, starting, link, down, up, phone, starts, completes>>
      BY <2>20 DEF Expire, Unregister, PhoneOnly, vars, deskVars, linkVars, phoneVars, histVars
    <3>2. Stage'
      BY <1>2, <3>1
    <3> QED BY <2>0, <3>1, <3>2
  <2>21. ~Reconnect
    BY <1>20 DEF Reconnect
  <2>22. ASSUME NEW h \in Handlers, Dispatch(h) PROVE (~pending /\ Stage /\ (~link => Unlinked))'
    <3>1. Dispatch("cur")
      BY <1>4, <2>22
    <3> HIDE DEF Stage, Nothing
    <3> QED BY <3>1, <2>1, <2>2, <2>3, <2>4, <2>5, <2>6, <2>7, <2>8 DEF Dispatch, RecvChallenge, RecvConfirm
  <2> HIDE DEF Stage, Nothing
  <2> QED BY <1>1, <2>9, <2>10, <2>11, <2>12, <2>13, <2>14, <2>15, <2>16, <2>17, <2>18, <2>19, <2>20, <2>21, <2>22
          DEF Next, PhoneHandles, User, Fault
<1> QED BY <1>0, <1>10, <1>20

-----------------------------------------------------------------------------
\* However often the connection drops with presses of Accept on their way, the
\* desktop sends its certificate at most once for each of them.
THEOREM OneCertificatePerClick == Spec => []OneCompletePerClick
<1>1. Init => ClicksCounted
  <2> SUFFICES ASSUME Init PROVE ClicksCounted
    OBVIOUS
  <2>1. /\ up["cur"] = <<>> /\ up["old"] = <<>> /\ completes = 0 /\ clicks = <<>>
        /\ YesHeld("cur") = 0 /\ YesHeld("old") = 0
    BY DEF Init, Handlers, YesHeld, Nothing
  <2>2. Yeses(<<>>) = 0
    <3>1. YesAt(<<>>) = {}
      BY DEF YesAt
    <3> QED BY <3>1, FS_EmptySet DEF Yeses
  <2> QED BY <2>1, <2>2 DEF ClicksCounted, YesWay
<1>2. PairInv /\ PairInv' /\ ClicksCounted /\ [Next]_vars => ClicksCounted'
  BY ClicksStep DEF PairInv
<1>3. PairInv /\ ClicksCounted => OneCompletePerClick
  <2> SUFFICES ASSUME PairInv, ClicksCounted PROVE OneCompletePerClick
    OBVIOUS
  <2>1. /\ Yeses(up["cur"]) \in Nat /\ Yeses(up["old"]) \in Nat /\ completes \in Nat /\ Len(clicks) \in Nat
        /\ YesHeld("cur") \in {0, 1} /\ YesHeld("old") \in {0, 1}
    <3>1. up["cur"] \in Seq(Message) /\ up["old"] \in Seq(Message) /\ completes \in Nat /\ Len(clicks) \in Nat
      BY LenProperties DEF PairInv, TypeOK, Handlers
    <3> QED BY <3>1, YesFinite DEF YesHeld
  <2> QED BY <2>1 DEF ClicksCounted, YesWay, OneCompletePerClick
<1> QED BY <1>1, <1>2, <1>3, PairingInvariant, PTL DEF Spec

\* One attempt that nothing disturbs leaves both sides paired or neither, in
\* whatever order pair_start, the hello and the phone's answers interleave.
THEOREM SidesAgree == Spec => []CalmAgreement
<1>1. Init => Orderly
  <2> SUFFICES ASSUME Init PROVE Orderly
    OBVIOUS
  <2>1. Unlinked /\ ~pending
    BY EmptyQueue DEF Init, Unlinked, Fresh, Handlers, NoSession, Nothing
  <2> QED BY <2>1 DEF Orderly, Stage, Unlinked
<1>2. PairInv /\ PairInv' /\ Orderly /\ [Next]_vars => Orderly'
  BY OrderlyStep DEF PairInv
<1>3. Orderly => CalmAgreement
  <2> SUFFICES ASSUME Orderly, Calm, up["cur"] = <<>>, down = <<>>, taken["cur"] = Nothing
               PROVE  session.kind = "paired" <=> phone.st = "Paired"
    BY DEF CalmAgreement
  <2> QED BY EmptyQueue DEF Orderly, Stage, Fresh, GivenUp, Asked, Shown, Answered, Heard, Sent, Back, Kept, Done,
             Unpaired, Nothing
<1> QED BY <1>1, <1>2, <1>3, PairingInvariant, PTL DEF Spec
=============================================================================
