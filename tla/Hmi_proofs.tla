------------------------------ MODULE Hmi_proofs ------------------------------
(***************************************************************************)
(* Proofs about Hmi: for any tags, sockets, clicks and failures, what the  *)
(* open connection makes the server send is what the page watches, and a   *)
(* page that was disconnected stays so.                                    *)
(***************************************************************************)
EXTENDS Hmi, SequenceFacts

----------------------------------------------------------------------------
(* Messages. *)

(* What a message does to the interest in u is what the endpoint does.      *)
LEMMA Effects ==
  ASSUME NEW u \in Uid, NEW m \in MessageTypes
  PROVE  /\ Asking(u) \cap Dropping(u) = {}
         /\ \A us : u \in After(us, m) <=> m \in Asking(u) \/ (m \notin Dropping(u) /\ u \in us)
<1>1. ASSUME NEW n \in MessageTypes, NEW us
      PROVE  /\ n \in Asking(u) <=> n.action = "subscribe" /\ u \in n.uids
             /\ n \in Dropping(u) <=> \/ n.action = "unsubscribe" /\ u \in n.uids
                                      \/ n.action = "close"
             /\ u \in After(us, n) <=> \/ n.action = "subscribe" /\ (u \in us \/ u \in n.uids)
                                       \/ n.action = "unsubscribe" /\ u \in us /\ u \notin n.uids
  <2>1. n.action \in {"subscribe", "unsubscribe", "close"}
    BY DEF MessageTypes
  <2>2. CASE n.action = "subscribe"
    BY <2>2 DEF Asking, Dropping, After
  <2>3. CASE n.action = "unsubscribe"
    BY <2>3 DEF Asking, Dropping, After
  <2>4. CASE n.action = "close"
    BY <2>4 DEF Asking, Dropping, After
  <2> QED
    BY <2>1, <2>2, <2>3, <2>4
<1>2. Asking(u) \cap Dropping(u) = {}
  <2> SUFFICES ASSUME NEW n \in Asking(u), n \in Dropping(u) PROVE FALSE
    OBVIOUS
  <2>1. n \in MessageTypes
    BY DEF Asking
  <2> QED
    BY <1>1, <2>1
<1>3. m.action \in {"subscribe", "unsubscribe", "close"}
  BY DEF MessageTypes
<1> QED
  BY <1>1, <1>2, <1>3

(* The interest of s once all of it has arrived, as the outcome of what is  *)
(* on its way.                                                              *)
LEMMA ServedIs ==
  ASSUME NEW s \in Socket
  PROVE  Served(s) = {u \in Uid : Outcome(wire[s], Asking(u), Dropping(u), u, interest[s])}
BY DEF Served, Concludes, Outcome, LastIn

(* A message that is sent changes it as if it were there.                   *)
LEMMA MessageJoins ==
  ASSUME NEW s \in Socket, wire[s] \in Seq(MessageTypes), NEW m \in MessageTypes,
         wire'[s] = Append(wire[s], m), interest'[s] = interest[s]
  PROVE  Served(s)' = {u \in Uid : u \in After(Served(s), m)}
<1>1. Served(s)' = {u \in Uid : Outcome(wire'[s], Asking(u), Dropping(u), u, interest'[s])}
  BY DEF Served, Concludes, Outcome, LastIn
<1>2. ASSUME NEW u \in Uid
      PROVE  Outcome(wire'[s], Asking(u), Dropping(u), u, interest'[s]) <=> u \in After(Served(s), m)
  <2>1. /\ Asking(u) \cap Dropping(u) = {}
        /\ u \in After(Served(s), m) <=> m \in Asking(u) \/ (m \notin Dropping(u) /\ u \in Served(s))
    BY Effects
  <2>2. ASSUME NEW q \in Seq(MessageTypes), NEW X
        PROVE  Outcome(Append(q, m), Asking(u), Dropping(u), u, X) <=>
                 m \in Asking(u) \/ (m \notin Dropping(u) /\ Outcome(q, Asking(u), Dropping(u), u, X))
    BY <2>1, OutcomeOfAppend
  <2>3. u \in Served(s) <=> Outcome(wire[s], Asking(u), Dropping(u), u, interest[s])
    BY ServedIs
  <2> QED
    BY <2>1, <2>2, <2>3
<1> QED
  BY <1>1, <1>2

(* One that arrives changes nothing.                                        *)
LEMMA MessageArrives ==
  ASSUME NEW s \in Socket, wire[s] \in Seq(MessageTypes), wire[s] # <<>>,
         wire'[s] = Tail(wire[s]), interest'[s] = After(interest[s], Head(wire[s]))
  PROVE  Served(s)' = Served(s)
<1>1. Served(s)' = {u \in Uid : Outcome(wire'[s], Asking(u), Dropping(u), u, interest'[s])}
  BY DEF Served, Concludes, Outcome, LastIn
<1>2. Head(wire[s]) \in MessageTypes
  BY HeadTailProperties
<1>3. ASSUME NEW u \in Uid
      PROVE  Outcome(wire[s], Asking(u), Dropping(u), u, interest[s]) <=>
             Outcome(Tail(wire[s]), Asking(u), Dropping(u), u, interest'[s])
  <2>1. /\ Asking(u) \cap Dropping(u) = {}
        /\ u \in interest'[s] <=>
             Head(wire[s]) \in Asking(u) \/ (Head(wire[s]) \notin Dropping(u) /\ u \in interest[s])
    BY <1>2, Effects
  <2> QED
    BY <2>1, OutcomeOfTail
<1> QED
  BY <1>1, <1>3, ServedIs

(* A socket nothing was sent on serves nothing.                             *)
LEMMA NothingSent ==
  ASSUME NEW s \in Socket, wire[s] = <<>>, interest[s] = {}
  PROVE  Served(s) = {}
<1>1. ASSUME NEW u \in Uid PROVE ~Outcome(wire[s], Asking(u), Dropping(u), u, interest[s])
  BY OutcomeOfEmpty
<1> QED
  BY <1>1, ServedIs

(* A socket that is left alone serves what it did.                          *)
LEMMA LeftAlone ==
  ASSUME NEW s \in Socket, wire'[s] = wire[s], interest'[s] = interest[s]
  PROVE  Served(s)' = Served(s)
BY DEF Served, Concludes

----------------------------------------------------------------------------
(* The inductive invariant: the properties and the types are one, for the   *)
(* types say that a socket that has just opened has been sent nothing.      *)
IInv == TypeOK /\ ServedIsWatched /\ StaysDisconnected

(* The page loads connecting, with nothing watched.                         *)
LEMMA InitInv == Init => IInv
<1> SUFFICES ASSUME Init PROVE IInv
  OBVIOUS
<1>1. 1 \in Socket /\ clicks \in 0 .. MaxClicks /\ drops \in 0 .. MaxDrops
  BY HmiAssumption DEF Init, Socket
<1>2. wire \in [Socket -> Seq(MessageTypes)]
  BY EmptySeq DEF Init
<1>3. TypeOK
  BY <1>1, <1>2 DEF Init, TypeOK
<1>4. readyState[ws] # "open"
  BY <1>1 DEF Init
<1> QED
  BY <1>3, <1>4 DEF Init, IInv, ServedIsWatched, StaysDisconnected

(* connect makes another socket the page's, one that has been sent nothing. *)
LEMMA ConnectStep ==
  ASSUME IInv, connect, clicks' \in 0 .. MaxClicks
  PROVE  IInv'
<1> USE DEF IInv
<1>1. PICK s \in Socket : /\ Free(s) /\ ws' = s
                          /\ readyState' = [readyState EXCEPT ![s] = "connecting"]
  BY DEF connect
<1>2. /\ manualClose' = FALSE /\ reconnectTimer' = FALSE
      /\ UNCHANGED <<watched, metaPollTimer, wire, interest, drops>>
  BY <1>1 DEF connect, server
<1>3. /\ readyState' \in [Socket -> {"none", "connecting", "open", "closing", "broken"}]
      /\ \A t \in Socket : readyState'[t] = "connecting" =>
           wire'[t] = <<>> /\ interest'[t] = {}
  BY <1>1, <1>2 DEF TypeOK, Free
<1>4. TypeOK'
  BY <1>1, <1>2, <1>3 DEF TypeOK
<1>5. readyState'[ws'] = "connecting"
  BY <1>1 DEF TypeOK
<1> QED
  BY <1>2, <1>4, <1>5 DEF ServedIsWatched, StaysDisconnected

(* disconnect leaves the page's socket closed, or closing.                  *)
LEMMA DisconnectStep == ASSUME IInv, disconnect PROVE IInv'
<1> USE DEF IInv
<1>1. /\ clicks < MaxClicks /\ clicks' = clicks + 1
      /\ manualClose' = TRUE /\ reconnectTimer' = FALSE /\ metaPollTimer' = FALSE
      /\ readyState' = [readyState EXCEPT ![ws] = IF @ = "none" THEN @ ELSE "closing"]
      /\ wire' = IF readyState[ws] # "open" THEN wire
                 ELSE [wire EXCEPT ![ws] = Append(@, Message("close", {}))]
      /\ UNCHANGED <<ws, watched, interest, drops>>
  BY DEF disconnect, closing, Click
<1>2. clicks' \in 0 .. MaxClicks
  BY <1>1, HmiAssumption DEF TypeOK
<1>3. wire' \in [Socket -> Seq(MessageTypes)]
  <2>1. Message("close", {}) \in MessageTypes
    BY DEF Message, MessageTypes
  <2>2. Append(wire[ws], Message("close", {})) \in Seq(MessageTypes)
    BY <2>1, AppendOf DEF TypeOK
  <2> QED
    BY <1>1, <2>2 DEF TypeOK
<1>4. /\ readyState' \in [Socket -> {"none", "connecting", "open", "closing", "broken"}]
      /\ readyState'[ws] \in {"none", "closing"}
      /\ \A s \in Socket : readyState'[s] = "connecting" =>
           readyState[s] = "connecting" /\ wire'[s] = wire[s]
  BY <1>1 DEF TypeOK
<1>5. TypeOK'
  BY <1>1, <1>2, <1>3, <1>4 DEF TypeOK
<1> QED
  BY <1>1, <1>4, <1>5 DEF ServedIsWatched, StaysDisconnected

(* A message sent on the open socket, with watched changed as it says; on a *)
(* broken one it is lost.                                                   *)
LEMMA ClickStep ==
  ASSUME IInv, NEW m \in MessageTypes, Open(ws), wire' = Sent(ws, m),
         watched' = After(watched, m), m.action \in {"subscribe", "unsubscribe"}, Click,
         UNCHANGED <<readyState, ws, manualClose, reconnectTimer, metaPollTimer, interest, drops>>
  PROVE  IInv'
<1> USE DEF IInv
<1>1. clicks' \in 0 .. MaxClicks
  BY HmiAssumption DEF TypeOK, Click
<1>2. Append(wire[ws], m) \in Seq(MessageTypes)
  BY AppendOf DEF TypeOK
<1>3. wire' \in [Socket -> Seq(MessageTypes)]
  BY <1>2 DEF TypeOK, Sent
<1>4. watched' \subseteq Uid
  BY DEF After, TypeOK, MessageTypes
<1>5. \A s \in Socket : readyState[s] = "connecting" => wire'[s] = wire[s]
  BY DEF Open, Sent, TypeOK
<1>6. TypeOK'
  BY <1>1, <1>3, <1>4, <1>5 DEF TypeOK
<1>7. ASSUME NEW s \in Socket, s = ws, readyState[s] = "open" PROVE Served(s)' = watched'
  <2>1. wire'[s] = Append(wire[s], m) /\ interest'[s] = interest[s] /\ wire[s] \in Seq(MessageTypes)
    BY <1>7 DEF Sent, TypeOK
  <2>2. Served(s)' = {u \in Uid : u \in After(Served(s), m)}
    BY <2>1, MessageJoins
  <2>3. Served(s) = watched
    BY <1>7 DEF ServedIsWatched
  <2> QED
    BY <1>4, <2>2, <2>3
<1>8. ServedIsWatched'
  BY <1>7 DEF ServedIsWatched, TypeOK
<1> QED
  BY <1>6, <1>8 DEF StaysDisconnected

(* Whichever socket opens, the page's is sent everything that is watched.   *)
LEMMA OpenStep == ASSUME IInv, NEW t \in Socket, onopen(t) PROVE IInv'
<1> USE DEF IInv
<1> DEFINE m == Message("subscribe", watched)
<1>1. /\ readyState[t] = "connecting" /\ readyState' = [readyState EXCEPT ![t] = "open"]
      /\ wire' = IF watched = {} THEN wire ELSE Sent(ws, m)
      /\ metaPollTimer' = TRUE
      /\ UNCHANGED <<ws, watched, manualClose, reconnectTimer, interest, clicks, drops>>
  BY DEF onopen, Resubscribe
<1>2. m \in MessageTypes /\ \A us : After(us, m) = us \cup watched
  BY DEF Message, MessageTypes, After, TypeOK
<1> HIDE DEF m
<1>3. wire' = IF watched # {} /\ readyState'[ws] = "open"
                THEN [wire EXCEPT ![ws] = Append(@, m)] ELSE wire
  BY <1>1 DEF Sent
<1>4. wire' \in [Socket -> Seq(MessageTypes)]
  <2>1. Append(wire[ws], m) \in Seq(MessageTypes)
    BY <1>2, AppendOf DEF TypeOK
  <2> QED
    BY <1>3, <2>1 DEF TypeOK
<1>5. readyState' \in [Socket -> {"none", "connecting", "open", "closing", "broken"}]
  BY <1>1 DEF TypeOK
<1>6. \A s \in Socket : readyState'[s] = "connecting" =>
        readyState[s] = "connecting" /\ wire'[s] = wire[s]
  BY <1>1, <1>3 DEF TypeOK
<1>7. TypeOK'
  BY <1>1, <1>4, <1>5, <1>6 DEF TypeOK
<1>8. ASSUME NEW s \in Socket, s = ws, readyState'[s] = "open" PROVE Served(s)' = watched
  <2>0. wire[s] \in Seq(MessageTypes) /\ interest'[s] = interest[s] /\ watched \subseteq Uid
    BY <1>1 DEF TypeOK
  <2>1. Served(s) \subseteq watched /\ (watched = {} => Served(s) = watched)
    <3>1. CASE s = t
      <4>1. wire[s] = <<>> /\ interest[s] = {}
        BY <1>1, <3>1 DEF TypeOK
      <4> QED
        BY <4>1, NothingSent
    <3>2. CASE s # t
      BY <1>1, <1>8, <3>2 DEF TypeOK, ServedIsWatched
    <3> QED
      BY <3>1, <3>2
  <2>2. CASE watched = {}
    <3>1. wire'[s] = wire[s]
      BY <1>3, <2>2
    <3> QED
      BY <2>0, <2>1, <2>2, <3>1, LeftAlone
  <2>3. CASE watched # {}
    <3>1. wire'[s] = Append(wire[s], m)
      BY <1>3, <1>8, <2>3 DEF TypeOK
    <3>2. Served(s)' = {u \in Uid : u \in After(Served(s), m)}
      BY <1>2, <2>0, <3>1, MessageJoins
    <3> QED
      BY <1>2, <2>0, <2>1, <3>2
  <2> QED
    BY <2>2, <2>3
<1>9. ServedIsWatched'
  BY <1>1, <1>8 DEF ServedIsWatched, TypeOK
<1> QED
  BY <1>1, <1>7, <1>9 DEF StaysDisconnected

(* A close event starts the timer only if nobody asked for the close.       *)
LEMMA CloseStep == ASSUME IInv, NEW t \in Socket, onclose(t) PROVE IInv'
<1> USE DEF IInv
<1>1. /\ readyState[t] \in {"closing", "broken"}
      /\ readyState' = [readyState EXCEPT ![t] = "none"] /\ metaPollTimer' = FALSE
      /\ reconnectTimer' = IF manualClose THEN reconnectTimer ELSE TRUE
      /\ UNCHANGED <<ws, watched, manualClose, wire, interest, clicks, drops>>
  BY DEF onclose, server, scheduleReconnect
<1>2. /\ readyState' \in [Socket -> {"none", "connecting", "open", "closing", "broken"}]
      /\ \A s \in Socket : readyState'[s] \in {"connecting", "open"} => readyState[s] = readyState'[s]
  BY <1>1 DEF TypeOK
<1>3. TypeOK'
  BY <1>1, <1>2 DEF TypeOK
<1>4. ASSUME NEW s \in Socket, s = ws, readyState'[s] = "open" PROVE Served(s)' = watched
  <2>1. Served(s)' = Served(s)
    BY <1>1, LeftAlone
  <2> QED
    BY <1>2, <1>4, <2>1 DEF ServedIsWatched
<1>5. ServedIsWatched'
  BY <1>1, <1>4 DEF ServedIsWatched, TypeOK
<1> QED
  BY <1>1, <1>3, <1>5 DEF StaysDisconnected

(* A connection that fails is no longer open.                               *)
LEMMA DropStep == ASSUME IInv, NEW t \in Socket, Drop(t) PROVE IInv'
<1> USE DEF IInv
<1>1. /\ drops < MaxDrops /\ drops' = drops + 1
      /\ UNCHANGED <<ws, watched, manualClose, reconnectTimer, metaPollTimer, interest, clicks>>
  BY DEF Drop
<1>2. /\ readyState' \in [Socket -> {"none", "connecting", "open", "closing", "broken"}]
      /\ readyState'[t] \in {"closing", "broken"}
      /\ \A s \in Socket \ {t} : readyState'[s] = readyState[s] /\ wire'[s] = wire[s]
      /\ wire' \in [Socket -> Seq(MessageTypes)]
  <2>1. CASE readyState' = [readyState EXCEPT ![t] = "closing"] /\ UNCHANGED wire
    BY <2>1 DEF TypeOK
  <2>2. ASSUME readyState' = [readyState EXCEPT ![t] = "broken"],
               NEW n \in 0 .. Len(wire[t]),
               wire' = [wire EXCEPT ![t] = Append(SubSeq(@, 1, n), Message("close", {}))]
        PROVE  <1>2!:
    <3> DEFINE arrives == SubSeq(wire[t], 1, n)
    <3>1. wire[t] \in Seq(MessageTypes) /\ Len(wire[t]) \in Nat
      BY DomainOf DEF TypeOK
    <3>2. arrives \in Seq(MessageTypes)
      <4>1. 1 \in 1 .. Len(wire[t]) + 1 /\ n \in 1 - 1 .. Len(wire[t])
        BY <3>1
      <4> QED
        BY <3>1, <4>1, SubSeqProperties
    <3> HIDE DEF arrives
    <3>3. Message("close", {}) \in MessageTypes
      BY DEF Message, MessageTypes
    <3>4. Append(arrives, Message("close", {})) \in Seq(MessageTypes)
      BY <3>2, <3>3, AppendOf
    <3> QED
      BY <2>2, <3>4 DEF TypeOK, arrives
  <2> QED
    BY <2>1, <2>2 DEF Drop
<1>3. drops' \in 0 .. MaxDrops
  BY <1>1, HmiAssumption DEF TypeOK
<1>4. TypeOK'
  BY <1>1, <1>2, <1>3 DEF TypeOK
<1>5. ASSUME NEW s \in Socket, s = ws, readyState'[s] = "open" PROVE Served(s)' = watched
  <2>1. s # t /\ readyState[s] = "open" /\ wire'[s] = wire[s] /\ interest'[s] = interest[s]
    BY <1>1, <1>2, <1>5
  <2>2. Served(s)' = Served(s)
    BY <2>1, LeftAlone
  <2> QED
    BY <1>5, <2>1, <2>2 DEF ServedIsWatched
<1>6. ServedIsWatched'
  BY <1>1, <1>5 DEF ServedIsWatched, TypeOK
<1> QED
  BY <1>1, <1>4, <1>6 DEF StaysDisconnected

(* The endpoint does what was counted already.                              *)
LEMMA EndpointStep == ASSUME IInv, NEW t \in Socket, websocket_endpoint(t) PROVE IInv'
<1> USE DEF IInv
<1>1. /\ wire[t] # <<>> /\ wire' = [wire EXCEPT ![t] = Tail(@)]
      /\ interest' = [interest EXCEPT ![t] = After(@, Head(wire[t]))]
      /\ UNCHANGED <<ws, readyState, watched, manualClose, reconnectTimer, metaPollTimer,
                     clicks, drops>>
  BY DEF websocket_endpoint, page
<1>2. /\ wire[t] \in Seq(MessageTypes) /\ Head(wire[t]) \in MessageTypes
      /\ Tail(wire[t]) \in Seq(MessageTypes)
  BY <1>1, HeadTailProperties DEF TypeOK
<1>3. After(interest[t], Head(wire[t])) \subseteq Uid
  BY <1>2 DEF After, TypeOK, MessageTypes
<1>4. /\ wire' \in [Socket -> Seq(MessageTypes)] /\ interest' \in [Socket -> SUBSET Uid]
      /\ \A s \in Socket \ {t} : wire'[s] = wire[s] /\ interest'[s] = interest[s]
      /\ wire'[t] = Tail(wire[t]) /\ interest'[t] = After(interest[t], Head(wire[t]))
  BY <1>1, <1>2, <1>3 DEF TypeOK
<1>5. \A s \in Socket : readyState[s] = "connecting" => s # t
  BY <1>1 DEF TypeOK
<1>6. TypeOK'
  BY <1>1, <1>4, <1>5 DEF TypeOK
<1>7. ASSUME NEW s \in Socket PROVE Served(s)' = Served(s)
  <2>1. CASE s = t
    BY <1>1, <1>2, <1>4, <2>1, MessageArrives
  <2>2. CASE s # t
    BY <1>4, <2>2, LeftAlone
  <2> QED
    BY <2>1, <2>2
<1>8. ServedIsWatched'
  BY <1>1, <1>7 DEF ServedIsWatched, TypeOK
<1> QED
  BY <1>1, <1>6, <1>8 DEF StaysDisconnected

----------------------------------------------------------------------------
(* Every step keeps the invariant.                                          *)
LEMMA NextKeepsInv == IInv /\ [Next]_vars => IInv'
<1> SUFFICES ASSUME IInv, [Next]_vars PROVE IInv'
  OBVIOUS
<1>1. CASE ClickConnect
  <2>1. clicks' \in 0 .. MaxClicks
    BY <1>1, HmiAssumption DEF ClickConnect, Click, IInv, TypeOK
  <2> QED
    BY <1>1, <2>1, ConnectStep DEF ClickConnect
<1>2. CASE TimerFires
  <2>1. clicks' \in 0 .. MaxClicks
    BY <1>2 DEF TimerFires, IInv, TypeOK
  <2> QED
    BY <1>2, <2>1, ConnectStep DEF TimerFires
<1>3. CASE disconnect
  BY <1>3, DisconnectStep
<1>4. ASSUME NEW u \in Uid, subscribeUid(u) PROVE IInv'
  <2>1. LET m == Message("subscribe", {u}) IN
        m \in MessageTypes /\ m.action = "subscribe" /\ After(watched, m) = watched \cup {u}
    BY DEF Message, MessageTypes, After
  <2> QED
    BY <1>4, <2>1, ClickStep DEF subscribeUid
<1>5. ASSUME NEW u \in Uid, unsubscribeUid(u) PROVE IInv'
  <2>1. LET m == Message("unsubscribe", {u}) IN
        m \in MessageTypes /\ m.action = "unsubscribe" /\ After(watched, m) = watched \ {u}
    BY DEF Message, MessageTypes, After
  <2> QED
    BY <1>5, <2>1, ClickStep DEF unsubscribeUid
<1>6. ASSUME NEW s \in Socket, onopen(s) PROVE IInv'
  BY <1>6, OpenStep
<1>7. ASSUME NEW s \in Socket, onclose(s) PROVE IInv'
  BY <1>7, CloseStep
<1>8. ASSUME NEW s \in Socket, Drop(s) PROVE IInv'
  BY <1>8, DropStep
<1>9. ASSUME NEW s \in Socket, websocket_endpoint(s) PROVE IInv'
  BY <1>9, EndpointStep
<1>10. CASE UNCHANGED vars
  <2>1. UNCHANGED <<ws, readyState, watched, manualClose, reconnectTimer, metaPollTimer, wire,
                    interest, clicks, drops>>
    BY <1>10 DEF vars, page, server
  <2>2. \A s \in Socket : Served(s)' = Served(s)
    BY <2>1, LeftAlone
  <2> QED
    BY <2>1, <2>2 DEF IInv, TypeOK, ServedIsWatched, StaysDisconnected
<1> QED
  BY <1>1, <1>2, <1>3, <1>4, <1>5, <1>6, <1>7, <1>8, <1>9, <1>10 DEF Next

(* The invariant holds in every state the page and its sockets reach.       *)
THEOREM Invariant == Spec => []IInv
BY InitInv, NextKeepsInv, PTL DEF Spec

(* The types, and that nothing is sent on a socket before it is open.       *)
THEOREM TypeCorrect == Spec => []TypeOK
<1>1. IInv => TypeOK
  BY DEF IInv
<1> QED
  BY <1>1, Invariant, PTL

(* What the page's open connection has asked for is what it watches, after  *)
(* any number of reconnections, and whichever socket's handler ran last.    *)
THEOREM WatchedIsServed == Spec => []ServedIsWatched
<1>1. IInv => ServedIsWatched
  BY DEF IInv
<1> QED
  BY <1>1, Invariant, PTL

(* No close event of any socket brings back a page the user disconnected.   *)
THEOREM DisconnectHolds == Spec => []StaysDisconnected
<1>1. IInv => StaysDisconnected
  BY DEF IInv
<1> QED
  BY <1>1, Invariant, PTL
=============================================================================
