-------------------------------- MODULE Hmi --------------------------------
(***************************************************************************)
(* The browser page (UI/index.html): its WebSocket life cycle and the      *)
(* watched tags, with what the endpoint of server.py makes of each         *)
(* connection's messages.                                                  *)
(*                                                                         *)
(* connect() replaces the global ws and closes nothing: the handlers of a  *)
(* socket it replaced still run.  A socket is a number, free again once    *)
(* neither end knows it.                                                   *)
(***************************************************************************)
EXTENDS Integers, Sequences

CONSTANTS
  Uid,
  MaxSocket,  \* sockets there may be at a time
  MaxClicks,  \* clicks on Connect, Disconnect and the watch boxes
  MaxDrops    \* connections that fail

ASSUME HmiAssumption == {MaxSocket, MaxClicks, MaxDrops} \subseteq Nat /\ MaxSocket > 0

Socket == 1 .. MaxSocket

VARIABLES
  \* the page
  ws,             \* the socket of the global ws
  readyState,     \* per socket: "none" once onclose has run, "broken"
                  \*   while the page still takes a broken one for open
  watched,        \* uids with tags.get(uid).watched
  manualClose,
  reconnectTimer, \* whether it is pending
  metaPollTimer,  \* whether the catalogue is polled
  \* the network, and the endpoint's end of each socket
  wire,           \* messages on their way to the server
  interest,       \* ClientInterest.uids
  \* bounds
  clicks, drops

page == <<ws, readyState, watched, manualClose, reconnectTimer, metaPollTimer>>
server == <<wire, interest>>
vars == <<page, server, clicks, drops>>

Message(action, us) == [action |-> action, uids |-> us]

MessageTypes == [action : {"subscribe", "unsubscribe", "close"}, uids : SUBSET Uid]

Init ==
  /\ ws = 1 /\ readyState = [s \in Socket |-> IF s = 1 THEN "connecting" ELSE "none"]
  /\ watched = {} /\ manualClose = FALSE /\ reconnectTimer = FALSE /\ metaPollTimer = FALSE
  /\ wire = [s \in Socket |-> <<>>] /\ interest = [s \in Socket |-> {}]
  /\ clicks = 0 /\ drops = 0

(* MUTANT: sendWs does not look at readyState. *)
SentAnyway(s, m) == [wire EXCEPT ![s] = Append(@, m)]

(* sendWs; sent on a broken socket, a message is lost. *)
Sent(s, m) == IF readyState'[s] = "open" THEN [wire EXCEPT ![s] = Append(@, m)] ELSE wire

Open(s) == readyState[s] \in {"open", "broken"}

Click == clicks < MaxClicks /\ clicks' = clicks + 1

Free(s) == readyState[s] = "none" /\ wire[s] = <<>> /\ interest[s] = {}

----------------------------------------------------------------------------
(* connect(), by the button or the timer. *)

connect ==
  \E s \in Socket :
    /\ Free(s) /\ \A t \in 1 .. s - 1 : ~Free(t)
    /\ ws' = s
    /\ readyState' = [readyState EXCEPT ![s] = "connecting"]
    /\ manualClose' = FALSE /\ reconnectTimer' = FALSE
    /\ UNCHANGED <<watched, metaPollTimer, server, drops>>

ClickConnect == Click /\ connect

TimerFires == reconnectTimer /\ connect /\ UNCHANGED clicks

closing ==
  /\ readyState' = [readyState EXCEPT ![ws] = IF @ = "none" THEN @ ELSE "closing"]
  /\ wire' = IF readyState[ws] # "open" THEN wire
              ELSE [wire EXCEPT ![ws] = Append(@, Message("close", {}))]

(* MUTANT: the pending reconnection is left to happen. *)
disconnect_keeps_timer ==
  /\ Click /\ manualClose' = TRUE /\ metaPollTimer' = FALSE
  /\ closing
  /\ UNCHANGED <<ws, watched, reconnectTimer, interest, drops>>

(* It closes the global ws only. *)
disconnect ==
  /\ Click
  /\ manualClose' = TRUE /\ reconnectTimer' = FALSE /\ metaPollTimer' = FALSE
  /\ closing
  /\ UNCHANGED <<ws, watched, interest, drops>>

----------------------------------------------------------------------------
(* The watch boxes: nothing changes unless ws is open. *)

subscribeUid(u) ==
  /\ Click
  /\ Open(ws)
  /\ watched' = watched \cup {u}
  /\ UNCHANGED readyState /\ wire' = Sent(ws, Message("subscribe", {u}))
  /\ UNCHANGED <<ws, manualClose, reconnectTimer, metaPollTimer, interest, drops>>

unsubscribeUid(u) ==
  /\ Click
  /\ Open(ws)
  /\ watched' = watched \ {u}
  /\ UNCHANGED readyState /\ wire' = Sent(ws, Message("unsubscribe", {u}))
  /\ UNCHANGED <<ws, manualClose, reconnectTimer, metaPollTimer, interest, drops>>

----------------------------------------------------------------------------
(* The handlers of any socket, replaced or not. *)

(* MUTANT: a reconnection starts with no subscription. *)
ResubscribeNever(s) == wire

(* The watched tags are sent on the global ws, if that one is open. *)
Resubscribe(s) ==
  IF watched = {} THEN wire ELSE Sent(ws, Message("subscribe", watched))

onopen(s) ==
  /\ readyState[s] = "connecting"
  /\ readyState' = [readyState EXCEPT ![s] = "open"]
  /\ wire' = Resubscribe(s)
  /\ metaPollTimer' = TRUE
  /\ UNCHANGED <<ws, watched, manualClose, reconnectTimer, interest, clicks, drops>>

(* MUTANT: a lost connection is not replaced. *)
scheduleReconnectNever == FALSE

scheduleReconnect == TRUE

onclose(s) ==
  /\ readyState[s] \in {"closing", "broken"} /\ (readyState[s] = "closing" => wire[s] = <<>>)
  /\ readyState' = [readyState EXCEPT ![s] = "none"]
  /\ metaPollTimer' = FALSE
  /\ reconnectTimer' = IF manualClose THEN reconnectTimer ELSE scheduleReconnect
  /\ UNCHANGED <<ws, watched, manualClose, server, clicks, drops>>

----------------------------------------------------------------------------
(* The network and the server.                                              *)

(* A connection is refused or breaks: some first messages of what is under  *)
(* way arrive, and the rest are lost.                                       *)
Drop(s) ==
  /\ drops < MaxDrops /\ drops' = drops + 1
  /\ \/ /\ readyState[s] = "connecting"
        /\ readyState' = [readyState EXCEPT ![s] = "closing"]
        /\ UNCHANGED wire
     \/ /\ readyState[s] = "open"
        /\ readyState' = [readyState EXCEPT ![s] = "broken"]
        /\ \E n \in 0 .. Len(wire[s]) :
             wire' = [wire EXCEPT ![s] = Append(SubSeq(@, 1, n), Message("close", {}))]
  /\ UNCHANGED <<ws, watched, manualClose, reconnectTimer, metaPollTimer, interest, clicks>>

(* client_subscribe, client_unsubscribe, client_disconnect. *)
After(uids, m) ==
  CASE m.action = "subscribe" -> uids \cup m.uids
    [] m.action = "unsubscribe" -> uids \ m.uids
    [] OTHER -> {}

websocket_endpoint(s) ==
  /\ wire[s] # <<>>
  /\ wire' = [wire EXCEPT ![s] = Tail(@)]
  /\ interest' = [interest EXCEPT ![s] = After(@, Head(wire[s]))]
  /\ UNCHANGED <<page, clicks, drops>>

Next ==
  \/ ClickConnect \/ TimerFires \/ disconnect
  \/ \E u \in Uid : subscribeUid(u) \/ unsubscribeUid(u)
  \/ \E s \in Socket : onopen(s) \/ onclose(s) \/ Drop(s) \/ websocket_endpoint(s)

Spec == Init /\ [][Next]_vars

(* Timers fire, sockets open or close, the server reads what it is sent; no *)
(* user clicks and no connection breaks out of fairness.                    *)
FairSpec ==
  /\ Spec /\ WF_vars(TimerFires)
  /\ \A s \in Socket : WF_vars(onopen(s)) /\ WF_vars(onclose(s)) /\ WF_vars(websocket_endpoint(s))

----------------------------------------------------------------------------
TypeOK ==
  /\ ws \in Socket
  /\ readyState \in [Socket -> {"none", "connecting", "open", "closing", "broken"}]
  /\ watched \subseteq Uid /\ {manualClose, reconnectTimer, metaPollTimer} \subseteq BOOLEAN
  /\ wire \in [Socket -> Seq(MessageTypes)]
  /\ interest \in [Socket -> SUBSET Uid]
  /\ clicks \in 0 .. MaxClicks /\ drops \in 0 .. MaxDrops
  \* nothing is sent on a socket before it is open
  /\ \A s \in Socket : readyState[s] = "connecting" => wire[s] = <<>> /\ interest[s] = {}

(* What the endpoint does with u: the messages that put it into the         *)
(* interest of a connection, and those that take it out.                    *)
Asking(u)   == {m \in MessageTypes : m.action = "subscribe" /\ u \in m.uids}
Dropping(u) == {m \in MessageTypes : u \notin After({u}, m)}

(* Of the messages of A and B on their way on s, the last is one of A. *)
Concludes(s, A, B) ==
  \E i \in 1 .. Len(wire[s]) :
    wire[s][i] \in A /\ \A j \in i + 1 .. Len(wire[s]) : wire[s][j] \notin A \cup B

(* The interest of s once all of it has arrived. *)
Served(s) ==
  {u \in Uid : \/ Concludes(s, Asking(u), Dropping(u))
               \/ u \in interest[s] /\ ~Concludes(s, Dropping(u), Asking(u))}

(* What the open ws has asked of the server, once all of it arrives, is     *)
(* exactly the watched tags, whatever connections came before it: a         *)
(* reconnection restores the subscriptions and adds none.                   *)
ServedIsWatched == readyState[ws] = "open" => Served(ws) = watched

(* After Disconnect no timer reconnects the page, though close events of    *)
(* several sockets may still come.                                          *)
StaysDisconnected == manualClose => ~reconnectTimer

(* Unless the user disconnects, the page comes back: connected, and polling *)
(* the catalogue, though an older socket's onclose stops the polling.       *)
Reconnects == ~manualClose ~> manualClose \/ (readyState[ws] = "open" /\ metaPollTimer)

(* "Live values only stream for tags you subscribe to" (UI/index.html, the  *)
(* hint): when all is quiet, what the server streams to the page is watched. *)
Settled ==
  /\ ~reconnectTimer
  /\ \A s \in Socket : readyState[s] \in {"none", "open"} /\ wire[s] = <<>>

OnlyWatchedStream ==
  Settled => \A s \in Socket : interest[s] \subseteq watched
============================================================================
