---------------------------- MODULE ControlPath ----------------------------
(***************************************************************************)
(* How a browser's interest reaches the selector: the InterestManager on   *)
(* scada_web's asyncio thread, the on_publication_matched callback on the  *)
(* DDS listener thread, the VOLATILE, RELIABLE, KEEP_ALL ValueRequest      *)
(* topic, and the ControlPlane and SelectionTable of the selector process. *)
(* Either process may die and come back.                                   *)
(*                                                                         *)
(* The two threads of scada_web share the refcounts and the separation and *)
(* nothing orders their writes: the listener reads, and writes what it     *)
(* read a step later.                                                      *)
(***************************************************************************)
EXTENDS Integers, Sequences, FiniteSets

CONSTANTS
  Client, Uid, Separation, InitialSeparation,  \* see InterestManager
  PreEnabled, default_min_separation_ms,       \* see SelectionTable
  RestartAfterLease,  \* TRUE: a selector restarts only when its crashed
                      \* predecessor's participant lease has run out
  WritesMayFail,      \* whether a ValueRequest write may raise
  WebMayRestart,      \* whether scada_web may be restarted
  MaxInFlight,        \* no new operation while this many commands are in flight
  MaxEvents,          \* match changes not acted on yet
  MaxDead             \* crashed selectors whose lease has not run out

ASSUME ControlPathAssumption ==
  /\ IsFiniteSet(Client)
  /\ Separation \subseteq Nat \ {0} /\ InitialSeparation \in Separation
  /\ PreEnabled \subseteq Uid /\ default_min_separation_ms \in Nat
  /\ {RestartAfterLease, WritesMayFail, WebMayRestart} \subseteq BOOLEAN
  /\ {MaxInFlight, MaxEvents, MaxDead} \subseteq Nat

VARIABLES
  \* scada_web, asyncio thread
  ws_clients, uids, refcounts, min_separation_ms, leaving, sending, told,
  writer,      \* how far gateway.start is with the ValueRequest writer
  pending,     \* statuses held back because the writer is being created
  \* scada_web, listener thread
  matches,     \* publication-matched statuses not yet delivered, oldest first
  replay,      \* where _on_publication_matched is, and what it has read
  \* DDS
  linked,      \* the writer is matched with the running selector's reader
  dead,        \* readers of crashed selectors the writer still counts
  requests,    \* ValueRequests on their way to the selector or in its reader
  \* the selector
  up, subscriptions, separation_in_force,
  \* history: how the selector may have come to differ
  missing,     \* uids whose latest ADD raised
  excess,      \* uids left enabled that no client of this scada_web wants
  stale_period \* the latest PERIOD raised, or was "late": read before the last
               \* change, or "stranded": its status was put away for good

web      == <<ws_clients, uids, refcounts, min_separation_ms, leaving, sending, told>>
gateway  == <<writer, pending>>
listener == <<matches, replay>>
selector == <<up, subscriptions, separation_in_force>>
history  == <<missing, excess, stale_period>>
vars == <<web, gateway, listener, linked, dead, requests, selector, history>>

IM == INSTANCE InterestManager
ST == INSTANCE SelectionTable

NoReplay == [pc |-> "idle", period |-> InitialSeparation, uids |-> {}]

Init ==
  /\ IM!Init
  /\ writer = "creating" /\ pending = <<>>
  /\ matches = <<>> /\ replay = NoReplay
  /\ linked = FALSE /\ dead = 0 /\ requests = <<>>
  /\ up = FALSE /\ ST!Init
  /\ missing = {} /\ excess = {} /\ stale_period = "no"

----------------------------------------------------------------------------
(* Writing.  A write reaches the selector only if its reader is matched:   *)
(* the topic is VOLATILE.  A write that raises is logged and forgotten, and *)
(* until start has put the writer in its table every write raises.         *)

Written(r) ==
  /\ writer \in {"flushing", "ready"}
  /\ requests' = IF linked THEN Append(requests, r) ELSE requests

Raised(r) ==
  /\ WritesMayFail \/ writer \in {"creating", "created"}
  /\ UNCHANGED requests

(* What a write leaves behind, wanted saying whether r is still true of    *)
(* the interest at the moment it is written.                               *)
Accounts(r, wanted) ==
  CASE r.op = "ADD" ->
         /\ missing' = missing \ {r.uid}
         /\ excess' = IF linked /\ ~wanted THEN excess \cup {r.uid} ELSE excess
         /\ UNCHANGED stale_period
    [] r.op = "DELETE" ->
         /\ missing' = missing \ {r.uid}
         /\ excess' = IF linked THEN excess \ {r.uid} ELSE excess
         /\ UNCHANGED stale_period
    [] r.op = "PERIOD" ->
         /\ stale_period' = IF wanted THEN "no" ELSE "late"
         /\ UNCHANGED <<missing, excess>>

RaisedAccounts(r) ==
  CASE r.op = "ADD"    -> missing' = missing \cup {r.uid} /\ UNCHANGED <<excess, stale_period>>
    [] r.op = "DELETE" -> /\ excess' = IF linked THEN excess \cup {r.uid} ELSE excess
                          /\ UNCHANGED <<missing, stale_period>>
    [] r.op = "PERIOD" -> stale_period' = "raised" /\ UNCHANGED <<missing, excess>>

Write(r, wanted) ==
  \/ Written(r) /\ Accounts(r, wanted)
  \/ Raised(r) /\ RaisedAccounts(r)

(* MUTANT: any further match but the first. *)
NToMore(status) == status.change > 0 /\ status.count # status.change

ZeroToN(status) == status.change > 0 /\ status.count = status.change

----------------------------------------------------------------------------
(* scada_web's asyncio thread. *)

Room == Len(requests) < MaxInFlight

WebStep(A) ==
  /\ writer = "ready"
  /\ A
  /\ UNCHANGED <<gateway, listener, linked, dead, requests, selector, history>>

Connect(c)          == WebStep(IM!Connect(c))
Disconnect(c)       == WebStep(IM!Disconnect(c))
Subscribe(c, u)     == Room /\ WebStep(IM!Subscribe(c, u))
Unsubscribe(c, u)   == Room /\ WebStep(IM!Unsubscribe(c, u))
SetMinSeparation(p) == Room /\ WebStep(IM!SetMinSeparation(p))
ReleaseNext(u)      == WebStep(IM!ReleaseNext(u))

(* gateway._create_writers.  A status that arrives while the writer is      *)
(* being created is held back, and acted on once the table has the writer   *)
(* and the flush has taken the list: "flushing".  The server takes no       *)
(* connection before start returns.                                         *)
WriterConstructed ==
  /\ writer = "creating" /\ writer' = "created"
  /\ UNCHANGED <<web, pending, listener, linked, dead, requests, selector, history>>

WriterRegistered ==
  /\ writer = "created" /\ writer' = "flushing"
  /\ UNCHANGED <<web, pending, listener, linked, dead, requests, selector, history>>

(* No client yet, so the replay is its PERIOD. *)
FlushMatch ==
  /\ writer = "flushing" /\ pending # <<>>
  /\ pending' = Tail(pending)
  /\ IF ZeroToN(Head(pending)) THEN Write(IM!PeriodRequest(min_separation_ms), TRUE)
     ELSE UNCHANGED <<requests, history>>
  /\ UNCHANGED <<web, writer, listener, linked, dead, selector>>

StartReturns ==
  /\ writer = "flushing" /\ pending = <<>> /\ writer' = "ready"
  /\ UNCHANGED <<web, pending, listener, linked, dead, requests, selector, history>>

(* _send_add, _on_interest_delete, _send_period, called from the handlers. *)
CallbackWrites ==
  /\ IM!CallbackReturns
  /\ Write(Head(sending), TRUE)
  /\ UNCHANGED <<gateway, listener, linked, dead, selector>>

----------------------------------------------------------------------------
(* The listener thread: _on_publication_matched. *)

(* MUTANT: the replay goes straight to the ADDs. *)
MatchDeliveredNoPeriod ==
  /\ replay.pc = "idle" /\ matches # <<>> /\ writer # "creating"
  /\ matches' = Tail(matches)
  /\ replay' = IF ZeroToN(Head(matches))
                 THEN [NoReplay EXCEPT !.pc = "reconcile"] ELSE replay
  /\ UNCHANGED <<web, gateway, linked, dead, requests, selector, history>>

(* The gateway holds a status back while the writer is being created.  The  *)
(* listener thread looks whether it is, and puts the status away, in two    *)
(* steps; by the second the asyncio thread may have taken the list away,    *)
(* and nobody comes for it again.                                           *)
WriterBeingCreated ==
  /\ replay.pc = "idle" /\ matches # <<>> /\ writer = "creating"
  /\ replay' = [NoReplay EXCEPT !.pc = "holding"]
  /\ UNCHANGED <<web, gateway, matches, linked, dead, requests, selector, history>>

MatchHeldBack ==
  /\ replay.pc = "holding"
  /\ replay' = NoReplay /\ matches' = Tail(matches)
  /\ \/ /\ writer \in {"creating", "created"}
        /\ pending' = Append(pending, Head(matches))
        /\ UNCHANGED stale_period
     \/ /\ writer \in {"flushing", "ready"}
        /\ stale_period' = IF ZeroToN(Head(matches)) THEN "stranded" ELSE stale_period
        /\ UNCHANGED pending
  /\ UNCHANGED <<web, writer, linked, dead, requests, selector, missing, excess>>

(* A status that is not a 0 -> N transition is dropped; otherwise the      *)
(* separation is read, to be sent by the next step.                        *)
MatchDelivered ==
  /\ replay.pc = "idle" /\ matches # <<>> /\ writer # "creating"
  /\ matches' = Tail(matches)
  /\ replay' = IF ZeroToN(Head(matches))
                 THEN [pc |-> "period", period |-> min_separation_ms, uids |-> {}]
                 ELSE replay
  /\ UNCHANGED <<web, gateway, linked, dead, requests, selector, history>>

ReplayPeriod ==
  /\ replay.pc = "period"
  /\ Write(IM!PeriodRequest(replay.period), replay.period = min_separation_ms)
  /\ replay' = [NoReplay EXCEPT !.pc = "reconcile"]
  /\ UNCHANGED <<web, gateway, matches, linked, dead, selector>>

(* MUTANT: waits for a first uid to send. *)
ReconcileNeverEmpty ==
  /\ replay.pc = "reconcile"
  /\ replay' = [replay EXCEPT !.pc = "adds", !.uids = IM!active_uids]
  /\ UNCHANGED <<web, gateway, matches, linked, dead, requests, selector, history>>

(* reconcile() copies the key set. *)
Reconcile ==
  /\ replay.pc = "reconcile"
  /\ replay' = IF IM!active_uids = {} THEN NoReplay
               ELSE [replay EXCEPT !.pc = "adds", !.uids = IM!active_uids]
  /\ UNCHANGED <<web, gateway, matches, linked, dead, requests, selector, history>>

(* MUTANT: the burst ends with its first ADD. *)
ReplayFirstAddOnly(u) ==
  /\ replay.pc = "adds" /\ u \in replay.uids
  /\ Write(IM!AddRequest(u), u \in IM!active_uids)
  /\ replay' = NoReplay
  /\ UNCHANGED <<web, gateway, matches, linked, dead, selector>>

(* One ADD of the burst.  The code goes in uid order; here, in any. *)
ReplayAdd(u) ==
  /\ replay.pc = "adds" /\ u \in replay.uids
  /\ Write(IM!AddRequest(u), u \in IM!active_uids)
  /\ replay' = IF replay.uids = {u} THEN NoReplay
               ELSE [replay EXCEPT !.uids = @ \ {u}]
  /\ UNCHANGED <<web, gateway, matches, linked, dead, selector>>

----------------------------------------------------------------------------
(* DDS discovery, and the selector process. *)

Matched == (IF linked THEN 1 ELSE 0) + dead

Status(count, change) ==
  /\ Len(matches) + Len(pending) < MaxEvents
  /\ matches' = Append(matches, [count |-> count, change |-> change])

(* run(), up to the dispatch loop: a fresh table with the uid range enabled. *)
SelectorStart ==
  /\ ~up
  /\ RestartAfterLease => dead = 0
  /\ up' = TRUE
  /\ subscriptions' = ST!range_enabled
  /\ separation_in_force' = default_min_separation_ms
  /\ UNCHANGED <<web, gateway, listener, linked, dead, requests, history>>

Match ==
  /\ up /\ ~linked
  /\ linked' = TRUE
  /\ Status(Matched + 1, 1)
  /\ UNCHANGED <<web, gateway, replay, dead, requests, selector, history>>

(* Its table and whatever was on its way to it are gone with the process. *)
SelectorGone ==
  /\ up' = FALSE /\ linked' = FALSE /\ requests' = <<>>
  /\ excess' = {}
  /\ UNCHANGED <<web, gateway, replay, subscriptions, separation_in_force, missing, stale_period>>

(* SIGINT or SIGTERM ends the loop; deleting the participant unmatches it. *)
SelectorStop ==
  /\ up /\ SelectorGone
  /\ IF linked THEN Status(Matched - 1, -1) ELSE UNCHANGED matches
  /\ UNCHANGED dead

(* A killed process tells nobody: its reader counts until the lease is out. *)
SelectorCrash ==
  /\ up /\ SelectorGone
  /\ dead' = IF linked THEN dead + 1 ELSE dead
  /\ dead' <= MaxDead
  /\ UNCHANGED matches

LeaseExpires ==
  /\ dead > 0
  /\ dead' = dead - 1
  /\ Status(Matched - 1, -1)
  /\ UNCHANGED <<web, gateway, replay, linked, requests, selector, history>>

(* ControlPlane::handle of the oldest request: one turn of drain_requests'  *)
(* loop.  The turns are steps of their own because the web side runs on.    *)
HandleRequest ==
  /\ up /\ requests # <<>>
  /\ requests' = Tail(requests)
  /\ LET r == Head(requests) IN
     \/ r.op = "ADD"    /\ ST!add(r.uid)   /\ UNCHANGED separation_in_force
     \/ r.op = "DELETE" /\ ST!erase(r.uid) /\ UNCHANGED separation_in_force
     \/ r.op = "PERIOD" /\ ST!set_period(r.period_ms) /\ UNCHANGED subscriptions
  /\ UNCHANGED <<web, gateway, listener, linked, dead, up, history>>

(* A new scada_web knows no clients.  A running selector keeps its table,   *)
(* and the requests that had reached it.                                    *)
WebRestart ==
  /\ WebMayRestart /\ Room
  /\ IM!Restarted
  /\ writer' = "creating" /\ pending' = <<>>
  /\ matches' = <<>> /\ replay' = NoReplay
  /\ linked' = FALSE /\ dead' = 0
  /\ \E n \in 0 .. Len(requests) : requests' = SubSeq(requests, 1, n)
  /\ excess' = excess \cup
       {u \in Uid : /\ up
                    /\ \/ ST!contains(u)
                       \/ \E i \in 1 .. Len(requests) : requests[i] = IM!AddRequest(u)}
  /\ UNCHANGED <<selector, missing, stale_period>>

Next ==
  \/ \E c \in Client : Connect(c) \/ Disconnect(c)
  \/ \E c \in Client, u \in Uid : Subscribe(c, u) \/ Unsubscribe(c, u)
  \/ \E p \in Separation : SetMinSeparation(p)
  \/ \E u \in Uid : ReleaseNext(u) \/ ReplayAdd(u)
  \/ CallbackWrites
  \/ WriterConstructed \/ WriterRegistered \/ FlushMatch \/ StartReturns
  \/ WriterBeingCreated \/ MatchHeldBack \/ MatchDelivered \/ ReplayPeriod \/ Reconcile
  \/ Match \/ LeaseExpires \/ HandleRequest
  \/ SelectorStart \/ SelectorStop \/ SelectorCrash \/ WebRestart

Spec == Init /\ [][Next]_vars

(* The threads of both processes run, DDS delivers and matches; nothing     *)
(* makes a browser act, a process die or a dead selector come back.         *)
Fairness ==
  /\ WF_vars(CallbackWrites) /\ WF_vars(\E u \in Uid : ReleaseNext(u))
  /\ WF_vars(WriterConstructed) /\ WF_vars(WriterRegistered)
  /\ WF_vars(FlushMatch) /\ WF_vars(StartReturns)
  /\ WF_vars(WriterBeingCreated) /\ WF_vars(MatchHeldBack)
  /\ WF_vars(MatchDelivered) /\ WF_vars(ReplayPeriod) /\ WF_vars(Reconcile)
  /\ WF_vars(\E u \in Uid : ReplayAdd(u))
  /\ WF_vars(Match) /\ WF_vars(HandleRequest)

FairSpec == Spec /\ Fairness

----------------------------------------------------------------------------
TypeOK ==
  /\ IM!TypeOK
  /\ writer \in {"creating", "created", "flushing", "ready"}
  /\ (writer # "ready" => ws_clients = {}) /\ (writer = "ready" => pending = <<>>)
  /\ {matches, pending} \subseteq Seq([count : Nat, change : {-1, 1}])
  /\ replay \in [pc : {"idle", "holding", "period", "reconcile", "adds"},
                 period : Separation, uids : SUBSET Uid]
  /\ replay.pc = "adds" <=> replay.uids # {}
  /\ linked \in BOOLEAN /\ dead \in Nat
  /\ requests \in Seq(IM!ValueRequest)
  /\ up \in BOOLEAN /\ (linked => up)
  /\ ST!selected \subseteq Uid /\ separation_in_force \in Nat
  /\ missing \subseteq Uid /\ excess \subseteq Uid /\ stale_period \in {"no", "late", "raised", "stranded"}

(* Everything written, or about to be written by a handler, that the       *)
(* selector has not handled.                                               *)
Pipeline == requests \o sending

Concludes(op, u) ==
  \E i \in 1 .. Len(Pipeline) :
    /\ Pipeline[i] = [op |-> op, uid |-> u]
    /\ \A j \in i + 1 .. Len(Pipeline) :
         Pipeline[j] \notin {IM!AddRequest(u), IM!DeleteRequest(u)}

(* Whether u is selected once the pipeline is drained. *)
WillSelect(u) == Concludes("ADD", u) \/ (u \in ST!selected /\ ~Concludes("DELETE", u))

WillForceSeparation(p) ==
  LET periods == {i \in 1 .. Len(Pipeline) : Pipeline[i].op = "PERIOD"} IN
  IF periods = {} THEN separation_in_force = p
  ELSE Pipeline[CHOOSE i \in periods : \A j \in periods : j <= i].period_ms = p

ReplayAhead ==
  \E s \in {matches, pending} : \E i \in 1 .. Len(s) : ZeroToN(s[i])

WillReplay(u) ==
  \/ ReplayAhead \/ replay.pc \in {"period", "reconcile"}
  \/ replay.pc = "adds" /\ u \in replay.uids

(* A uid some client wants is selected by the running selector, or the     *)
(* command that selects it is on its way, or the replay that sends it is:  *)
(* whatever the order of subscriptions, match, replay, crash and restart   *)
(* (SR-003).  Only an ADD whose write raised can lose it.                  *)
NoBlankDisplay ==
  linked => \A u \in IM!active_uids \ missing : WillSelect(u) \/ WillReplay(u)

(* The selector ends up with no uid that nobody wants, except those of its *)
(* start-up range and those left behind in one of three ways: a DELETE     *)
(* raised, a replay sent an ADD from a key set that had changed, or an     *)
(* earlier scada_web wanted it.                                            *)
NothingElseForwarded ==
  linked => \A u \in Uid :
    WillSelect(u) => u \in IM!active_uids \cup PreEnabled \cup excess

(* The selector ends up with the separation of the web side, unless the    *)
(* last PERIOD raised, for want of a registered writer too, or was read     *)
(* before the separation changed, or the status it answers was stranded by  *)
(* the start-up.                                                           *)
SeparationFollows ==
  linked => \/ WillForceSeparation(min_separation_ms)
            \/ ReplayAhead \/ replay.pc = "period"
            \/ stale_period # "no"

(* Nothing is under way anywhere and the selector is running and matched. *)
Settled ==
  /\ up /\ linked /\ requests = <<>> /\ IM!Idle /\ writer = "ready"
  /\ matches = <<>> /\ replay.pc = "idle"

(* When all is quiet the selector forwards what the browsers still          *)
(* connected want, and nothing else: of what they want only a uid whose ADD *)
(* raised is left out, and of the rest only its start-up range and what is  *)
(* known to be left behind are forwarded (SR-001 to SR-003, end to end).    *)
SelectionIsInterest ==
  Settled => LET wanted == UNION {uids[c] : c \in ws_clients} IN
             /\ wanted \subseteq ST!selected \cup missing
             /\ ST!selected \subseteq wanted \cup PreEnabled \cup excess

(* SR-003, "scada-web MUST reconcile its full interest set after           *)
(* scada-selector restarts" (system-architecture.md).                      *)
InterestReconciled == Settled => IM!active_uids \subseteq ST!selected

(* SR-001a, "When the web UI changes it ... so the selector applies the    *)
(* new global value everywhere" (system-architecture.md), when the replay   *)
(* was made and no write raised.                                            *)
SeparationApplied ==
  Settled /\ stale_period \notin {"raised", "stranded"} => separation_in_force = min_separation_ms

(* A uid a client wants is eventually selected, or no longer wanted, or    *)
(* its ADD raised, or the selector is down (SR-001, SR-003).               *)
WantedIsSelected ==
  \A u \in Uid :
    (up /\ u \in IM!active_uids) ~>
      (u \in ST!selected \/ u \notin IM!active_uids \/ u \in missing \/ ~up)
============================================================================
