-------------------------- MODULE InterestManager --------------------------
(***************************************************************************)
(* The web side of selection: the websocket endpoint and handlers of       *)
(* scada_web/server.py with the InterestManager of scada_web/interest.py.  *)
(*                                                                         *)
(* Everything here runs on the asyncio thread.  A handler has no await in  *)
(* it, so no other handler runs before it returns; but DDS's listener      *)
(* thread may run between any two of its steps (ControlPath.tla), so a     *)
(* handler is split exactly there: the update of the refcounts, and then   *)
(* the callback that writes the command.  A message naming several uids is *)
(* the handler for one uid, repeated; a bad uid in the list ends it after  *)
(* the uids before it, which is the same as a shorter list.                *)
(***************************************************************************)
EXTENDS Integers, Sequences, FiniteSets

CONSTANTS
  Client,              \* websocket connections: a reconnecting browser is a new one
  Uid,                 \* tag ids
  Separation,          \* minimum separations (ms) a browser may ask for
  InitialSeparation    \* config.yaml's min_separation_ms

ASSUME InterestAssumption ==
  /\ IsFiniteSet(Client)
  /\ Separation \subseteq Nat \ {0}
  /\ InitialSeparation \in Separation

AddRequest(u)    == [op |-> "ADD", uid |-> u]
DeleteRequest(u) == [op |-> "DELETE", uid |-> u]
PeriodRequest(p) == [op |-> "PERIOD", period_ms |-> p]

(* The ValueRequests scada_web writes: PlcValue.idl's union without METADATA. *)
ValueRequest ==
       [op : {"ADD", "DELETE"}, uid : Uid]
  \cup [op : {"PERIOD"}, period_ms : Separation]

VARIABLES
  ws_clients,          \* connections the endpoint is serving
  uids,                \* uids[c]: ClientInterest.uids, {} when there is no entry
  refcounts,           \* refcounts[u]: the count, 0 when _refcounts has no key u
  min_separation_ms,   \* the global separation
  leaving,             \* uids client_disconnect has still to release
  sending,             \* the command a callback is writing, if any
  told                 \* history: what the callbacks have asked for so far

vars == <<ws_clients, uids, refcounts, min_separation_ms, leaving, sending, told>>

Init ==
  /\ ws_clients = {}
  /\ uids = [c \in Client |-> {}]
  /\ refcounts = [u \in Uid |-> 0]
  /\ min_separation_ms = InitialSeparation
  /\ leaving = {}
  /\ sending = <<>>
  /\ told = {}

(* A new scada_web process: none of this is kept anywhere. *)
Restarted ==
  /\ ws_clients' = {}
  /\ uids' = [c \in Client |-> {}]
  /\ refcounts' = [u \in Uid |-> 0]
  /\ min_separation_ms' = InitialSeparation
  /\ leaving' = {}
  /\ sending' = <<>>
  /\ told' = {}

----------------------------------------------------------------------------
(* The event loop starts a handler only when the last one has returned. *)
Idle == sending = <<>> /\ leaving = {}

active_uids == {u \in Uid : refcounts[u] > 0}

Connect(c) ==
  /\ Idle
  /\ c \notin ws_clients
  /\ ws_clients' = ws_clients \cup {c}
  /\ UNCHANGED <<uids, refcounts, min_separation_ms, leaving, sending, told>>

(* MUTANTS of the three operations, for the mutation checks: subscribe counts *)
(* a repeated subscription again; unsubscribe forgets its early return and  *)
(* lets the count go below zero; DELETE is sent one client early, or never. *)
subscribe_counts_repeats(c, u) ==
  /\ uids' = [uids EXCEPT ![c] = @ \cup {u}]
  /\ refcounts' = [refcounts EXCEPT ![u] = @ + 1]
  /\ sending' = IF refcounts'[u] = 1 THEN <<AddRequest(u)>> ELSE <<>>

unsubscribe_without_check(c, u) ==
  /\ uids' = [uids EXCEPT ![c] = @ \ {u}]
  /\ refcounts' = [refcounts EXCEPT ![u] = @ - 1]
  /\ sending' = IF refcounts'[u] = 0 THEN <<DeleteRequest(u)>> ELSE <<>>

release_one_early(u) ==
  LET count == refcounts[u] - 1 IN
  /\ refcounts' = [refcounts EXCEPT ![u] = count]
  /\ sending' = IF count <= 1 THEN <<DeleteRequest(u)>> ELSE <<>>

release_in_silence(u) ==
  LET count == refcounts[u] - 1 IN
  /\ refcounts' = [refcounts EXCEPT ![u] = IF count <= 0 THEN 0 ELSE count]
  /\ sending' = IF count < 0 THEN <<DeleteRequest(u)>> ELSE <<>>

(* Count a new watcher of u in; the first one fires on_add. *)
client_subscribe(c, u) ==
  /\ u \notin uids[c]
  /\ uids' = [uids EXCEPT ![c] = @ \cup {u}]
  /\ refcounts' = [refcounts EXCEPT ![u] = @ + 1]
  /\ sending' = IF refcounts'[u] = 1 THEN <<AddRequest(u)>> ELSE <<>>

(* Count a watcher of u out; the last one drops the key and fires on_delete. *)
release(u) ==
  LET count == refcounts[u] - 1 IN
  /\ refcounts' = [refcounts EXCEPT ![u] = IF count <= 0 THEN 0 ELSE count]
  /\ sending' = IF count <= 0 THEN <<DeleteRequest(u)>> ELSE <<>>

client_unsubscribe(c, u) ==
  /\ u \in uids[c]
  /\ uids' = [uids EXCEPT ![c] = @ \ {u}]
  /\ release(u)

Subscribe(c, u) ==
  /\ Idle /\ c \in ws_clients
  /\ client_subscribe(c, u)
  /\ UNCHANGED <<ws_clients, min_separation_ms, leaving, told>>

Unsubscribe(c, u) ==
  /\ Idle /\ c \in ws_clients
  /\ client_unsubscribe(c, u)
  /\ UNCHANGED <<ws_clients, min_separation_ms, leaving, told>>

(* A repeated value is ignored; otherwise the state changes before the     *)
(* callback sends it.  Values <= 0 are refused before any state changes.   *)
SetMinSeparation(p) ==
  /\ Idle /\ ws_clients # {}
  /\ p # min_separation_ms
  /\ min_separation_ms' = p
  /\ sending' = <<PeriodRequest(p)>>
  /\ UNCHANGED <<ws_clients, uids, refcounts, leaving, told>>

(* MUTANT: only the endpoint's own table is cleaned up. *)
disconnect_forgets_interest(c) ==
  /\ Idle /\ c \in ws_clients
  /\ ws_clients' = ws_clients \ {c}
  /\ UNCHANGED <<uids, refcounts, leaving, min_separation_ms, sending, told>>

(* The endpoint's finally: the connection and its interest go at once ... *)
Disconnect(c) ==
  /\ Idle /\ c \in ws_clients
  /\ ws_clients' = ws_clients \ {c}
  /\ uids' = [uids EXCEPT ![c] = {}]
  /\ leaving' = uids[c]
  /\ UNCHANGED <<refcounts, min_separation_ms, sending, told>>

(* ... and client_disconnect releases its uids one by one, in set order. *)
ReleaseNext(u) ==
  /\ sending = <<>> /\ u \in leaving
  /\ leaving' = leaving \ {u}
  /\ release(u)
  /\ UNCHANGED <<ws_clients, uids, min_separation_ms, told>>

(* What a sequence of ADDs and DELETEs, each the last word on its uid, asks for. *)
Obey(selected, request) ==
  CASE request.op = "ADD"    -> selected \cup {request.uid}
    [] request.op = "DELETE" -> selected \ {request.uid}
    [] OTHER                 -> selected

(* The callback has made its one attempt to write and returns. *)
CallbackReturns ==
  /\ sending # <<>>
  /\ sending' = <<>>
  /\ told' = Obey(told, Head(sending))
  /\ UNCHANGED <<ws_clients, uids, refcounts, min_separation_ms, leaving>>

Next ==
  \/ \E c \in Client : Connect(c) \/ Disconnect(c)
  \/ \E c \in Client, u \in Uid : Subscribe(c, u) \/ Unsubscribe(c, u)
  \/ \E p \in Separation : SetMinSeparation(p)
  \/ \E u \in Uid : ReleaseNext(u)
  \/ CallbackReturns

Spec == Init /\ [][Next]_vars

----------------------------------------------------------------------------
(* Every variable of the InterestManager holds a value of its type, and at *)
(* most one callback is running.                                           *)
TypeOK ==
  /\ ws_clients \subseteq Client
  /\ uids \in [Client -> SUBSET Uid]
  /\ refcounts \in [Uid -> Nat]
  /\ min_separation_ms \in Separation
  /\ leaving \subseteq Uid
  /\ sending \in {<<>>} \cup {<<r>> : r \in ValueRequest}
  /\ told \subseteq Uid

Watchers(u) == {c \in Client : u \in uids[c]}

(* A refcount is the number of clients holding the uid, plus the departed  *)
(* client whose disconnect has not released it yet: no path through        *)
(* subscribe, repeated subscribe, unsubscribe and disconnect leaks or      *)
(* double-counts one (interest.py 78-125, SR-001 and SR-002).              *)
RefcountExact ==
  \A u \in Uid :
    refcounts[u] = Cardinality(Watchers(u)) + (IF u \in leaving THEN 1 ELSE 0)

(* ADD is sent only for a uid not yet asked for and DELETE only for one    *)
(* that was, and never a DELETE while another client still watches:        *)
(* commands for one uid alternate, over all clients and disconnects.       *)
EdgeTriggered ==
  \A u \in Uid :
    /\ sending = <<AddRequest(u)>> => u \notin told /\ Watchers(u) # {}
    /\ sending = <<DeleteRequest(u)>> => u \in told /\ Watchers(u) = {}

(* Whenever no handler is running, what the callbacks have asked for is    *)
(* the union of the interests of the clients still connected, and a        *)
(* departed client holds none (SR-001, SR-002).                            *)
ToldIsInterest ==
  /\ \A c \in Client \ ws_clients : uids[c] = {}
  /\ Idle => told = UNION {uids[c] : c \in ws_clients}

(* Counting references, sending commands on the edges only and releasing a *)
(* departed client uid by uid implement one shared interest: every command  *)
(* settles a uid on which what was told and what is wanted differ, and the  *)
(* next operation finds the two equal (SR-001, SR-002).                     *)
Announced == INSTANCE SharedInterest WITH interest <- uids, announced <- told

ImplementsSharedInterest == Announced!Spec
============================================================================
