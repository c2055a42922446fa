------------------------------ MODULE PushPath ------------------------------
(***************************************************************************)
(* From a topic's reader to the browsers, by both ways there are: the      *)
(* gateway's reader loop, the per-client demultiplexing of server.py and    *)
(* the fire-and-forget _ws_send tasks; and the REST handlers, which read    *)
(* the same DDS reader and which the page polls for the metadata topic.     *)
(*                                                                         *)
(* The loop, the handlers and the tasks share the asyncio thread and each  *)
(* runs to its next await; DDS updates the reader at any time, and a page   *)
(* may have several answers on their way at once.  A sample is its version; *)
(* of its content it matters only whether JSON can carry it.  Refcounts and *)
(* the commands they cause are InterestManager's and not repeated.         *)
(***************************************************************************)
EXTENDS Integers, Sequences, FiniteSets

CONSTANTS
  Client, Uid,
  MaxVersion,   \* samples forwarded per uid
  NotFinite,    \* the versions with a NaN or an infinity in them
  RestReads,    \* whether others than the pages read the topic over REST
  Pollers,      \* pages that poll METADATA_TOPIC
  MaxAnswers,   \* answers on their way to one page
  Reading       \* browsers that go on taking what is sent to them

ASSUME PushAssumption ==
  /\ {MaxVersion, MaxAnswers} \subseteq Nat /\ RestReads \in BOOLEAN
  /\ NotFinite \subseteq 1 .. MaxVersion
  /\ Pollers \subseteq Client /\ Reading \subseteq Client

VARIABLES
  polled,      \* whether the topic is METADATA_TOPIC, which the pages poll
  \* the topic's reader (RELIABLE, KEEP_LAST 1)
  latest,      \* latest[u]: the newest version, 0 before the first
  alive,       \* uids whose instance is alive
  retained,    \* uids with a valid sample in the reader
  unread,      \* uids whose newest sample has the state NOT_READ
  others_bad,  \* a tag not looked at here has a NaN or an infinity retained
  \* server.py
  ws_clients,
  uids,        \* uids[c]: ClientInterest.uids
  tasks,       \* tasks[c][u]: versions in _ws_send tasks not run yet
  \* the pages
  answers,     \* answers[c]: polls answered and not received yet
  shown,       \* shown[c][u]: the version last ingested, 0 before the first
  \* history
  mark,        \* mark[c][u]: the version when c last took or dropped u
  taken,       \* uids whose newest sample a REST handler read first
  overtaken    \* <<c, u>>: an answer older than what c showed of u came, and
               \* neither a push nor the newest sample after it

reader  == <<polled, latest, alive, retained, unread, others_bad>>
clients == <<ws_clients, uids>>
pages   == <<answers, shown>>
history == <<mark, taken, overtaken>>
vars == <<reader, clients, tasks, pages, history>>

PerUid(x) == [u \in Uid |-> x]

(* One sample per uid, 0 for a uid the answer does not have. *)
Answer == [Uid -> 0 .. MaxVersion]

Init ==
  /\ polled \in BOOLEAN
  /\ latest = PerUid(0) /\ alive = {} /\ retained = {} /\ unread = {}
  /\ others_bad = FALSE
  /\ ws_clients = {} /\ uids = [c \in Client |-> {}]
  /\ tasks = [c \in Client |-> PerUid(<<>>)]
  /\ answers = [c \in Client |-> {}]
  /\ shown = [c \in Client |-> PerUid(0)] /\ mark = [c \in Client |-> PerUid(0)]
  /\ taken = {} /\ overtaken = {}

----------------------------------------------------------------------------
(* DDS.  An end hides an unread sample from the loop, and may replace it.   *)

SampleArrives(u) ==
  /\ latest[u] < MaxVersion
  /\ latest' = [latest EXCEPT ![u] = @ + 1]
  /\ alive' = alive \cup {u} /\ retained' = retained \cup {u} /\ unread' = unread \cup {u}
  /\ taken' = taken \ {u}
  /\ UNCHANGED <<polled, others_bad, clients, tasks, pages, mark, overtaken>>

InstanceEnds(u) ==
  /\ u \in alive
  /\ alive' = alive \ {u}
  /\ \/ UNCHANGED <<retained, unread>>
     \/ retained' = retained \ {u} /\ unread' = unread \ {u}
  /\ UNCHANGED <<polled, latest, others_bad, clients, tasks, pages, history>>

OtherTagChanges ==
  /\ NotFinite # {} /\ others_bad' = ~others_bad
  /\ UNCHANGED <<polled, latest, alive, retained, unread, clients, tasks, pages, history>>

----------------------------------------------------------------------------
(* The endpoint's handlers, as far as the pushes see them. *)

Connect(c) ==
  /\ c \notin ws_clients
  /\ ws_clients' = ws_clients \cup {c}
  /\ UNCHANGED <<reader, uids, tasks, pages, history>>

Subscribe(c, u) ==
  /\ c \in ws_clients /\ u \notin uids[c]
  /\ uids' = [uids EXCEPT ![c] = @ \cup {u}]
  /\ mark' = [mark EXCEPT ![c][u] = latest[u]]
  /\ UNCHANGED <<reader, ws_clients, tasks, pages, taken, overtaken>>

Unsubscribe(c, u) ==
  /\ u \in uids[c]
  /\ uids' = [uids EXCEPT ![c] = @ \ {u}]
  /\ mark' = [mark EXCEPT ![c][u] = latest[u]]
  /\ UNCHANGED <<reader, ws_clients, tasks, pages, taken, overtaken>>

(* MUTANT: the interest of the connection stays. *)
DisconnectKeepsInterest(c) ==
  /\ c \in ws_clients
  /\ ws_clients' = ws_clients \ {c}
  /\ tasks' = [tasks EXCEPT ![c] = PerUid(<<>>)]
  /\ UNCHANGED <<reader, uids, pages, history>>

(* What is still to be sent raises and is dropped.  The page keeps what it  *)
(* shows, gets the answers that are on their way, and may come back.        *)
Disconnect(c) ==
  /\ c \in ws_clients
  /\ ws_clients' = ws_clients \ {c} /\ uids' = [uids EXCEPT ![c] = {}]
  /\ tasks' = [tasks EXCEPT ![c] = PerUid(<<>>)]
  /\ mark' = [mark EXCEPT ![c] = PerUid(0)]
  /\ UNCHANGED <<reader, pages, taken, overtaken>>

----------------------------------------------------------------------------
(* views.py keeps a NaN or an infinity.  json.dumps writes it, in a form    *)
(* JSON.parse refuses; JSONResponse, which answers REST, raises.           *)
JsonCarries(version) == version \notin NotFinite

(* The reader loop and its pushes. *)

(* MUTANTS: no demultiplexing; only an instance's first sample is new; a    *)
(* client with a push under way is passed over.                             *)
Connected(c, u) == c \in ws_clients /\ u \in Uid

UnlessBusy(queue, version) == IF queue = <<>> THEN <<version>> ELSE queue

(* DataState.new_data: NOT_READ, and the instance ALIVE. *)
New(u) == u \in unread /\ u \in alive

is_interested(c, u) == c \in ws_clients /\ u \in uids[c]

Queued(queue, version) == Append(queue, version)

Pushed == [c \in Client |-> [u \in Uid |->
             IF New(u) /\ is_interested(c, u) THEN Queued(tasks[c][u], latest[u])
                                              ELSE tasks[c][u]]]

(* MUTANT: the next round waits until everything is sent. *)
ReaderLoopAwaitsSends ==
  /\ \E u \in Uid : New(u)
  /\ \A c \in Client, u \in Uid : tasks[c][u] = <<>>
  /\ unread' = {u \in unread : ~New(u)}
  /\ tasks' = Pushed
  /\ UNCHANGED <<polled, latest, alive, retained, others_bad, clients, pages, history>>

(* One round of the loop: read marks the samples, on_sample makes a task    *)
(* per interested client, and no await comes between.                       *)
ReaderLoop ==
  /\ \E u \in Uid : New(u)
  /\ unread' = {u \in unread : ~New(u)}
  /\ tasks' = Pushed
  /\ UNCHANGED <<polled, latest, alive, retained, others_bad, clients, pages, history>>

(* The tasks of one connection and uid run in the order they were made; the *)
(* page drops a frame it cannot parse.                                      *)
_ws_send(c, u) ==
  /\ tasks[c][u] # <<>>
  /\ tasks' = [tasks EXCEPT ![c][u] = Tail(@)]
  /\ IF JsonCarries(Head(tasks[c][u]))
       THEN /\ shown' = [shown EXCEPT ![c][u] = Head(tasks[c][u])]
            /\ overtaken' = overtaken \ {<<c, u>>}
       ELSE UNCHANGED <<shown, overtaken>>
  /\ UNCHANGED <<reader, clients, answers, mark, taken>>

----------------------------------------------------------------------------
(* REST. *)

(* MUTANT: only the samples nobody has read yet. *)
UnreadOnly == [u \in Uid |-> IF u \in unread THEN latest[u] ELSE 0]

(* Every valid sample there is, of live instances and of ended ones. *)
Samples == [u \in Uid |-> IF u \in retained THEN latest[u] ELSE 0]

(* read_samples leaves nothing NOT_READ. *)
read_samples ==
  /\ unread' = {}
  /\ taken' = taken \cup unread
  /\ UNCHANGED <<polled, latest, alive, retained, others_bad>>

(* GET .../samples and .../samples/all of others than the pages: one sample *)
(* or all of them in the answer, and all of them read for it.               *)
get_samples ==
  /\ RestReads /\ unread # {} /\ read_samples
  /\ UNCHANGED <<clients, tasks, pages, mark, overtaken>>

AnswerCarries == ~others_bad /\ \A u \in retained : JsonCarries(latest[u])

(* pollMetadataCatalog, on opening and every METADATA_POLL_MS; one sample   *)
(* JSON cannot carry makes it a 500 for all, when all have been read.       *)
pollMetadataCatalog(c) ==
  /\ polled /\ c \in Pollers \cap ws_clients /\ Cardinality(answers[c]) < MaxAnswers
  /\ read_samples
  /\ answers' = IF AnswerCarries THEN [answers EXCEPT ![c] = @ \cup {Samples}] ELSE answers
  /\ UNCHANGED <<clients, tasks, shown, mark, overtaken>>

(* Answers overtake each other, and the pushes; the page compares no times. *)
AnswerArrives(c, a) ==
  /\ a \in answers[c]
  /\ answers' = [answers EXCEPT ![c] = @ \ {a}]
  /\ shown' = [shown EXCEPT ![c] = [u \in Uid |-> IF a[u] # 0 THEN a[u] ELSE @[u]]]
  /\ overtaken' = {p \in overtaken : p[1] = c => a[p[2]] # latest[p[2]]}
                    \cup {<<c, u>> : u \in {u \in Uid : a[u] # 0 /\ a[u] < shown[c][u]}}
  /\ UNCHANGED <<reader, clients, tasks, mark, taken>>

Next ==
  \/ \E u \in Uid : SampleArrives(u) \/ InstanceEnds(u)
  \/ OtherTagChanges
  \/ \E c \in Client : Connect(c) \/ Disconnect(c) \/ pollMetadataCatalog(c)
  \/ \E c \in Client, u \in Uid : Subscribe(c, u) \/ Unsubscribe(c, u) \/ _ws_send(c, u)
  \/ \E c \in Client : \E a \in answers[c] : AnswerArrives(c, a)
  \/ ReaderLoop \/ get_samples

Spec == Init /\ [][Next]_vars

(* The event loop runs the reader loop and the tasks of the browsers that   *)
(* take what is sent to them; a page's timer fires and its answers arrive.  *)
FairSpec ==
  /\ Spec /\ WF_vars(ReaderLoop)
  /\ \A c \in Reading, u \in Uid : WF_vars(_ws_send(c, u))
  /\ \A c \in Pollers :
       WF_vars(pollMetadataCatalog(c)) /\ WF_vars(\E a \in Answer : AnswerArrives(c, a))

----------------------------------------------------------------------------
(* Types; and only a connected client has interests or pushes to come. *)
TypeOK ==
  /\ {polled, others_bad} \subseteq BOOLEAN /\ latest \in [Uid -> 0 .. MaxVersion]
  /\ alive \subseteq retained /\ unread \subseteq retained /\ retained \subseteq Uid
  /\ ws_clients \subseteq Client /\ uids \in [Client -> SUBSET Uid]
  /\ tasks \in [Client -> [Uid -> Seq(1 .. MaxVersion)]]
  /\ answers \in [Client -> SUBSET Answer]
  /\ {shown, mark} \subseteq [Client -> [Uid -> 0 .. MaxVersion]]
  /\ \A c \in Client \ ws_clients : uids[c] = {} /\ tasks[c] = PerUid(<<>>)
  /\ taken \subseteq Uid /\ overtaken \subseteq Client \X Uid

(* Why a page may go on showing something else than the newest sample. *)
Excused(c, u) ==
  \/ u \in taken \/ u \notin alive
  \/ <<c, u>> \in overtaken \/ ~JsonCarries(latest[u])

(* A sample newer than a client's subscription is what the client shows,    *)
(* once nothing of its uid is unread or under way to that client, unless a  *)
(* REST handler read it first, an older answer came after it, its instance  *)
(* ended or JSON cannot carry it.                                           *)
PushedOrTaken ==
  \A c \in Client, u \in Uid :
    is_interested(c, u) /\ latest[u] > mark[c][u] /\ u \notin unread /\ tasks[c][u] = <<>>
      => shown[c][u] = latest[u] \/ Excused(c, u)

(* SR-004: what is still to be pushed to a client of a uid it does not want *)
(* was forwarded, at the latest, when it dropped the uid; of one it never   *)
(* wanted, nothing.                                                         *)
OnlyWanted ==
  \A c \in Client, u \in Uid :
    u \notin uids[c] => \A i \in DOMAIN tasks[c][u] : tasks[c][u][i] <= mark[c][u]

(* A new sample reaches a client that keeps wanting it, or a newer one does, *)
(* with the same exceptions, and however many browsers have stopped reading. *)
ReachesBrowser ==
  \A c \in Reading, u \in Uid :
    is_interested(c, u) /\ latest[u] > mark[c][u]
      ~> \/ shown[c][u] = latest[u] \/ Excused(c, u)
         \/ ~is_interested(c, u) \/ latest[u] <= mark[c][u]

(* The catalogue a page shows converges to what the reader retains, whoever *)
(* read a sample first and however answers and pushes overtake each other,  *)
(* once nothing retained, of any tag, is beyond JSON.                       *)
PollingHeals ==
  \A c \in Pollers, u \in Uid :
    <>[](polled /\ c \in ws_clients /\ u \in retained /\ AnswerCarries)
      => <>[](shown[c][u] = latest[u])

(* "Async loop that reads new samples and forwards via callback"            *)
(* (gateway.py, _reader_loop): an interested client shows the newest        *)
(* sample, whatever is read "without taking it" (server.py) over REST.      *)
NewSamplesForwarded ==
  \A c \in Client, u \in Uid :
    is_interested(c, u) /\ latest[u] > mark[c][u] /\ u \notin unread /\ tasks[c][u] = <<>>
      => shown[c][u] = latest[u] \/ u \notin alive
============================================================================
