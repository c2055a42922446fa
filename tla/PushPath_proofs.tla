-------------------------- MODULE PushPath_proofs --------------------------
(***************************************************************************)
(* Proofs about PushPath: for any clients, uids and number of samples, and *)
(* any answers on their way, a page shows the newest sample it should, and *)
(* no push is of a uid its client had no interest in.                      *)
(***************************************************************************)
EXTENDS PushPath, SequenceFacts

Version == 0 .. MaxVersion

----------------------------------------------------------------------------
(* TypeOK, one action at a time. *)

(* The reader, as samples come and are read.                                *)
LEMMA ReaderKeepsTypes ==
  ASSUME TypeOK,
         \/ \E u \in Uid : SampleArrives(u) \/ InstanceEnds(u)
         \/ OtherTagChanges \/ get_samples
  PROVE  TypeOK'
<1>1. ASSUME NEW u \in Uid, SampleArrives(u) PROVE TypeOK'
  <2>1. latest[u] + 1 \in Version
    BY <1>1, PushAssumption DEF TypeOK, SampleArrives, Version
  <2> QED
    BY <1>1, <2>1 DEF TypeOK, SampleArrives, clients, pages, Version
<1>2. ASSUME NEW u \in Uid, InstanceEnds(u) PROVE TypeOK'
  BY <1>2 DEF TypeOK, InstanceEnds, clients, pages, history
<1>3. CASE OtherTagChanges
  BY <1>3 DEF TypeOK, OtherTagChanges, clients, pages, history
<1>4. CASE get_samples
  BY <1>4 DEF TypeOK, get_samples, read_samples, clients, pages
<1> QED
  BY <1>1, <1>2, <1>3, <1>4

(* The clients, as they come, go and choose.                                *)
LEMMA ClientsKeepTypes ==
  ASSUME TypeOK, NEW c \in Client,
         \/ Connect(c) \/ Disconnect(c)
         \/ \E u \in Uid : Subscribe(c, u) \/ Unsubscribe(c, u)
  PROVE  TypeOK'
<1>1. CASE Connect(c)
  BY <1>1 DEF TypeOK, Connect, reader, pages, history
<1>2. CASE Disconnect(c)
  <2>1. PerUid(<<>>) \in [Uid -> Seq(1 .. MaxVersion)] /\ PerUid(0) \in [Uid -> Version]
    BY PushAssumption DEF PerUid, Version
  <2>2. /\ tasks' \in [Client -> [Uid -> Seq(1 .. MaxVersion)]]
        /\ mark' \in [Client -> [Uid -> Version]]
        /\ uids' \in [Client -> SUBSET Uid]
    BY <1>2, <2>1 DEF TypeOK, Disconnect, Version
  <2>3. \A d \in Client \ ws_clients' : uids'[d] = {} /\ tasks'[d] = PerUid(<<>>)
    BY <1>2 DEF TypeOK, Disconnect
  <2> QED
    BY <1>2, <2>2, <2>3 DEF TypeOK, Disconnect, reader, pages, PerUid, Version
<1>3. ASSUME NEW u \in Uid, Subscribe(c, u) PROVE TypeOK'
  <2>1. mark' \in [Client -> [Uid -> Version]] /\ uids' \in [Client -> SUBSET Uid]
    BY <1>3 DEF TypeOK, Subscribe, Version
  <2>2. \A d \in Client \ ws_clients' : uids'[d] = {} /\ tasks'[d] = PerUid(<<>>)
    BY <1>3 DEF TypeOK, Subscribe, PerUid
  <2> QED
    BY <1>3, <2>1, <2>2 DEF TypeOK, Subscribe, reader, pages, PerUid, Version
<1>4. ASSUME NEW u \in Uid, Unsubscribe(c, u) PROVE TypeOK'
  <2>1. mark' \in [Client -> [Uid -> Version]] /\ uids' \in [Client -> SUBSET Uid]
    BY <1>4 DEF TypeOK, Unsubscribe, Version
  <2>2. \A d \in Client \ ws_clients' : uids'[d] = {} /\ tasks'[d] = PerUid(<<>>)
    BY <1>4 DEF TypeOK, Unsubscribe, PerUid
  <2> QED
    <3>1. UNCHANGED <<reader, ws_clients, tasks, pages, taken, overtaken>>
      BY <1>4 DEF Unsubscribe
    <3> QED
      BY <2>1, <2>2, <3>1 DEF TypeOK, reader, pages, PerUid, Version
<1> QED
  BY <1>1, <1>2, <1>3, <1>4

(* A sample that is new has been sent by somebody: it is not version 0.     *)
NewIsSomething == \A u \in Uid : u \in retained => latest[u] \in 1 .. MaxVersion

(* What one round of the loop does to one queue.                            *)
LEMMA Push ==
  ASSUME TypeOK, NEW c \in Client, NEW u \in Uid
  PROVE  Pushed[c][u] = IF New(u) /\ is_interested(c, u) THEN Append(tasks[c][u], latest[u])
                                                         ELSE tasks[c][u]
BY DEF Pushed, Queued

(* The reader loop, which makes the tasks.                                  *)
LEMMA LoopKeepsTypes ==
  ASSUME TypeOK, NewIsSomething, ReaderLoop
  PROVE  TypeOK'
<1>1. \A c \in Client, u \in Uid : tasks[c][u] \in Seq(1 .. MaxVersion)
  BY DEF TypeOK
<1>2. \A c \in Client, u \in Uid : Pushed[c][u] \in Seq(1 .. MaxVersion)
  <2> SUFFICES ASSUME NEW c \in Client, NEW u \in Uid PROVE Pushed[c][u] \in Seq(1 .. MaxVersion)
    OBVIOUS
  <2>1. New(u) => latest[u] \in 1 .. MaxVersion
    BY DEF NewIsSomething, New, TypeOK
  <2>2. New(u) => Append(tasks[c][u], latest[u]) \in Seq(1 .. MaxVersion)
    BY <1>1, <2>1, AppendProperties
  <2> QED
    BY <1>1, <2>2, Push
<1>3. Pushed \in [Client -> [Uid -> Seq(1 .. MaxVersion)]]
  BY <1>2 DEF Pushed
<1>4. \A c \in Client \ ws_clients : Pushed[c] = tasks[c]
  <2> SUFFICES ASSUME NEW c \in Client \ ws_clients PROVE Pushed[c] = tasks[c]
    OBVIOUS
  <2>1. \A u \in Uid : Pushed[c][u] = tasks[c][u]
    BY Push DEF is_interested
  <2>2. Pushed[c] \in [Uid -> Seq(1 .. MaxVersion)] /\ tasks[c] \in [Uid -> Seq(1 .. MaxVersion)]
    BY <1>3 DEF TypeOK
  <2> QED
    BY <2>1, <2>2
<1>5. \A c \in Client \ ws_clients : uids[c] = {} /\ Pushed[c] = PerUid(<<>>)
  BY <1>4 DEF TypeOK
<1> QED
  BY <1>3, <1>5 DEF TypeOK, ReaderLoop, clients, pages, history, PerUid

(* A task, which sends to the page.                                         *)
LEMMA SendKeepsTypes ==
  ASSUME TypeOK, NEW c \in Client, NEW u \in Uid, _ws_send(c, u)
  PROVE  TypeOK'
<1>1. tasks[c][u] \in Seq(1 .. MaxVersion) /\ tasks[c][u] # <<>>
  BY DEF TypeOK, _ws_send
<1>2. Head(tasks[c][u]) \in 1 .. MaxVersion /\ Tail(tasks[c][u]) \in Seq(1 .. MaxVersion)
  BY <1>1, HeadTailProperties
<1>3. tasks' \in [Client -> [Uid -> Seq(1 .. MaxVersion)]] /\ shown' \in [Client -> [Uid -> Version]]
  <2>1. Head(tasks[c][u]) \in Version
    BY <1>2, PushAssumption DEF Version
  <2>2. tasks' \in [Client -> [Uid -> Seq(1 .. MaxVersion)]]
    BY <1>2 DEF TypeOK, _ws_send
  <2>3. shown' \in [Client -> [Uid -> Version]]
    <3>1. shown \in [Client -> [Uid -> Version]]
      BY DEF TypeOK, Version
    <3>2. shown' = [shown EXCEPT ![c][u] = Head(tasks[c][u])] \/ shown' = shown
      BY DEF _ws_send
    <3> QED
      BY <2>1, <3>1, <3>2
  <2> QED
    BY <2>2, <2>3
<1>4. c \in ws_clients
  <2>1. PerUid(<<>>)[u] = <<>>
    BY DEF PerUid
  <2> QED
    BY <1>1, <2>1 DEF TypeOK
<1>5. \A d \in Client \ ws_clients : uids[d] = {} /\ tasks'[d] = PerUid(<<>>)
  BY <1>4 DEF TypeOK, _ws_send
<1>6. overtaken' \subseteq Client \X Uid
  BY DEF TypeOK, _ws_send
<1> QED
  BY <1>3, <1>5, <1>6 DEF TypeOK, _ws_send, reader, clients, PerUid, Version

(* The catalogue polls and their answers.                                   *)
LEMMA PollKeepsTypes ==
  ASSUME TypeOK, NEW c \in Client,
         pollMetadataCatalog(c) \/ \E a \in answers[c] : AnswerArrives(c, a)
  PROVE  TypeOK'
<1>1. CASE pollMetadataCatalog(c)
  <2>1. Samples \in Answer
    BY PushAssumption DEF Samples, Answer, TypeOK
  <2>2. answers' \in [Client -> SUBSET Answer]
    BY <1>1, <2>1 DEF TypeOK, pollMetadataCatalog
  <2> QED
    BY <1>1, <2>2 DEF TypeOK, pollMetadataCatalog, read_samples, clients
<1>2. ASSUME NEW a \in answers[c], AnswerArrives(c, a) PROVE TypeOK'
  <2>1. a \in [Uid -> Version] /\ shown \in [Client -> [Uid -> Version]]
    BY DEF TypeOK, Answer, Version
  <2>2. shown' = [shown EXCEPT ![c] = [u \in Uid |-> IF a[u] # 0 THEN a[u] ELSE @[u]]]
    BY <1>2 DEF AnswerArrives
  <2>3. [u \in Uid |-> IF a[u] # 0 THEN a[u] ELSE shown[c][u]] \in [Uid -> Version]
    BY <2>1
  <2>4. shown' \in [Client -> [Uid -> Version]]
    BY <2>1, <2>2, <2>3
  <2>5. answers' \in [Client -> SUBSET Answer]
    BY <1>2 DEF AnswerArrives, TypeOK
  <2>6. overtaken' \subseteq Client \X Uid
    BY <1>2 DEF AnswerArrives, TypeOK
  <2> QED
    BY <1>2, <2>4, <2>5, <2>6 DEF TypeOK, AnswerArrives, reader, clients, PerUid, Version
<1> QED
  BY <1>1, <1>2

----------------------------------------------------------------------------
(* The inductive invariant.  PushedOrTaken is about empty queues only; what *)
(* makes it inductive is that a queue that is not empty ends with the       *)
(* newest sample, and that no answer is newer than the newest sample.       *)

Bounded ==
  /\ NewIsSomething
  /\ \A c \in Client : \A a \in answers[c] : \A u \in Uid : a[u] <= latest[u]
  /\ \A c \in Client, u \in Uid : \A i \in DOMAIN tasks[c][u] : tasks[c][u][i] <= latest[u]

(* A client that wants u, with none of the exceptions to showing the newest *)
(* sample that do not depend on the page.                                   *)
Awaits(c, u) ==
  /\ is_interested(c, u) /\ latest[u] > mark[c][u]
  /\ u \notin unread /\ u \notin taken /\ u \in alive

QueueEndsNewest ==
  \A c \in Client, u \in Uid :
    Awaits(c, u) /\ tasks[c][u] # <<>> => tasks[c][u][Len(tasks[c][u])] = latest[u]

ShowsNewest ==
  \A c \in Client, u \in Uid :
    Awaits(c, u) /\ tasks[c][u] = <<>>
      => shown[c][u] = latest[u] \/ <<c, u>> \in overtaken \/ ~JsonCarries(latest[u])

PushInv == TypeOK /\ Bounded /\ OnlyWanted /\ QueueEndsNewest /\ ShowsNewest

(* Nothing is read or shown yet.                                            *)
LEMMA InitPush == Init => PushInv
<1> SUFFICES ASSUME Init PROVE PushInv
  OBVIOUS
<1>1. TypeOK
  <2>1. PerUid(<<>>) \in [Uid -> Seq(1 .. MaxVersion)] /\ PerUid(0) \in [Uid -> Version]
    BY PushAssumption DEF PerUid, Version
  <2> QED
    BY <2>1 DEF Init, TypeOK, Version
<1>2. \A c \in Client, u \in Uid : tasks[c][u] = <<>>
  BY DEF Init, PerUid
<1> QED
  BY <1>1, <1>2 DEF Init, PushInv, Bounded, NewIsSomething, OnlyWanted, QueueEndsNewest,
                    ShowsNewest, Awaits, is_interested

(* The reader: a sample that arrives is unread, one that ends not alive.    *)
LEMMA ReaderStep ==
  ASSUME PushInv,
         \/ \E u \in Uid : SampleArrives(u) \/ InstanceEnds(u)
         \/ OtherTagChanges \/ get_samples
  PROVE  PushInv'
<1>0. TypeOK'
  BY ReaderKeepsTypes DEF PushInv
<1> USE DEF PushInv, Awaits, is_interested
<1>1. ASSUME NEW v \in Uid, SampleArrives(v) PROVE PushInv'
  <2>1. /\ latest' = [latest EXCEPT ![v] = @ + 1] /\ v \in unread'
        /\ latest[v] < MaxVersion
        /\ latest \in [Uid -> Version] /\ MaxVersion \in Nat
        /\ retained' = retained \cup {v}
        /\ \A u \in Uid \ {v} : /\ u \in unread' <=> u \in unread
                                /\ u \in taken' <=> u \in taken
                                /\ u \in alive' <=> u \in alive
        /\ UNCHANGED <<clients, tasks, pages, mark, overtaken>>
    BY <1>1, PushAssumption DEF SampleArrives, TypeOK, Version
  <2>2. /\ latest'[v] = latest[v] + 1 /\ latest'[v] \in 1 .. MaxVersion
        /\ \A u \in Uid \ {v} : latest'[u] = latest[u]
        /\ \A u \in Uid : latest[u] \in Nat /\ latest'[u] \in Nat /\ latest[u] <= latest'[u]
    BY <2>1 DEF Version
  <2>3. Bounded'
    <3>1. NewIsSomething'
      BY <2>1, <2>2 DEF Bounded, NewIsSomething
    <3>2. \A c \in Client : \A a \in answers[c] : \A u \in Uid : a[u] <= latest'[u]
      BY <2>2 DEF Bounded, TypeOK, Answer
    <3>3. \A c \in Client, u \in Uid : \A i \in DOMAIN tasks[c][u] : tasks[c][u][i] <= latest'[u]
      <4> SUFFICES ASSUME NEW c \in Client, NEW u \in Uid, NEW i \in DOMAIN tasks[c][u]
                   PROVE  tasks[c][u][i] <= latest'[u]
        OBVIOUS
      <4>1. tasks[c][u] \in Seq(1 .. MaxVersion)
        BY DEF TypeOK
      <4>2. tasks[c][u][i] \in 1 .. MaxVersion
        BY <4>1, ElementOf
      <4>3. tasks[c][u][i] <= latest[u]
        BY DEF Bounded
      <4> QED
        BY <2>1, <2>2, <4>2, <4>3
    <3> QED
      BY <2>1, <3>1, <3>2, <3>3 DEF Bounded, pages
  <2>4. OnlyWanted'
    BY <2>1 DEF OnlyWanted, clients
  <2>5. QueueEndsNewest'
    BY <2>1, <2>2 DEF QueueEndsNewest, clients
  <2>6. ShowsNewest'
    BY <2>1, <2>2 DEF ShowsNewest, clients, pages, JsonCarries
  <2> QED
    BY <1>0, <2>3, <2>4, <2>5, <2>6
<1>2. ASSUME NEW v \in Uid, InstanceEnds(v) PROVE PushInv'
  <2>1. /\ v \notin alive' /\ retained' \subseteq retained
        /\ \A u \in Uid \ {v} : (u \in unread' <=> u \in unread) /\ (u \in alive' <=> u \in alive)
        /\ UNCHANGED <<latest, clients, tasks, pages, history>>
    BY <1>2 DEF InstanceEnds, TypeOK
  <2>2. Bounded' /\ OnlyWanted'
    BY <2>1 DEF Bounded, NewIsSomething, OnlyWanted, clients, pages, history
  <2>3. QueueEndsNewest' /\ ShowsNewest'
    BY <2>1 DEF QueueEndsNewest, ShowsNewest, clients, pages, history, JsonCarries
  <2> QED
    BY <1>0, <2>2, <2>3
<1>3. CASE OtherTagChanges
  <2>1. UNCHANGED <<latest, alive, retained, unread, clients, tasks, pages, history>>
    BY <1>3 DEF OtherTagChanges
  <2>2. Bounded' /\ OnlyWanted' /\ QueueEndsNewest' /\ ShowsNewest'
    BY <2>1 DEF Bounded, NewIsSomething, OnlyWanted, QueueEndsNewest, ShowsNewest, clients,
                pages, history, JsonCarries
  <2> QED
    BY <1>0, <2>2
<1>4. CASE get_samples
  <2>1. /\ UNCHANGED <<latest, alive, retained, clients, tasks, pages, mark, overtaken>>
        /\ unread' = {} /\ taken' = taken \cup unread
    BY <1>4 DEF get_samples, read_samples
  <2>2. Bounded' /\ OnlyWanted'
    BY <2>1 DEF Bounded, NewIsSomething, OnlyWanted, clients, pages
  <2>3. QueueEndsNewest' /\ ShowsNewest'
    BY <2>1 DEF QueueEndsNewest, ShowsNewest, clients, pages, JsonCarries
  <2> QED
    BY <1>0, <2>2, <2>3
<1> QED
  BY <1>1, <1>2, <1>3, <1>4

(* The endpoint: mark moves to the newest sample whenever an interest       *)
(* begins or ends, so what is queued by then is no newer than it.           *)
LEMMA ClientStep ==
  ASSUME PushInv, NEW c \in Client,
         \/ Connect(c) \/ Disconnect(c)
         \/ \E u \in Uid : Subscribe(c, u) \/ Unsubscribe(c, u)
  PROVE  PushInv'
<1>0. TypeOK'
  BY ClientsKeepTypes DEF PushInv
<1>00. \A u \in Uid : latest[u] \in Nat
  BY PushAssumption DEF PushInv, TypeOK
<1> USE DEF PushInv, Awaits, is_interested
<1>1. CASE Connect(c)
  <2>1. /\ ws_clients' = ws_clients \cup {c} /\ uids[c] = {}
        /\ UNCHANGED <<reader, uids, tasks, pages, history>>
    BY <1>1 DEF Connect, TypeOK
  <2>2. Bounded' /\ OnlyWanted'
    BY <2>1 DEF Bounded, NewIsSomething, OnlyWanted, reader, pages, history
  <2>3. QueueEndsNewest' /\ ShowsNewest'
    BY <2>1 DEF QueueEndsNewest, ShowsNewest, reader, pages, history, JsonCarries
  <2> QED
    BY <1>0, <2>2, <2>3
<1>2. CASE Disconnect(c)
  <2>1. /\ c \notin ws_clients' /\ ws_clients' \subseteq ws_clients
        /\ uids'[c] = {} /\ \A u \in Uid : tasks'[c][u] = <<>>
        /\ \A d \in Client \ {c} :
             tasks'[d] = tasks[d] /\ uids'[d] = uids[d] /\ mark'[d] = mark[d]
        /\ UNCHANGED <<reader, pages, taken, overtaken>>
    BY <1>2 DEF Disconnect, TypeOK, PerUid
  <2>2. Bounded' /\ OnlyWanted'
    BY <2>1 DEF Bounded, NewIsSomething, OnlyWanted, reader, pages
  <2>3. QueueEndsNewest' /\ ShowsNewest'
    BY <2>1 DEF QueueEndsNewest, ShowsNewest, reader, pages, JsonCarries
  <2> QED
    BY <1>0, <2>2, <2>3
<1>3. ASSUME NEW v \in Uid, Subscribe(c, v) \/ Unsubscribe(c, v) PROVE PushInv'
  <2>1. /\ mark'[c][v] = latest[v]
        /\ \A d \in Client, u \in Uid : d # c \/ u # v =>
             mark'[d][u] = mark[d][u] /\ (u \in uids'[d] <=> u \in uids[d])
        /\ UNCHANGED <<reader, ws_clients, tasks, pages, taken, overtaken>>
    <3>1. mark \in [Client -> [Uid -> 0 .. MaxVersion]] /\ uids \in [Client -> SUBSET Uid]
      BY DEF TypeOK
    <3>2. /\ mark' = [mark EXCEPT ![c][v] = latest[v]]
          /\ \/ uids' = [uids EXCEPT ![c] = @ \cup {v}]
             \/ uids' = [uids EXCEPT ![c] = @ \ {v}]
          /\ UNCHANGED <<reader, ws_clients, tasks, pages, taken, overtaken>>
      BY <1>3 DEF Subscribe, Unsubscribe
    <3>3. \A d \in Client, u \in Uid : d # c \/ u # v => (u \in uids'[d] <=> u \in uids[d])
      BY <3>1, <3>2
    <3>4. /\ mark'[c][v] = latest[v]
          /\ \A d \in Client, u \in Uid : d # c \/ u # v => mark'[d][u] = mark[d][u]
      BY <3>1, <3>2
    <3> QED
      BY <3>2, <3>3, <3>4
  <2>2. Bounded'
    BY <2>1 DEF Bounded, NewIsSomething, reader, pages
  <2>3. OnlyWanted'
    BY <2>1 DEF OnlyWanted, Bounded
  <2>4. QueueEndsNewest' /\ ShowsNewest'
    BY <1>00, <2>1 DEF QueueEndsNewest, ShowsNewest, reader, pages, JsonCarries
  <2> QED
    BY <1>0, <2>2, <2>3, <2>4
<1> QED
  BY <1>1, <1>2, <1>3

(* The reader loop: what it pushes is the newest sample, to who wants it.   *)
LEMMA LoopStep == PushInv /\ ReaderLoop => PushInv'
<1> SUFFICES ASSUME PushInv, ReaderLoop PROVE PushInv'
  OBVIOUS
<1>0. TypeOK'
  BY LoopKeepsTypes DEF PushInv, Bounded
<1> USE DEF PushInv, Awaits, is_interested
<1>1. /\ UNCHANGED <<latest, alive, retained, clients, pages, history>>
      /\ unread' = {u \in unread : ~New(u)} /\ tasks' = Pushed
  BY DEF ReaderLoop
<1>2. \A c \in Client, u \in Uid :
        /\ New(u) /\ is_interested(c, u) =>
             /\ tasks'[c][u] # <<>> /\ tasks'[c][u][Len(tasks'[c][u])] = latest[u]
             /\ \A i \in DOMAIN tasks'[c][u] :
                  tasks'[c][u][i] = latest[u] \/ (i \in DOMAIN tasks[c][u]
                                                   /\ tasks'[c][u][i] = tasks[c][u][i])
        /\ ~(New(u) /\ is_interested(c, u)) => tasks'[c][u] = tasks[c][u]
  <2> SUFFICES ASSUME NEW c \in Client, NEW u \in Uid, New(u) /\ is_interested(c, u)
               PROVE  /\ tasks'[c][u] # <<>> /\ tasks'[c][u][Len(tasks'[c][u])] = latest[u]
                      /\ \A i \in DOMAIN tasks'[c][u] :
                           tasks'[c][u][i] = latest[u]
                             \/ (i \in DOMAIN tasks[c][u] /\ tasks'[c][u][i] = tasks[c][u][i])
    BY <1>1, Push
  <2>1. tasks'[c][u] = Append(tasks[c][u], latest[u]) /\ tasks[c][u] \in Seq(1 .. MaxVersion)
    <3>1. TypeOK
      OBVIOUS
    <3>2. Pushed[c][u] = Append(tasks[c][u], latest[u])
      BY <3>1, Push
    <3>3. tasks[c][u] \in Seq(1 .. MaxVersion)
      BY <3>1 DEF TypeOK
    <3> QED
      BY <1>1, <3>2, <3>3
  <2>2. latest[u] \in 1 .. MaxVersion
    BY DEF Bounded, NewIsSomething, New, TypeOK
  <2> QED
    BY <2>1, <2>2, AppendProperties
<1>3. \A u \in Uid : u \notin unread' /\ u \in alive => u \notin unread \/ New(u)
  BY <1>1 DEF New
<1>4. Bounded'
  <2>1. \A c \in Client, u \in Uid : \A i \in DOMAIN tasks'[c][u] : tasks'[c][u][i] <= latest[u]
    <3>1. \A u \in Uid : latest[u] \in Nat
      BY PushAssumption DEF TypeOK
    <3> QED
      BY <1>2, <3>1 DEF Bounded
  <2> QED
    BY <1>1, <2>1 DEF Bounded, NewIsSomething, pages
<1>5. OnlyWanted'
  BY <1>1, <1>2 DEF OnlyWanted, clients, history
<1>6. QueueEndsNewest'
  BY <1>1, <1>2, <1>3 DEF QueueEndsNewest, clients, history
<1>7. ShowsNewest'
  BY <1>1, <1>2, <1>3 DEF ShowsNewest, clients, history, pages, JsonCarries
<1> QED
  BY <1>0, <1>4, <1>5, <1>6, <1>7

(* A task: the queue loses its head, and when that was all, the page has    *)
(* just been sent the newest sample.                                        *)
LEMMA SendStep == ASSUME PushInv, NEW c \in Client, NEW v \in Uid, _ws_send(c, v) PROVE PushInv'
<1>0. TypeOK'
  BY SendKeepsTypes DEF PushInv
<1> USE DEF PushInv, Awaits, is_interested
<1> DEFINE q == tasks[c][v]
<1>1. /\ q \in Seq(1 .. MaxVersion) /\ q # <<>>
      /\ tasks'[c][v] = Tail(q)
      /\ \A d \in Client, u \in Uid : d # c \/ u # v =>
           /\ tasks'[d][u] = tasks[d][u] /\ shown'[d][u] = shown[d][u]
           /\ <<d, u>> \in overtaken' <=> <<d, u>> \in overtaken
      /\ UNCHANGED <<reader, clients, answers, mark, taken>>
  <2>1. /\ tasks \in [Client -> [Uid -> Seq(1 .. MaxVersion)]]
        /\ shown \in [Client -> [Uid -> 0 .. MaxVersion]]
    BY DEF TypeOK
  <2>2. /\ q # <<>> /\ tasks' = [tasks EXCEPT ![c][v] = Tail(@)]
        /\ \/ /\ shown' = [shown EXCEPT ![c][v] = Head(q)]
              /\ overtaken' = overtaken \ {<<c, v>>}
           \/ UNCHANGED <<shown, overtaken>>
        /\ UNCHANGED <<reader, clients, answers, mark, taken>>
    BY DEF _ws_send
  <2>3. \A d \in Client, u \in Uid : d # c \/ u # v => tasks'[d][u] = tasks[d][u]
    BY <2>1, <2>2
  <2>4. \A d \in Client, u \in Uid : d # c \/ u # v => shown'[d][u] = shown[d][u]
    BY <2>1, <2>2
  <2>5. \A d \in Client, u \in Uid :
          d # c \/ u # v => (<<d, u>> \in overtaken' <=> <<d, u>> \in overtaken)
    BY <2>2
  <2>6. q \in Seq(1 .. MaxVersion) /\ tasks'[c][v] = Tail(q)
    BY <2>1, <2>2
  <2> QED
    BY <2>2, <2>3, <2>4, <2>5, <2>6
<1>2. JsonCarries(Head(q)) => shown'[c][v] = Head(q)
  BY DEF _ws_send, TypeOK
<1> HIDE DEF q
<1>3. q = tasks[c][v]
  BY DEF q
<1>4. \A i \in DOMAIN Tail(q) : i + 1 \in DOMAIN q /\ Tail(q)[i] = q[i + 1]
  BY <1>1, TailOf
<1>5. Tail(q) # <<>> => Tail(q)[Len(Tail(q))] = q[Len(q)]
  BY <1>1, TailOf
<1>6. Tail(q) = <<>> => Head(q) = q[Len(q)]
  BY <1>1, TailOf
<1>11. UNCHANGED <<latest, alive, retained, unread, ws_clients, uids, answers, mark, taken>>
  BY <1>1 DEF reader, clients
<1>7. Bounded'
  <2>1. \A d \in Client, u \in Uid : \A i \in DOMAIN tasks'[d][u] : tasks'[d][u][i] <= latest[u]
    <3> SUFFICES ASSUME NEW d \in Client, NEW u \in Uid, NEW i \in DOMAIN tasks'[d][u]
                 PROVE  tasks'[d][u][i] <= latest[u]
      OBVIOUS
    <3>1. CASE d = c /\ u = v
      <4>1. \A j \in DOMAIN q : q[j] <= latest[v]
        BY <1>3 DEF Bounded
      <4> QED
        BY <1>1, <1>4, <3>1, <4>1
    <3>2. CASE d # c \/ u # v
      BY <1>1, <3>2 DEF Bounded
    <3> QED
      BY <3>1, <3>2
  <2> QED
    BY <1>11, <2>1 DEF Bounded, NewIsSomething
<1>8. OnlyWanted'
  <2> SUFFICES ASSUME NEW d \in Client, NEW u \in Uid, u \notin uids[d],
                      NEW i \in DOMAIN tasks'[d][u]
               PROVE  tasks'[d][u][i] <= mark[d][u]
    BY <1>11 DEF OnlyWanted
  <2>1. CASE d = c /\ u = v
    <3>1. \A j \in DOMAIN q : q[j] <= mark[c][v]
      BY <1>3, <2>1 DEF OnlyWanted
    <3> QED
      BY <1>1, <1>4, <2>1, <3>1
  <2>2. CASE d # c \/ u # v
    BY <1>1, <2>2 DEF OnlyWanted
  <2> QED
    BY <2>1, <2>2
<1>9. QueueEndsNewest'
  <2> SUFFICES ASSUME NEW d \in Client, NEW u \in Uid, Awaits(d, u), tasks'[d][u] # <<>>
               PROVE  tasks'[d][u][Len(tasks'[d][u])] = latest[u]
    BY <1>11 DEF QueueEndsNewest
  <2>1. CASE d = c /\ u = v
    <3>1. q[Len(q)] = latest[v]
      BY <1>1, <1>3, <2>1 DEF QueueEndsNewest
    <3> QED
      BY <1>1, <1>5, <2>1, <3>1
  <2>2. CASE d # c \/ u # v
    <3>1. tasks'[d][u] = tasks[d][u]
      BY <1>1, <2>2
    <3>2. tasks[d][u] # <<>> => tasks[d][u][Len(tasks[d][u])] = latest[u]
      BY DEF QueueEndsNewest
    <3> QED
      BY <3>1, <3>2
  <2> QED
    BY <2>1, <2>2
<1>10. ShowsNewest'
  <2> SUFFICES ASSUME NEW d \in Client, NEW u \in Uid, Awaits(d, u)', tasks'[d][u] = <<>>
               PROVE  shown'[d][u] = latest'[u] \/ <<d, u>> \in overtaken' \/ ~JsonCarries(latest'[u])
    BY DEF ShowsNewest, JsonCarries
  <2>1. Awaits(d, u) /\ latest' = latest
    BY <1>11
  <2>2. CASE d # c \/ u # v
    BY <1>1, <2>1, <2>2 DEF ShowsNewest
  <2>3. CASE d = c /\ u = v
    <3>1. q[Len(q)] = latest[v]
      BY <1>1, <1>3, <2>1, <2>3 DEF QueueEndsNewest
    <3>2. Head(q) = latest[v]
      BY <1>1, <1>6, <2>3, <3>1
    <3> QED
      BY <1>2, <2>1, <2>3, <3>2
  <2> QED
    BY <2>2, <2>3
<1> QED
  BY <1>0, <1>7, <1>8, <1>9, <1>10

(* The polls: an answer has nothing newer than the newest sample, and one   *)
(* that has something older marks what it overwrites.                       *)
LEMMA PollStep ==
  ASSUME PushInv, NEW c \in Client,
         pollMetadataCatalog(c) \/ \E a \in answers[c] : AnswerArrives(c, a)
  PROVE  PushInv'
<1>0. TypeOK'
  BY PollKeepsTypes DEF PushInv
<1>00. \A u \in Uid : latest[u] \in Nat
  BY PushAssumption DEF PushInv, TypeOK
<1> USE DEF PushInv, Awaits, is_interested
<1>1. CASE pollMetadataCatalog(c)
  <2>1. /\ UNCHANGED <<latest, alive, retained, clients, tasks, shown, mark, overtaken>>
        /\ unread' = {} /\ taken' = taken \cup unread
        /\ \A d \in Client : answers'[d] \subseteq answers[d] \cup {Samples}
    BY <1>1 DEF pollMetadataCatalog, read_samples, TypeOK
  <2>2. \A u \in Uid : Samples[u] <= latest[u]
    BY <1>00 DEF Samples
  <2>3. Bounded'
    BY <2>1, <2>2 DEF Bounded, NewIsSomething
  <2>4. OnlyWanted' /\ QueueEndsNewest' /\ ShowsNewest'
    BY <2>1 DEF OnlyWanted, QueueEndsNewest, ShowsNewest, clients, JsonCarries
  <2> QED
    BY <1>0, <2>3, <2>4
<1>2. ASSUME NEW a \in answers[c], AnswerArrives(c, a) PROVE PushInv'
  <2>1. /\ UNCHANGED <<reader, clients, tasks, mark, taken>>
        /\ \A d \in Client : answers'[d] \subseteq answers[d]
        /\ \A u \in Uid : shown'[c][u] = IF a[u] # 0 THEN a[u] ELSE shown[c][u]
        /\ \A d \in Client \ {c} : shown'[d] = shown[d]
    BY <1>2 DEF AnswerArrives, TypeOK
  <2>2. \A d \in Client, u \in Uid :
          <<d, u>> \in overtaken' <=>
            \/ <<d, u>> \in overtaken /\ (d = c => a[u] # latest[u])
            \/ d = c /\ a[u] # 0 /\ a[u] < shown[c][u]
    BY <1>2 DEF AnswerArrives
  <2>3. \A u \in Uid : a[u] <= latest[u] /\ a[u] \in Nat
    BY DEF Bounded, TypeOK, Answer
  <2>4. Bounded' /\ OnlyWanted' /\ QueueEndsNewest'
    BY <2>1 DEF Bounded, NewIsSomething, OnlyWanted, QueueEndsNewest, reader, clients
  <2>5. ShowsNewest'
    <3> SUFFICES ASSUME NEW d \in Client, NEW u \in Uid, Awaits(d, u)', tasks'[d][u] = <<>>
                 PROVE  \/ shown'[d][u] = latest'[u] \/ <<d, u>> \in overtaken'
                        \/ ~JsonCarries(latest'[u])
      BY DEF ShowsNewest, JsonCarries
    <3>1. Awaits(d, u) /\ latest' = latest /\ tasks[d][u] = <<>>
      BY <2>1 DEF reader, clients
    <3>2. shown[d][u] = latest[u] \/ <<d, u>> \in overtaken \/ ~JsonCarries(latest[u])
      BY <3>1 DEF ShowsNewest
    <3>3. CASE d # c
      BY <2>1, <2>2, <3>1, <3>2, <3>3
    <3>4. CASE d = c
      <4>1. a[u] <= latest[u] /\ a[u] \in Nat /\ latest[u] \in Nat
        BY <1>00, <2>3
      <4>2. CASE a[u] = latest[u]
        <5>1. a[u] # 0
          BY <3>1, <4>1, <4>2 DEF TypeOK
        <5> QED
          BY <2>1, <3>1, <3>4, <4>2, <5>1
      <4>3. CASE a[u] # latest[u] /\ a[u] # 0
        <5>1. a[u] < latest[u]
          BY <4>1, <4>3
        <5>2. CASE shown[c][u] = latest[u]
          BY <2>2, <3>4, <4>3, <5>1, <5>2
        <5>3. CASE <<c, u>> \in overtaken
          BY <2>2, <3>4, <4>3, <5>3
        <5>4. CASE ~JsonCarries(latest[u])
          BY <3>1, <5>4
        <5> QED
          BY <3>2, <3>4, <5>2, <5>3, <5>4
      <4>4. CASE a[u] # latest[u] /\ a[u] = 0
        BY <2>1, <2>2, <3>1, <3>2, <3>4, <4>4
      <4> QED
        BY <4>2, <4>3, <4>4
    <3> QED
      BY <3>3, <3>4
  <2> QED
    BY <1>0, <2>4, <2>5
<1> QED
  BY <1>1, <1>2

(* The inductive invariant holds in every reachable state.                  *)
THEOREM PushInvariant == Spec => []PushInv
<1>1. PushInv /\ [Next]_vars => PushInv'
  <2> SUFFICES ASSUME PushInv, [Next]_vars PROVE PushInv'
    OBVIOUS
  <2>1. CASE UNCHANGED vars
    BY <2>1 DEF vars, reader, clients, pages, history, PushInv, TypeOK, Bounded,
       NewIsSomething, OnlyWanted, QueueEndsNewest, ShowsNewest, Awaits, is_interested,
       JsonCarries, PerUid
  <2> QED
    BY <2>1, ReaderStep, ClientStep, LoopStep, SendStep, PollStep DEF Next
<1> QED
  BY <1>1, InitPush, PTL DEF Spec

(* The types, and that only a connected client has interests and tasks.     *)
THEOREM TypeCorrect == Spec => []TypeOK
<1>1. PushInv => TypeOK
  BY DEF PushInv
<1> QED
  BY <1>1, PushInvariant, PTL

(* PushedOrTaken: a page shows the newest sample since it subscribed once   *)
(* nothing is on its way to it, but for the exceptions Excused names.       *)
THEOREM NewestIsShown == Spec => []PushedOrTaken
<1>1. PushInv => PushedOrTaken
  BY DEF PushInv, ShowsNewest, Awaits, PushedOrTaken, Excused
<1> QED
  BY <1>1, PushInvariant, PTL

(* OnlyWanted (SR-004): nothing is pushed to a client of a uid it does not  *)
(* want but what was forwarded before it dropped it.                        *)
THEOREM NothingUnwanted == Spec => []OnlyWanted
<1>1. PushInv => OnlyWanted
  BY DEF PushInv
<1> QED
  BY <1>1, PushInvariant, PTL

----------------------------------------------------------------------------
(* If only the reader loop reads the topic, as it does SelectedValue when   *)
(* nobody asks over REST, no sample is taken from it and no answer comes    *)
(* after a push.                                                            *)
OnlyTheLoopReads == taken = {} /\ overtaken = {} /\ \A c \in Client : answers[c] = {}

(* Every step keeps it.                                                     *)
LEMMA OnlyTheLoopStep ==
  ASSUME Pollers = {}, ~RestReads, OnlyTheLoopReads, [Next]_vars PROVE OnlyTheLoopReads'
<1> USE DEF OnlyTheLoopReads, reader, clients, pages, history
<1>1. ASSUME NEW u \in Uid, SampleArrives(u) \/ InstanceEnds(u) PROVE OnlyTheLoopReads'
  BY <1>1 DEF SampleArrives, InstanceEnds
<1>2. CASE OtherTagChanges \/ ReaderLoop \/ UNCHANGED vars
  BY <1>2 DEF OtherTagChanges, ReaderLoop, vars
<1>3. ASSUME NEW c \in Client, Connect(c) \/ Disconnect(c) PROVE OnlyTheLoopReads'
  BY <1>3 DEF Connect, Disconnect
<1>4. ASSUME NEW c \in Client, NEW u \in Uid, Subscribe(c, u) \/ Unsubscribe(c, u)
      PROVE  OnlyTheLoopReads'
  BY <1>4 DEF Subscribe, Unsubscribe
<1>5. ASSUME NEW c \in Client, NEW u \in Uid, _ws_send(c, u) PROVE OnlyTheLoopReads'
  <2>1. UNCHANGED <<answers, taken>> /\ overtaken' \subseteq overtaken
    BY <1>5 DEF _ws_send
  <2> QED
    BY <2>1
<1>6. ~get_samples /\ \A c \in Client : ~pollMetadataCatalog(c)
  BY DEF get_samples, pollMetadataCatalog
<1>7. ASSUME NEW c \in Client, NEW a \in answers[c] PROVE FALSE
  BY <1>7
<1> QED
  BY <1>1, <1>2, <1>3, <1>4, <1>5, <1>6, <1>7 DEF Next

(* Then what the loop's comment says is so, and what push_rest shows to     *)
(* fail is the doing of the REST reads: an interested client shows the      *)
(* newest sample once nothing is unread or under way.                       *)
THEOREM LoopAloneForwardsAll ==
  ASSUME Pollers = {}, ~RestReads, NotFinite = {}
  PROVE  Spec => []NewSamplesForwarded
<1>1. Init => OnlyTheLoopReads
  BY DEF Init, OnlyTheLoopReads
<1>2. OnlyTheLoopReads /\ [Next]_vars => OnlyTheLoopReads'
  BY OnlyTheLoopStep
<1>3. PushedOrTaken /\ OnlyTheLoopReads => NewSamplesForwarded
  BY DEF PushedOrTaken, OnlyTheLoopReads, NewSamplesForwarded, Excused, JsonCarries
<1> QED
  BY <1>1, <1>2, <1>3, NewestIsShown, PTL DEF Spec
============================================================================
