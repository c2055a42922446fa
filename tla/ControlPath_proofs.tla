------------------------- MODULE ControlPath_proofs -------------------------
(***************************************************************************)
(* Proofs about ControlPath: for any clients, tags, separations, queue      *)
(* bounds and numbers of crashes, what the selector ends up with once it   *)
(* has handled what is on its way follows the browsers' interest.          *)
(***************************************************************************)
EXTENDS ControlPath, SequenceFacts

Adds(u)         == {IM!AddRequest(u)}
Deletes(u)      == {IM!DeleteRequest(u)}
Sets(p)         == {IM!PeriodRequest(p)}
SetsOther(p)    == {IM!PeriodRequest(q) : q \in Separation \ {p}}

(* What the requests leave of u's selection and of the separation, when     *)
(* nothing more is written.                                                 *)
Selecting(u) == Outcome(requests, Adds(u), Deletes(u), u, ST!selected)
Forcing(p)   == Outcome(requests, Sets(p), SetsOther(p), separation_in_force, {p})

----------------------------------------------------------------------------
(* The commands. *)

(* What is an ADD or a DELETE of u, and what a PERIOD of p or of another.    *)
LEMMA EveryRequest ==
  ASSUME NEW r \in IM!ValueRequest
  PROVE  \/ \E v \in Uid : r = IM!AddRequest(v) \/ r = IM!DeleteRequest(v)
         \/ \E q \in Separation : r = IM!PeriodRequest(q)
BY DEF IM!AddRequest, IM!DeleteRequest, IM!PeriodRequest, IM!ValueRequest

(* What a command says.                                                     *)
LEMMA Fields ==
  /\ \A v : /\ IM!AddRequest(v).op = "ADD" /\ IM!AddRequest(v).uid = v
            /\ IM!DeleteRequest(v).op = "DELETE" /\ IM!DeleteRequest(v).uid = v
  /\ \A q : IM!PeriodRequest(q).op = "PERIOD" /\ IM!PeriodRequest(q).period_ms = q
BY DEF IM!AddRequest, IM!DeleteRequest, IM!PeriodRequest

(* ADD and DELETE of u are requests, told from each other and from the rest *)
(* by op and uid.                                                           *)
LEMMA UidCommands ==
  ASSUME NEW u \in Uid
  PROVE  /\ IM!AddRequest(u) \in IM!ValueRequest /\ IM!DeleteRequest(u) \in IM!ValueRequest
         /\ Adds(u) \cap Deletes(u) = {}
         /\ \A r \in IM!ValueRequest :
              /\ r \in Adds(u) <=> r.op = "ADD" /\ r.uid = u
              /\ r \in Deletes(u) <=> r.op = "DELETE" /\ r.uid = u
<1>1. IM!AddRequest(u) \in IM!ValueRequest /\ IM!DeleteRequest(u) \in IM!ValueRequest
  BY DEF IM!AddRequest, IM!DeleteRequest, IM!ValueRequest
<1>2. ASSUME NEW r \in IM!ValueRequest
      PROVE  /\ r \in Adds(u) <=> r.op = "ADD" /\ r.uid = u
             /\ r \in Deletes(u) <=> r.op = "DELETE" /\ r.uid = u
  BY Fields, EveryRequest DEF Adds, Deletes
<1>3. Adds(u) \cap Deletes(u) = {}
  BY Fields DEF Adds, Deletes
<1> QED
  BY <1>1, <1>2, <1>3

(* PERIOD of p is a request, told from the other PERIODs by its value.      *)
LEMMA PeriodCommands ==
  ASSUME NEW p \in Separation
  PROVE  /\ IM!PeriodRequest(p) \in IM!ValueRequest
         /\ Sets(p) \cap SetsOther(p) = {}
         /\ \A r \in IM!ValueRequest :
              /\ r \in Sets(p) <=> r.op = "PERIOD" /\ r.period_ms = p
              /\ r \in SetsOther(p) <=> r.op = "PERIOD" /\ r.period_ms # p
<1>1. IM!PeriodRequest(p) \in IM!ValueRequest
  BY DEF IM!PeriodRequest, IM!ValueRequest
<1>2. ASSUME NEW r \in IM!ValueRequest
      PROVE  /\ r \in Sets(p) <=> r.op = "PERIOD" /\ r.period_ms = p
             /\ r \in SetsOther(p) <=> r.op = "PERIOD" /\ r.period_ms # p
  <2>1. CASE \E v \in Uid : r = IM!AddRequest(v) \/ r = IM!DeleteRequest(v)
    BY Fields, <2>1 DEF Sets, SetsOther
  <2>2. CASE \E q \in Separation : r = IM!PeriodRequest(q)
    BY Fields, <2>2 DEF Sets, SetsOther
  <2> QED
    BY EveryRequest, <2>1, <2>2
<1>3. Sets(p) \cap SetsOther(p) = {}
  BY Fields DEF Sets, SetsOther
<1> QED
  BY <1>1, <1>2, <1>3

(* A request that joins the others concerns one uid, or the separation.     *)
LEMMA RequestJoins ==
  ASSUME requests \in Seq(IM!ValueRequest), NEW r \in IM!ValueRequest,
         requests' = Append(requests, r), UNCHANGED <<subscriptions, separation_in_force>>
  PROVE  /\ \A u \in Uid : Selecting(u)' <=>
              (r.op = "ADD" /\ r.uid = u) \/ (~(r.op = "DELETE" /\ r.uid = u) /\ Selecting(u))
         /\ \A p \in Separation : Forcing(p)' <=>
              (r.op = "PERIOD" /\ r.period_ms = p) \/ (r.op # "PERIOD" /\ Forcing(p))
<1>1. ASSUME NEW u \in Uid
      PROVE  Selecting(u)' <=>
               (r.op = "ADD" /\ r.uid = u) \/ (~(r.op = "DELETE" /\ r.uid = u) /\ Selecting(u))
  <2>1. Selecting(u)' <=> Outcome(Append(requests, r), Adds(u), Deletes(u), u, ST!selected)
    BY DEF Selecting, ST!selected
  <2>2. /\ Adds(u) \cap Deletes(u) = {}
        /\ r \in Adds(u) <=> r.op = "ADD" /\ r.uid = u
        /\ r \in Deletes(u) <=> r.op = "DELETE" /\ r.uid = u
    BY UidCommands
  <2> QED
    BY <2>1, <2>2, OutcomeOfAppend DEF Selecting
<1>2. ASSUME NEW p \in Separation
      PROVE  Forcing(p)' <=>
               (r.op = "PERIOD" /\ r.period_ms = p) \/ (r.op # "PERIOD" /\ Forcing(p))
  <2>1. Forcing(p)' <=> Outcome(Append(requests, r), Sets(p), SetsOther(p), separation_in_force, {p})
    BY DEF Forcing
  <2>2. /\ Sets(p) \cap SetsOther(p) = {}
        /\ r \in Sets(p) <=> r.op = "PERIOD" /\ r.period_ms = p
        /\ r \in SetsOther(p) <=> r.op = "PERIOD" /\ r.period_ms # p
    BY PeriodCommands
  <2> QED
    BY <2>1, <2>2, OutcomeOfAppend DEF Forcing
<1> QED
  BY <1>1, <1>2

(* Handling a request changes neither: it was counted already.              *)
LEMMA RequestHandled ==
  ASSUME TypeOK, HandleRequest
  PROVE  /\ \A u \in Uid : Selecting(u)' <=> Selecting(u)
         /\ \A p \in Separation : Forcing(p)' <=> Forcing(p)
<1> DEFINE r == Head(requests)
<1>1. /\ requests \in Seq(IM!ValueRequest) /\ requests # <<>> /\ requests' = Tail(requests)
      /\ ST!selected \subseteq Uid
  BY DEF HandleRequest, TypeOK
<1>2. r \in IM!ValueRequest
  BY <1>1, HeadTailProperties
<1>3. \/ r.op = "ADD" /\ ST!add(r.uid) /\ UNCHANGED separation_in_force
      \/ r.op = "DELETE" /\ ST!erase(r.uid) /\ UNCHANGED separation_in_force
      \/ r.op = "PERIOD" /\ ST!set_period(r.period_ms) /\ UNCHANGED subscriptions
  BY DEF HandleRequest
<1> HIDE DEF r
<1>4. ASSUME NEW u \in Uid PROVE Selecting(u)' <=> Selecting(u)
  <2>1. u \in ST!selected' <=> r \in Adds(u) \/ (r \notin Deletes(u) /\ u \in ST!selected)
    <3>1. /\ r \in Adds(u) <=> r.op = "ADD" /\ r.uid = u
          /\ r \in Deletes(u) <=> r.op = "DELETE" /\ r.uid = u
      BY <1>2, UidCommands
    <3>2. CASE r.op = "ADD" /\ ST!add(r.uid)
      BY <3>1, <3>2 DEF ST!add, ST!selected
    <3>3. CASE r.op = "DELETE" /\ ST!erase(r.uid)
      BY <3>1, <3>3 DEF ST!erase, ST!selected
    <3>4. CASE r.op = "PERIOD" /\ UNCHANGED subscriptions
      BY <3>1, <3>4 DEF ST!selected
    <3> QED
      BY <1>3, <3>2, <3>3, <3>4
  <2>2. Adds(u) \cap Deletes(u) = {}
    BY UidCommands
  <2>3. Outcome(requests, Adds(u), Deletes(u), u, ST!selected) <=>
        Outcome(Tail(requests), Adds(u), Deletes(u), u, ST!selected')
    BY <1>1, <2>1, <2>2, OutcomeOfTail DEF r
  <2> QED
    BY <1>1, <2>3 DEF Selecting
<1>5. ASSUME NEW p \in Separation PROVE Forcing(p)' <=> Forcing(p)
  <2>1. separation_in_force' \in {p} <=>
          r \in Sets(p) \/ (r \notin SetsOther(p) /\ separation_in_force \in {p})
    <3>1. /\ r \in Sets(p) <=> r.op = "PERIOD" /\ r.period_ms = p
          /\ r \in SetsOther(p) <=> r.op = "PERIOD" /\ r.period_ms # p
      BY <1>2, PeriodCommands
    <3>2. CASE r.op = "PERIOD" /\ ST!set_period(r.period_ms)
      <4>1. r.period_ms # 0
        BY <1>2, <3>2, EveryRequest, Fields, ControlPathAssumption
      <4> QED
        BY <3>1, <3>2, <4>1 DEF ST!set_period
    <3>3. CASE r.op \in {"ADD", "DELETE"} /\ UNCHANGED separation_in_force
      BY <3>1, <3>3
    <3> QED
      BY <1>3, <3>2, <3>3
  <2>2. Sets(p) \cap SetsOther(p) = {}
    BY PeriodCommands
  <2>3. Outcome(requests, Sets(p), SetsOther(p), separation_in_force, {p}) <=>
        Outcome(Tail(requests), Sets(p), SetsOther(p), separation_in_force', {p})
    BY <1>1, <2>1, <2>2, OutcomeOfTail DEF r
  <2> QED
    BY <1>1, <2>3 DEF Forcing
<1> QED
  BY <1>4, <1>5

(* The command that is being sent is the last of the pipeline.              *)
LEMMA PipelineIs ==
  ASSUME TypeOK
  PROVE  /\ Pipeline \in Seq(IM!ValueRequest)
         /\ sending = <<>> => Pipeline = requests
         /\ \A r \in IM!ValueRequest : sending = <<r>> => Pipeline = Append(requests, r)
<1>1. /\ requests \in Seq(IM!ValueRequest)
      /\ sending \in {<<>>} \cup {<<r>> : r \in IM!ValueRequest}
  BY DEF TypeOK, IM!TypeOK
<1>2. CASE sending = <<>>
  <2>1. Pipeline = requests
    BY <1>1, <1>2, ConcatEmptySeq DEF Pipeline
  <2> QED
    BY <1>1, <1>2, <2>1
<1>3. ASSUME NEW r \in IM!ValueRequest, sending = <<r>>
      PROVE  Pipeline \in Seq(IM!ValueRequest) /\ Pipeline = Append(requests, r)
  <2>1. Pipeline = Append(requests, r)
    BY <1>1, <1>3, ConcatOfOne DEF Pipeline
  <2> QED
    BY <1>1, <2>1, AppendOf
<1> QED
  BY <1>1, <1>2, <1>3

(* The selection of u that the pipeline leads to, by what is being sent and *)
(* what the requests lead to.                                               *)
LEMMA WillSelectIs ==
  ASSUME TypeOK, NEW u \in Uid
  PROVE  WillSelect(u) <=>
           sending = <<IM!AddRequest(u)>> \/ (sending # <<IM!DeleteRequest(u)>> /\ Selecting(u))
<1>1. WillSelect(u) <=> Outcome(Pipeline, Adds(u), Deletes(u), u, ST!selected)
  <2>1. /\ Concludes("ADD", u) <=> LastIn(Pipeline, Adds(u), Deletes(u))
        /\ Concludes("DELETE", u) <=> LastIn(Pipeline, Deletes(u), Adds(u))
    BY DEF Concludes, LastIn, Adds, Deletes, IM!AddRequest, IM!DeleteRequest
  <2> QED
    BY <2>1 DEF WillSelect, Outcome
<1>2. CASE sending = <<>>
  <2>1. sending # <<IM!AddRequest(u)>> /\ sending # <<IM!DeleteRequest(u)>>
    BY <1>2
  <2> QED
    BY <1>1, <1>2, <2>1, PipelineIs DEF Selecting
<1>3. ASSUME NEW r \in IM!ValueRequest, sending = <<r>>
      PROVE  WillSelect(u) <=> r \in Adds(u) \/ (r \notin Deletes(u) /\ Selecting(u))
  <2>1. Pipeline = Append(requests, r) /\ requests \in Seq(IM!ValueRequest)
    BY <1>3, PipelineIs DEF TypeOK
  <2>2. Adds(u) \cap Deletes(u) = {}
    BY UidCommands
  <2>3. Outcome(Append(requests, r), Adds(u), Deletes(u), u, ST!selected) <=>
          r \in Adds(u) \/ (r \notin Deletes(u) /\ Selecting(u))
    BY <2>1, <2>2, OutcomeOfAppend DEF Selecting
  <2> QED
    BY <1>1, <2>1, <2>3
<1>4. ASSUME NEW r \in IM!ValueRequest, sending = <<r>>
      PROVE  /\ sending = <<IM!AddRequest(u)>> <=> r \in Adds(u)
             /\ sending = <<IM!DeleteRequest(u)>> <=> r \in Deletes(u)
  <2>1. sending[1] = r /\ \A a, b : <<a>> = <<b>> <=> a = b
    BY <1>4
  <2> QED
    BY <1>4, <2>1 DEF Adds, Deletes
<1>5. sending = <<>> \/ \E r \in IM!ValueRequest : sending = <<r>>
  BY DEF TypeOK, IM!TypeOK
<1> QED
  BY <1>2, <1>3, <1>4, <1>5

(* The same of the separation, if what is being sent is the separation p.   *)
LEMMA WillForceIs ==
  ASSUME TypeOK, NEW p \in Separation,
         \A q \in Separation : sending = <<IM!PeriodRequest(q)>> => q = p
  PROVE  WillForceSeparation(p) <=> sending = <<IM!PeriodRequest(p)>> \/ Forcing(p)
<1> DEFINE periods == {i \in 1 .. Len(Pipeline) : Pipeline[i].op = "PERIOD"}
<1>0. /\ Pipeline \in Seq(IM!ValueRequest) /\ Len(Pipeline) \in Nat
      /\ \A i \in 1 .. Len(Pipeline) : Pipeline[i] \in IM!ValueRequest
  BY PipelineIs, DomainOf, ElementOfSeq
<1>1. \A i \in 1 .. Len(Pipeline) :
        /\ Pipeline[i] \in Sets(p) <=> Pipeline[i].op = "PERIOD" /\ Pipeline[i].period_ms = p
        /\ Pipeline[i] \in SetsOther(p) <=> Pipeline[i].op = "PERIOD" /\ Pipeline[i].period_ms # p
  BY <1>0, PeriodCommands
<1>2. WillForceSeparation(p) <=>
        Outcome(Pipeline, Sets(p), SetsOther(p), separation_in_force, {p})
  <2>1. CASE periods = {}
    <3>1. ~LastIn(Pipeline, Sets(p), SetsOther(p)) /\ ~LastIn(Pipeline, SetsOther(p), Sets(p))
      BY <1>1, <2>1 DEF LastIn
    <3> QED
      BY <2>1, <3>1 DEF WillForceSeparation, Outcome
  <2>2. CASE periods # {}
    <3> DEFINE i == CHOOSE i \in periods : \A j \in periods : j <= i
    <3>1. i \in periods /\ \A j \in periods : j <= i
      <4>1. \E k \in periods : \A j \in periods : j <= k
        <5> HIDE DEF periods
        <5>1. periods \subseteq 1 .. Len(Pipeline)
          BY DEF periods
        <5> QED
          BY <1>0, <2>2, <5>1, GreatestOf
      <4> QED
        BY <4>1
    <3>2. WillForceSeparation(p) <=> Pipeline[i].period_ms = p
      BY <2>2 DEF WillForceSeparation
    <3> HIDE DEF i
    <3>3. i \in 1 .. Len(Pipeline) /\ Pipeline[i].op = "PERIOD"
      BY <3>1
    <3>4. \A j \in i + 1 .. Len(Pipeline) : Pipeline[j] \notin Sets(p) \cup SetsOther(p)
      <4> SUFFICES ASSUME NEW j \in i + 1 .. Len(Pipeline)
                   PROVE  Pipeline[j].op # "PERIOD" /\ j \in 1 .. Len(Pipeline)
        BY <1>1
      <4>1. j \in 1 .. Len(Pipeline) /\ ~(j <= i)
        BY <1>0, <3>3
      <4> QED
        BY <3>1, <4>1
    <3>5. CASE Pipeline[i].period_ms = p
      <4>1. LastIn(Pipeline, Sets(p), SetsOther(p))
        BY <1>1, <3>3, <3>4, <3>5 DEF LastIn
      <4> QED
        BY <3>2, <3>5, <4>1 DEF Outcome
    <3>6. CASE Pipeline[i].period_ms # p
      <4>1. LastIn(Pipeline, SetsOther(p), Sets(p))
        BY <1>1, <3>3, <3>4, <3>6 DEF LastIn
      <4>2. Sets(p) \cap SetsOther(p) = {}
        BY PeriodCommands
      <4>3. ~LastIn(Pipeline, Sets(p), SetsOther(p))
        BY <1>0, <4>1, <4>2, OnlyOneIsLast
      <4> QED
        BY <3>2, <3>6, <4>1, <4>3 DEF Outcome
    <3> QED
      BY <3>5, <3>6
  <2> QED
    BY <2>1, <2>2
<1> HIDE DEF periods
<1>3. CASE sending = <<>>
  <2>1. sending # <<IM!PeriodRequest(p)>>
    BY <1>3
  <2> QED
    BY <1>2, <1>3, <2>1, PipelineIs DEF Forcing
<1>4. ASSUME NEW r \in IM!ValueRequest, sending = <<r>>
      PROVE  /\ WillForceSeparation(p) <=> r \in Sets(p) \/ Forcing(p)
             /\ sending = <<IM!PeriodRequest(p)>> <=> r \in Sets(p)
  <2>1. Pipeline = Append(requests, r) /\ requests \in Seq(IM!ValueRequest)
    BY <1>4, PipelineIs DEF TypeOK
  <2>2. Sets(p) \cap SetsOther(p) = {}
    BY PeriodCommands
  <2>3. sending[1] = r /\ \A a, b : <<a>> = <<b>> <=> a = b
    BY <1>4
  <2>4. r \notin SetsOther(p)
    BY <1>4, <2>3 DEF SetsOther
  <2>5. sending = <<IM!PeriodRequest(p)>> <=> r \in Sets(p)
    BY <1>4, <2>3 DEF Sets
  <2> QED
    BY <1>2, <2>1, <2>2, <2>4, <2>5, OutcomeOfAppend DEF Forcing
<1>5. sending = <<>> \/ \E r \in IM!ValueRequest : sending = <<r>>
  BY DEF TypeOK, IM!TypeOK
<1> QED
  BY <1>3, <1>4, <1>5

----------------------------------------------------------------------------
(* The statuses. *)

ChangedStatus == [count : Nat, change : {-1, 1}]

AheadIn(s)    == \E i \in 1 .. Len(s) : ZeroToN(s[i])
LaterAhead(s) == \E i \in 1 .. Len(s) : i # 1 /\ ZeroToN(s[i])

(* A status that joins the others takes none of them away.                  *)
LEMMA StatusJoins ==
  ASSUME NEW s \in Seq(ChangedStatus), NEW m \in ChangedStatus
  PROVE  /\ Append(s, m) \in Seq(ChangedStatus) /\ Append(s, m) # <<>>
         /\ AheadIn(s) \/ ZeroToN(m) => AheadIn(Append(s, m))
         /\ LaterAhead(s) \/ (s # <<>> /\ ZeroToN(m)) => LaterAhead(Append(s, m))
<1>1. /\ Append(s, m) \in Seq(ChangedStatus) /\ Append(s, m) # <<>>
      /\ Len(Append(s, m)) = Len(s) + 1 /\ Append(s, m)[Len(s) + 1] = m
      /\ \A i \in DOMAIN s : Append(s, m)[i] = s[i]
  BY AppendOf
<1>2. Len(s) \in Nat /\ DOMAIN s = 1 .. Len(s) /\ (s # <<>> => Len(s) # 0)
  BY DomainOf
<1>3. \A i \in 1 .. Len(s) : i \in 1 .. Len(Append(s, m)) /\ Append(s, m)[i] = s[i]
  BY <1>1, <1>2
<1>4. Len(s) + 1 \in 1 .. Len(Append(s, m)) /\ (s # <<>> => Len(s) + 1 # 1)
  BY <1>1, <1>2
<1> QED
  BY <1>1, <1>3, <1>4 DEF AheadIn, LaterAhead

(* The one that leaves is the oldest.                                       *)
LEMMA StatusLeaves ==
  ASSUME NEW s \in Seq(ChangedStatus), s # <<>>
  PROVE  /\ Tail(s) \in Seq(ChangedStatus) /\ Head(s) \in ChangedStatus
         /\ AheadIn(s) => ZeroToN(Head(s)) \/ AheadIn(Tail(s))
         /\ LaterAhead(s) => AheadIn(Tail(s))
<1>1. /\ Tail(s) \in Seq(ChangedStatus) /\ Head(s) = s[1] /\ Head(s) \in ChangedStatus
      /\ DOMAIN s = 1 .. Len(s) /\ DOMAIN Tail(s) = 1 .. Len(Tail(s))
      /\ \A i \in DOMAIN s : i # 1 => i - 1 \in DOMAIN Tail(s) /\ Tail(s)[i - 1] = s[i]
  BY TailOf, DomainOf, HeadTailProperties
<1> QED
  BY <1>1 DEF AheadIn, LaterAhead

----------------------------------------------------------------------------
(* The inductive invariant. *)

(* No client is served, and nothing sent for one, before start returns.     *)
NothingYet == writer # "ready" => sending = <<>> /\ leaving = {} /\ IM!active_uids = {}

(* A handler sends what is still true when its callback runs: the listener  *)
(* thread changes no interest.                                              *)
SendsTrue ==
  /\ \A u \in Uid : /\ sending = <<IM!AddRequest(u)>> => u \in IM!active_uids
                    /\ sending = <<IM!DeleteRequest(u)>> => u \notin IM!active_uids
  /\ \A p \in Separation : sending = <<IM!PeriodRequest(p)>> => p = min_separation_ms

(* What a selector that is down or not yet matched has, and the status the  *)
(* listener thread is about to put away.                                    *)
Processes ==
  /\ ~up => requests = <<>>
  /\ RestartAfterLease /\ up /\ ~linked => dead = 0
  /\ replay.pc = "holding" => matches # <<>>

(* The uids that an unmatched selector keeps are its own or known leftovers; *)
(* those of a matched one may also be wanted, or about to be deleted.       *)
Accounted(u) ==
  up /\ Selecting(u) =>
    \/ u \in PreEnabled \cup excess
    \/ linked /\ (u \in IM!active_uids \/ sending = <<IM!DeleteRequest(u)>>)

(* A replay of u is certain.  A status being put away does not count, for    *)
(* it may be stranded.                                                      *)
Promised(u) ==
  \/ IF replay.pc = "holding" THEN LaterAhead(matches) ELSE AheadIn(matches)
  \/ replay.pc \in {"period", "reconcile"} \/ u \in replay.uids

Reached(u) ==
  linked /\ u \in IM!active_uids \ missing =>
    sending = <<IM!AddRequest(u)>> \/ Selecting(u) \/ Promised(u)

Forced ==
  linked => \/ sending = <<IM!PeriodRequest(min_separation_ms)>> \/ Forcing(min_separation_ms)
            \/ AheadIn(matches) \/ AheadIn(pending) \/ replay.pc = "period"
            \/ stale_period # "no"

IInv ==
  /\ TypeOK /\ NothingYet /\ SendsTrue /\ Processes
  /\ \A u \in Uid : Accounted(u)
  /\ RestartAfterLease => Forced /\ \A u \in Uid : Reached(u)

(* It says what the properties say.                                         *)
LEMMA InvImplies ==
  ASSUME IInv
  PROVE  /\ TypeOK /\ NothingElseForwarded
         /\ RestartAfterLease => NoBlankDisplay /\ SeparationFollows
<1>1. NothingElseForwarded
  <2> SUFFICES ASSUME linked, NEW u \in Uid, WillSelect(u)
               PROVE  u \in IM!active_uids \cup PreEnabled \cup excess
    BY DEF NothingElseForwarded
  <2>1. TypeOK /\ up /\ Accounted(u) /\ SendsTrue
    BY DEF IInv, TypeOK
  <2>2. sending = <<IM!AddRequest(u)>> \/ (sending # <<IM!DeleteRequest(u)>> /\ Selecting(u))
    BY <2>1, WillSelectIs
  <2> QED
    BY <2>1, <2>2 DEF Accounted, SendsTrue
<1>2. ASSUME RestartAfterLease PROVE NoBlankDisplay
  <2> SUFFICES ASSUME linked, NEW u \in IM!active_uids \ missing
               PROVE  WillSelect(u) \/ WillReplay(u)
    BY DEF NoBlankDisplay
  <2>1. u \in Uid /\ TypeOK /\ Reached(u) /\ SendsTrue
    BY <1>2 DEF IInv, IM!active_uids
  <2>2. WillSelect(u) <=>
          sending = <<IM!AddRequest(u)>> \/ (sending # <<IM!DeleteRequest(u)>> /\ Selecting(u))
    BY <2>1, WillSelectIs
  <2>3. sending # <<IM!DeleteRequest(u)>>
    BY <2>1 DEF SendsTrue
  <2>4. Promised(u) => WillReplay(u)
    BY <2>1 DEF Promised, WillReplay, ReplayAhead, AheadIn, LaterAhead, TypeOK
  <2> QED
    BY <2>1, <2>2, <2>3, <2>4 DEF Reached
<1>3. ASSUME RestartAfterLease PROVE SeparationFollows
  <2> SUFFICES ASSUME linked
               PROVE  \/ WillForceSeparation(min_separation_ms)
                      \/ ReplayAhead \/ replay.pc = "period" \/ stale_period # "no"
    BY DEF SeparationFollows
  <2>1. TypeOK /\ SendsTrue /\ Forced /\ min_separation_ms \in Separation
    BY <1>3 DEF IInv, TypeOK, IM!TypeOK
  <2>2. WillForceSeparation(min_separation_ms) <=>
          sending = <<IM!PeriodRequest(min_separation_ms)>> \/ Forcing(min_separation_ms)
    BY <2>1, WillForceIs DEF SendsTrue
  <2>3. AheadIn(matches) \/ AheadIn(pending) => ReplayAhead
    BY DEF ReplayAhead, AheadIn
  <2> QED
    BY <2>1, <2>2, <2>3 DEF Forced
<1> QED
  BY <1>1, <1>2, <1>3 DEF IInv

(* It holds when both processes start.                                      *)
LEMMA InitInv == Init => IInv
<1> SUFFICES ASSUME Init PROVE IInv
  OBVIOUS
<1>1. /\ ws_clients = {} /\ uids = [c \in Client |-> {}] /\ refcounts = [u \in Uid |-> 0]
      /\ min_separation_ms = InitialSeparation /\ leaving = {} /\ sending = <<>> /\ told = {}
      /\ writer = "creating" /\ pending = <<>> /\ matches = <<>> /\ replay = NoReplay
      /\ linked = FALSE /\ dead = 0 /\ requests = <<>> /\ up = FALSE
      /\ subscriptions = ST!range_enabled /\ separation_in_force = default_min_separation_ms
      /\ missing = {} /\ excess = {} /\ stale_period = "no"
  BY DEF Init, IM!Init, ST!Init
<1>2. IM!active_uids = {}
  BY <1>1 DEF IM!active_uids
<1>3. TypeOK
  <2>1. IM!TypeOK
    BY <1>1, ControlPathAssumption DEF IM!TypeOK
  <2>2. matches \in Seq(ChangedStatus) /\ pending \in Seq(ChangedStatus)
    BY <1>1, EmptySeq
  <2>3. requests \in Seq(IM!ValueRequest)
    BY <1>1, EmptySeq
  <2>4. replay \in [pc : {"idle", "holding", "period", "reconcile", "adds"},
                   period : Separation, uids : SUBSET Uid]
        /\ (replay.pc = "adds" <=> replay.uids # {})
    BY <1>1, ControlPathAssumption DEF NoReplay
  <2>5. ST!selected \subseteq Uid /\ separation_in_force \in Nat
    BY <1>1, ControlPathAssumption DEF ST!selected, ST!range_enabled
  <2> QED
    BY <1>1, <2>1, <2>2, <2>3, <2>4, <2>5 DEF TypeOK, ChangedStatus
<1>4. SendsTrue
  BY <1>1 DEF SendsTrue
<1> QED
  BY <1>1, <1>2, <1>3, <1>4 DEF IInv, NothingYet, Processes, Accounted, Reached, Forced, NoReplay

(* No command is another.                                                   *)
LEMMA Sendings ==
  ASSUME NEW u, NEW v, NEW p, NEW q
  PROVE  /\ <<IM!AddRequest(u)>> # <<IM!DeleteRequest(v)>>
         /\ <<IM!AddRequest(u)>> # <<IM!PeriodRequest(p)>>
         /\ <<IM!DeleteRequest(u)>> # <<IM!PeriodRequest(p)>>
         /\ <<IM!AddRequest(u)>> = <<IM!AddRequest(v)>> => u = v
         /\ <<IM!DeleteRequest(u)>> = <<IM!DeleteRequest(v)>> => u = v
         /\ <<IM!PeriodRequest(p)>> = <<IM!PeriodRequest(q)>> => p = q
         /\ <<>> \notin {<<IM!AddRequest(u)>>, <<IM!DeleteRequest(u)>>, <<IM!PeriodRequest(p)>>}
<1>1. \A a, b : <<a>> = <<b>> => a = b
  OBVIOUS
<1>2. \A a : <<>> # <<a>>
  OBVIOUS
<1> QED
  BY <1>1, <1>2, Fields

(* Requests that stay as they are come out the same.                        *)
LEMMA Untouched ==
  ASSUME UNCHANGED <<requests, subscriptions, separation_in_force>>
  PROVE  /\ \A u : Selecting(u)' <=> Selecting(u)
         /\ \A p : Forcing(p)' <=> Forcing(p)
BY DEF Selecting, Forcing, ST!selected

----------------------------------------------------------------------------
(* The asyncio thread. *)

(* What a handler does to the interest and to what is sent for it: nothing, *)
(* or a uid gains its first watcher or loses its last, or the separation is *)
(* another.                                                                 *)
WebOperation ==
  \/ \E c \in Client : IM!Connect(c) \/ IM!Disconnect(c)
  \/ \E c \in Client, u \in Uid : IM!Subscribe(c, u) \/ IM!Unsubscribe(c, u)
  \/ \E p \in Separation : IM!SetMinSeparation(p)
  \/ \E u \in Uid : IM!ReleaseNext(u)

WebEffect ==
  \/ UNCHANGED <<IM!active_uids, sending, min_separation_ms>>
  \/ \E u \in Uid :
       /\ IM!active_uids' = IM!active_uids \cup {u} /\ min_separation_ms' = min_separation_ms
       /\ sending' = <<IM!AddRequest(u)>>
  \/ \E u \in Uid :
       /\ IM!active_uids' = IM!active_uids \ {u} /\ min_separation_ms' = min_separation_ms
       /\ sending' = <<IM!DeleteRequest(u)>>
  \/ \E p \in Separation :
       /\ IM!active_uids' = IM!active_uids /\ min_separation_ms' = p
       /\ sending' = <<IM!PeriodRequest(p)>>

(* A watcher less: nothing is sent, or a DELETE of a tag that has no        *)
(* watcher now.                                                             *)
LEMMA Released ==
  ASSUME IM!TypeOK, NEW u \in Uid, IM!release(u), sending = <<>>, UNCHANGED min_separation_ms
  PROVE  /\ refcounts' \in [Uid -> Nat] /\ sending' \in {<<>>, <<IM!DeleteRequest(u)>>}
         /\ WebEffect
<1>1. /\ refcounts \in [Uid -> Nat]
      /\ refcounts' = [refcounts EXCEPT ![u] = IF refcounts[u] - 1 <= 0 THEN 0 ELSE refcounts[u] - 1]
      /\ sending' = IF refcounts[u] - 1 <= 0 THEN <<IM!DeleteRequest(u)>> ELSE <<>>
  BY DEF IM!release, IM!TypeOK
<1>2. CASE refcounts[u] - 1 <= 0
  <2>1. /\ refcounts' \in [Uid -> Nat] /\ refcounts'[u] = 0
        /\ \A v \in Uid \ {u} : refcounts'[v] = refcounts[v]
    BY <1>1, <1>2
  <2>2. IM!active_uids' = IM!active_uids \ {u}
    BY <2>1 DEF IM!active_uids
  <2> QED
    BY <1>1, <1>2, <2>1, <2>2 DEF WebEffect
<1>3. CASE ~(refcounts[u] - 1 <= 0)
  <2>1. /\ refcounts' \in [Uid -> Nat] /\ refcounts'[u] > 0 /\ refcounts[u] > 0
        /\ \A v \in Uid \ {u} : refcounts'[v] = refcounts[v]
    BY <1>1, <1>3
  <2>2. IM!active_uids' = IM!active_uids
    BY <2>1 DEF IM!active_uids
  <2> QED
    BY <1>1, <1>3, <2>1, <2>2 DEF WebEffect
<1> QED
  BY <1>2, <1>3

(* Every handler has one of these effects, and starts with nothing being    *)
(* sent.                                                                    *)
LEMMA WebEffects ==
  ASSUME IM!TypeOK, WebOperation
  PROVE  IM!TypeOK' /\ WebEffect /\ sending = <<>>
<1>1. ASSUME NEW u \in Uid
      PROVE  IM!AddRequest(u) \in IM!ValueRequest /\ IM!DeleteRequest(u) \in IM!ValueRequest
  BY UidCommands
<1>2. ASSUME NEW c \in Client, IM!Connect(c) \/ IM!Disconnect(c)
      PROVE  IM!TypeOK' /\ WebEffect /\ sending = <<>>
  <2>1. /\ UNCHANGED <<refcounts, sending, min_separation_ms, told>> /\ sending = <<>>
        /\ ws_clients' \subseteq Client /\ uids' \in [Client -> SUBSET Uid] /\ leaving' \subseteq Uid
    BY <1>2 DEF IM!Connect, IM!Disconnect, IM!Idle, IM!TypeOK
  <2> QED
    BY <2>1 DEF IM!TypeOK, WebEffect, IM!active_uids
<1>3. ASSUME NEW c \in Client, NEW u \in Uid, IM!Subscribe(c, u)
      PROVE  IM!TypeOK' /\ WebEffect /\ sending = <<>>
  <2>1. /\ refcounts \in [Uid -> Nat] /\ refcounts' = [refcounts EXCEPT ![u] = @ + 1]
        /\ sending' = IF refcounts'[u] = 1 THEN <<IM!AddRequest(u)>> ELSE <<>>
        /\ UNCHANGED <<ws_clients, min_separation_ms, leaving, told>> /\ sending = <<>>
        /\ uids' \in [Client -> SUBSET Uid]
    BY <1>3 DEF IM!Subscribe, IM!client_subscribe, IM!Idle, IM!TypeOK
  <2>2. /\ refcounts' \in [Uid -> Nat] /\ refcounts'[u] = refcounts[u] + 1 /\ refcounts'[u] > 0
        /\ \A v \in Uid \ {u} : refcounts'[v] = refcounts[v]
        /\ refcounts'[u] # 1 => refcounts[u] > 0
    BY <2>1
  <2>3. IM!TypeOK'
    BY <1>1, <2>1, <2>2 DEF IM!TypeOK
  <2>4. IM!active_uids' = IM!active_uids \cup {u}
    BY <2>2 DEF IM!active_uids
  <2>5. refcounts'[u] # 1 => IM!active_uids' = IM!active_uids
    BY <2>2, <2>4 DEF IM!active_uids
  <2> QED
    BY <2>1, <2>3, <2>4, <2>5 DEF WebEffect
<1>4. ASSUME NEW c \in Client, NEW u \in Uid, IM!Unsubscribe(c, u)
      PROVE  IM!TypeOK' /\ WebEffect /\ sending = <<>>
  <2>1. /\ IM!release(u) /\ uids' \in [Client -> SUBSET Uid]
        /\ UNCHANGED <<ws_clients, min_separation_ms, leaving, told>> /\ sending = <<>>
    BY <1>4 DEF IM!Unsubscribe, IM!client_unsubscribe, IM!Idle, IM!TypeOK
  <2>2. /\ refcounts' \in [Uid -> Nat] /\ sending' \in {<<>>, <<IM!DeleteRequest(u)>>}
        /\ WebEffect
    BY <2>1, Released
  <2> QED
    BY <1>1, <2>1, <2>2 DEF IM!TypeOK
<1>5. ASSUME NEW p \in Separation, IM!SetMinSeparation(p)
      PROVE  IM!TypeOK' /\ WebEffect /\ sending = <<>>
  <2>1. /\ sending = <<>> /\ sending' = <<IM!PeriodRequest(p)>> /\ min_separation_ms' = p
        /\ UNCHANGED <<ws_clients, uids, refcounts, leaving, told>>
    BY <1>5 DEF IM!SetMinSeparation, IM!Idle
  <2>2. IM!PeriodRequest(p) \in IM!ValueRequest
    BY PeriodCommands
  <2> QED
    BY <2>1, <2>2 DEF IM!TypeOK, WebEffect, IM!active_uids
<1>6. ASSUME NEW u \in Uid, IM!ReleaseNext(u)
      PROVE  IM!TypeOK' /\ WebEffect /\ sending = <<>>
  <2>1. /\ IM!release(u) /\ leaving' \subseteq Uid
        /\ UNCHANGED <<ws_clients, uids, min_separation_ms, told>> /\ sending = <<>>
    BY <1>6 DEF IM!ReleaseNext, IM!TypeOK
  <2>2. /\ refcounts' \in [Uid -> Nat] /\ sending' \in {<<>>, <<IM!DeleteRequest(u)>>}
        /\ WebEffect
    BY <2>1, Released
  <2> QED
    BY <1>1, <2>1, <2>2 DEF IM!TypeOK
<1> QED
  BY <1>2, <1>3, <1>4, <1>5, <1>6 DEF WebOperation

(* A handler keeps the invariant.                                           *)
LEMMA WebOperationStep == ASSUME IInv, WebStep(WebOperation) PROVE IInv'
<1> USE DEF IInv
<1>1. /\ writer = "ready" /\ WebOperation
      /\ UNCHANGED <<writer, pending, matches, replay, linked, dead, requests, up, subscriptions,
                     separation_in_force, missing, excess, stale_period>>
  BY DEF WebStep, gateway, listener, selector, history
<1>2. IM!TypeOK' /\ WebEffect /\ sending = <<>>
  BY <1>1, WebEffects DEF TypeOK
<1>3. /\ \A u : Selecting(u)' <=> Selecting(u)
      /\ \A p : Forcing(p)' <=> Forcing(p)
      /\ \A u : Promised(u)' <=> Promised(u)
  BY <1>1, Untouched DEF Promised, AheadIn, LaterAhead
<1>4. TypeOK' /\ NothingYet' /\ Processes'
  BY <1>1, <1>2 DEF TypeOK, NothingYet, Processes, ST!selected
<1>5. CASE UNCHANGED <<IM!active_uids, sending, min_separation_ms>>
  <2>1. SendsTrue' /\ (\A u \in Uid : Accounted(u)') /\ (\A u \in Uid : Reached(u) => Reached(u)')
    BY <1>1, <1>2, <1>3, <1>5 DEF SendsTrue, Accounted, Reached
  <2>2. Forced => Forced'
    BY <1>1, <1>2, <1>3, <1>5 DEF Forced, AheadIn
  <2> QED
    BY <1>4, <2>1, <2>2
<1>6. ASSUME NEW u \in Uid, IM!active_uids' = IM!active_uids \cup {u},
             min_separation_ms' = min_separation_ms, sending' = <<IM!AddRequest(u)>>
      PROVE  IInv'
  <2>1. /\ \A v : sending' = <<IM!AddRequest(v)>> => v = u
        /\ \A v : sending' # <<IM!DeleteRequest(v)>>
        /\ \A p : sending' # <<IM!PeriodRequest(p)>>
        /\ \A v : sending # <<IM!DeleteRequest(v)>> /\ sending # <<IM!AddRequest(v)>>
        /\ \A p : sending # <<IM!PeriodRequest(p)>>
    BY <1>2, <1>6, Sendings
  <2>2. SendsTrue' /\ (\A v \in Uid : Accounted(v)')
    BY <1>1, <1>3, <1>6, <2>1 DEF SendsTrue, Accounted
  <2>3. \A v \in Uid : Reached(v) => Reached(v)'
    BY <1>1, <1>3, <1>6, <2>1 DEF Reached
  <2>4. Forced => Forced'
    BY <1>1, <1>3, <1>6, <2>1 DEF Forced, AheadIn
  <2> QED
    BY <1>1, <1>4, <2>2, <2>3, <2>4
<1>7. ASSUME NEW u \in Uid, IM!active_uids' = IM!active_uids \ {u},
             min_separation_ms' = min_separation_ms, sending' = <<IM!DeleteRequest(u)>>
      PROVE  IInv'
  <2>1. /\ \A v : sending' = <<IM!DeleteRequest(v)>> => v = u
        /\ \A v : sending' # <<IM!AddRequest(v)>>
        /\ \A p : sending' # <<IM!PeriodRequest(p)>>
        /\ \A v : sending # <<IM!DeleteRequest(v)>> /\ sending # <<IM!AddRequest(v)>>
        /\ \A p : sending # <<IM!PeriodRequest(p)>>
    BY <1>2, <1>7, Sendings
  <2>2. SendsTrue' /\ (\A v \in Uid : Accounted(v)')
    BY <1>1, <1>3, <1>7, <2>1 DEF SendsTrue, Accounted
  <2>3. \A v \in Uid : Reached(v) => Reached(v)'
    BY <1>1, <1>3, <1>7, <2>1 DEF Reached
  <2>4. Forced => Forced'
    BY <1>1, <1>3, <1>7, <2>1 DEF Forced, AheadIn
  <2> QED
    BY <1>1, <1>4, <2>2, <2>3, <2>4
<1>8. ASSUME NEW p \in Separation, IM!active_uids' = IM!active_uids,
             min_separation_ms' = p, sending' = <<IM!PeriodRequest(p)>>
      PROVE  IInv'
  <2>1. /\ \A v : sending' # <<IM!DeleteRequest(v)>> /\ sending' # <<IM!AddRequest(v)>>
        /\ \A q : sending' = <<IM!PeriodRequest(q)>> => q = p
        /\ \A v : sending # <<IM!DeleteRequest(v)>> /\ sending # <<IM!AddRequest(v)>>
    BY <1>2, <1>8, Sendings
  <2>2. SendsTrue' /\ (\A v \in Uid : Accounted(v)')
    BY <1>1, <1>3, <1>8, <2>1 DEF SendsTrue, Accounted
  <2>3. \A v \in Uid : Reached(v) => Reached(v)'
    BY <1>1, <1>3, <1>8, <2>1 DEF Reached
  <2>4. Forced'
    BY <1>8 DEF Forced
  <2> QED
    BY <1>1, <1>4, <2>2, <2>3, <2>4
<1> QED
  BY <1>2, <1>5, <1>6, <1>7, <1>8 DEF WebEffect

(* A write, made or raised: what it does to the requests, and to the        *)
(* history, by the kind of request.                                         *)
WrittenOut(r) == requests' = IF linked THEN Append(requests, r) ELSE requests

(* A write is made, or raises.                                              *)
LEMMA WriteIsOneOf ==
  ASSUME NEW r, NEW wanted, Write(r, wanted)
  PROVE  \/ WrittenOut(r) /\ Accounts(r, wanted)
         \/ UNCHANGED requests /\ RaisedAccounts(r)
BY DEF Write, Written, Raised, WrittenOut

(* What a write, made or raised, does to the outcomes: nothing to those it  *)
(* does not name.                                                           *)
LEMMA Carried ==
  ASSUME TypeOK, NEW r \in IM!ValueRequest, WrittenOut(r) \/ UNCHANGED requests,
         UNCHANGED <<subscriptions, separation_in_force, linked, up>>
  PROVE  /\ requests' \in Seq(IM!ValueRequest)
         /\ ~linked => requests' = requests
         /\ \A u \in Uid : (r.op = "PERIOD" \/ r.uid # u) => (Selecting(u)' <=> Selecting(u))
         /\ \A p \in Separation : r.op # "PERIOD" => (Forcing(p)' <=> Forcing(p))
         /\ ~linked \/ requests' = requests =>
              /\ \A u \in Uid : Selecting(u)' <=> Selecting(u)
              /\ \A p \in Separation : Forcing(p)' <=> Forcing(p)
         /\ WrittenOut(r) /\ linked =>
              /\ \A u \in Uid : r.op = "ADD" /\ r.uid = u => Selecting(u)'
              /\ \A u \in Uid : r.op = "DELETE" /\ r.uid = u => ~Selecting(u)'
              /\ \A p \in Separation : r.op = "PERIOD" /\ r.period_ms = p => Forcing(p)'
<1>0. requests \in Seq(IM!ValueRequest) /\ r.op \in {"ADD", "DELETE", "PERIOD"}
  BY EveryRequest, Fields DEF TypeOK
<1>1. CASE requests' = requests
  <2>1. /\ \A u : Selecting(u)' <=> Selecting(u)
        /\ \A p : Forcing(p)' <=> Forcing(p)
    BY <1>1, Untouched
  <2>2. ~(WrittenOut(r) /\ linked)
    <3>1. Append(requests, r) # requests
      <4>1. Len(requests) \in Nat /\ Len(Append(requests, r)) = Len(requests) + 1
        BY <1>0, AppendOf, DomainOf
      <4> QED
        BY <4>1
    <3> QED
      BY <1>1, <3>1 DEF WrittenOut
  <2> QED
    BY <1>0, <1>1, <2>1, <2>2
<1>2. CASE linked /\ requests' = Append(requests, r)
  <2>1. requests' \in Seq(IM!ValueRequest) /\ requests' # requests
    <3>1. Len(requests) \in Nat /\ Len(Append(requests, r)) = Len(requests) + 1
      BY <1>0, AppendOf, DomainOf
    <3>2. Append(requests, r) \in Seq(IM!ValueRequest)
      BY <1>0, AppendOf
    <3> QED
      BY <1>2, <3>1, <3>2
  <2>2. /\ \A u \in Uid : Selecting(u)' <=>
              (r.op = "ADD" /\ r.uid = u) \/ (~(r.op = "DELETE" /\ r.uid = u) /\ Selecting(u))
        /\ \A p \in Separation : Forcing(p)' <=>
              (r.op = "PERIOD" /\ r.period_ms = p) \/ (r.op # "PERIOD" /\ Forcing(p))
    BY <1>0, <1>2, RequestJoins
  <2> QED
    BY <1>0, <1>2, <2>1, <2>2
<1> QED
  BY <1>1, <1>2 DEF WrittenOut

(* The callback's write, or its failure to.                                 *)
LEMMA CallbackStep == ASSUME IInv, CallbackWrites PROVE IInv'
<1> USE DEF IInv
<1>1. PICK r \in IM!ValueRequest : sending = <<r>>
  BY DEF CallbackWrites, IM!CallbackReturns, TypeOK, IM!TypeOK
<1>2. Head(sending) = r
  BY <1>1
<1>3. /\ sending' = <<>> /\ told' = IM!Obey(told, r)
      /\ UNCHANGED <<ws_clients, uids, refcounts, min_separation_ms, leaving, writer, pending,
                     matches, replay, linked, dead, up, subscriptions, separation_in_force>>
      /\ \/ WrittenOut(r) /\ Accounts(r, TRUE)
         \/ UNCHANGED requests /\ RaisedAccounts(r)
  BY <1>2, WriteIsOneOf DEF CallbackWrites, IM!CallbackReturns, gateway, listener, selector
<1>4. /\ requests' \in Seq(IM!ValueRequest)
      /\ ~linked => requests' = requests
      /\ \A u \in Uid : (r.op = "PERIOD" \/ r.uid # u) => (Selecting(u)' <=> Selecting(u))
      /\ \A p \in Separation : r.op # "PERIOD" => (Forcing(p)' <=> Forcing(p))
      /\ ~linked \/ requests' = requests =>
           /\ \A u \in Uid : Selecting(u)' <=> Selecting(u)
           /\ \A p \in Separation : Forcing(p)' <=> Forcing(p)
      /\ WrittenOut(r) /\ linked =>
           /\ \A u \in Uid : r.op = "ADD" /\ r.uid = u => Selecting(u)'
           /\ \A u \in Uid : r.op = "DELETE" /\ r.uid = u => ~Selecting(u)'
           /\ \A p \in Separation : r.op = "PERIOD" /\ r.period_ms = p => Forcing(p)'
  BY <1>3, Carried
<1>5. /\ IM!active_uids' = IM!active_uids
      /\ \A u : Promised(u)' <=> Promised(u)
      /\ writer = "ready"
      /\ \A u : sending' # <<IM!AddRequest(u)>> /\ sending' # <<IM!DeleteRequest(u)>>
      /\ \A p : sending' # <<IM!PeriodRequest(p)>>
  BY <1>1, <1>3, Sendings DEF IM!active_uids, Promised, AheadIn, LaterAhead, NothingYet
<1>6. IM!TypeOK'
  <2>1. told' \subseteq Uid
    <3>1. CASE \E u \in Uid : r = IM!AddRequest(u) \/ r = IM!DeleteRequest(u)
      BY <1>3, <3>1, Fields DEF IM!Obey, TypeOK, IM!TypeOK
    <3>2. CASE \E p \in Separation : r = IM!PeriodRequest(p)
      BY <1>3, <3>2, Fields DEF IM!Obey, TypeOK, IM!TypeOK
    <3> QED
      BY <3>1, <3>2, EveryRequest
  <2> QED
    BY <1>3, <2>1 DEF TypeOK, IM!TypeOK
<1>7. SendsTrue' /\ NothingYet' /\ Processes'
  BY <1>3, <1>4, <1>5 DEF SendsTrue, NothingYet, Processes, TypeOK
<1>8. ASSUME NEW u \in Uid, r = IM!AddRequest(u) PROVE IInv'
  <2>1. /\ u \in IM!active_uids /\ r.op = "ADD" /\ r.uid = u
        /\ \A v \in Uid : sending # <<IM!DeleteRequest(v)>>
        /\ \A v \in Uid : sending = <<IM!AddRequest(v)>> => v = u
        /\ \A p : sending # <<IM!PeriodRequest(p)>>
    BY <1>1, <1>8, Sendings, Fields DEF SendsTrue
  <2>2. /\ stale_period' = stale_period /\ excess' = excess
        /\ \/ WrittenOut(r) /\ missing' = missing \ {u}
           \/ requests' = requests /\ missing' = missing \cup {u}
    BY <1>3, <2>1 DEF Accounts, RaisedAccounts
  <2>3. TypeOK'
    BY <1>3, <1>4, <1>6, <2>2 DEF TypeOK, ST!selected
  <2>4. ASSUME NEW v \in Uid PROVE Accounted(v)'
    <3>1. Accounted(v)
      OBVIOUS
    <3>2. CASE v = u
      BY <1>3, <1>4, <1>5, <2>1, <2>2, <3>1, <3>2 DEF Accounted
    <3>3. CASE v # u
      BY <1>3, <1>4, <1>5, <2>1, <2>2, <3>1, <3>3 DEF Accounted
    <3> QED
      BY <3>2, <3>3
  <2>5. ASSUME NEW v \in Uid, Reached(v) PROVE Reached(v)'
    <3>1. CASE v = u
      BY <1>3, <1>4, <1>5, <2>1, <2>2, <3>1 DEF Reached
    <3>2. CASE v # u
      BY <1>3, <1>4, <1>5, <2>1, <2>2, <2>5, <3>2 DEF Reached
    <3> QED
      BY <3>1, <3>2
  <2>6. Forced => Forced'
    BY <1>3, <1>4, <2>1, <2>2 DEF Forced, AheadIn, TypeOK, IM!TypeOK
  <2> QED
    BY <1>7, <2>3, <2>4, <2>5, <2>6
<1>9. ASSUME NEW u \in Uid, r = IM!DeleteRequest(u) PROVE IInv'
  <2>1. /\ u \notin IM!active_uids /\ r.op = "DELETE" /\ r.uid = u
        /\ \A v \in Uid : sending # <<IM!AddRequest(v)>>
        /\ \A v \in Uid : sending = <<IM!DeleteRequest(v)>> => v = u
        /\ \A p : sending # <<IM!PeriodRequest(p)>>
    BY <1>1, <1>9, Sendings, Fields DEF SendsTrue
  <2>2. /\ stale_period' = stale_period
        /\ \/ /\ WrittenOut(r) /\ missing' = missing \ {u}
              /\ excess' = IF linked THEN excess \ {u} ELSE excess
           \/ /\ requests' = requests /\ missing' = missing
              /\ excess' = IF linked THEN excess \cup {u} ELSE excess
    BY <1>3, <2>1 DEF Accounts, RaisedAccounts
  <2>3. TypeOK'
    BY <1>3, <1>4, <1>6, <2>2 DEF TypeOK, ST!selected
  <2>4. ASSUME NEW v \in Uid PROVE Accounted(v)'
    <3>1. Accounted(v)
      OBVIOUS
    <3>2. CASE v = u
      BY <1>3, <1>4, <1>5, <2>1, <2>2, <3>1, <3>2 DEF Accounted
    <3>3. CASE v # u
      BY <1>3, <1>4, <1>5, <2>1, <2>2, <3>1, <3>3 DEF Accounted
    <3> QED
      BY <3>2, <3>3
  <2>5. ASSUME NEW v \in Uid, Reached(v) PROVE Reached(v)'
    <3>1. CASE v = u
      BY <1>3, <1>5, <2>1, <3>1 DEF Reached
    <3>2. CASE v # u
      BY <1>3, <1>4, <1>5, <2>1, <2>2, <2>5, <3>2 DEF Reached
    <3> QED
      BY <3>1, <3>2
  <2>6. Forced => Forced'
    BY <1>3, <1>4, <2>1, <2>2 DEF Forced, AheadIn, TypeOK, IM!TypeOK
  <2> QED
    BY <1>7, <2>3, <2>4, <2>5, <2>6
<1>10. ASSUME NEW p \in Separation, r = IM!PeriodRequest(p) PROVE IInv'
  <2>1. /\ p = min_separation_ms /\ r.op = "PERIOD" /\ r.period_ms = p
        /\ \A v \in Uid : sending # <<IM!AddRequest(v)>> /\ sending # <<IM!DeleteRequest(v)>>
    BY <1>1, <1>10, Sendings, Fields DEF SendsTrue
  <2>2. /\ missing' = missing /\ excess' = excess
        /\ \/ WrittenOut(r) /\ stale_period' = "no"
           \/ requests' = requests /\ stale_period' = "raised"
    BY <1>3, <2>1 DEF Accounts, RaisedAccounts
  <2>3. TypeOK'
    BY <1>3, <1>4, <1>6, <2>2 DEF TypeOK, ST!selected
  <2>4. ASSUME NEW v \in Uid PROVE Accounted(v)' /\ (Reached(v) => Reached(v)')
    BY <1>3, <1>4, <1>5, <2>1, <2>2 DEF Accounted, Reached
  <2>5. Forced'
    BY <1>3, <1>4, <2>1, <2>2 DEF Forced
  <2> QED
    BY <1>7, <2>3, <2>4, <2>5
<1> QED
  BY <1>8, <1>9, <1>10, EveryRequest

----------------------------------------------------------------------------
(* start, and the listener thread. *)

(* A step that leaves the interest alone.                                   *)
LEMMA InterestKept ==
  ASSUME IInv, UNCHANGED web, writer' # "ready" => writer # "ready"
  PROVE  /\ IM!TypeOK' /\ SendsTrue' /\ NothingYet'
         /\ IM!active_uids' = IM!active_uids
         /\ UNCHANGED <<ws_clients, uids, refcounts, min_separation_ms, leaving, sending, told>>
<1>1. UNCHANGED <<ws_clients, uids, refcounts, min_separation_ms, leaving, sending, told>>
  BY DEF web
<1>2. IM!active_uids' = IM!active_uids
  BY <1>1 DEF IM!active_uids
<1> QED
  BY <1>1, <1>2 DEF IInv, TypeOK, IM!TypeOK, SendsTrue, NothingYet

(* start gets one step further.                                             *)
LEMMA WriterSteps ==
  ASSUME IInv, WriterConstructed \/ WriterRegistered \/ StartReturns
  PROVE  IInv'
<1>1. /\ UNCHANGED <<web, pending, matches, replay, linked, dead, requests, up, subscriptions,
                     separation_in_force, missing, excess, stale_period>>
      /\ writer \in {"creating", "created", "flushing"}
      /\ writer' \in {"creating", "created", "flushing", "ready"}
      /\ writer' = "ready" => pending = <<>>
  BY DEF WriterConstructed, WriterRegistered, StartReturns, listener, selector, history
<1>2. /\ IM!TypeOK' /\ SendsTrue' /\ NothingYet'
      /\ IM!active_uids' = IM!active_uids
      /\ UNCHANGED <<ws_clients, uids, refcounts, min_separation_ms, leaving, sending, told>>
  BY <1>1, InterestKept
<1>3. /\ \A u : Selecting(u)' <=> Selecting(u)
      /\ \A p : Forcing(p)' <=> Forcing(p)
  BY <1>1, Untouched
<1>4. TypeOK' /\ Processes'
  BY <1>1, <1>2 DEF IInv, TypeOK, Processes, ST!selected
<1>5. ASSUME NEW u \in Uid PROVE Accounted(u)' /\ (Reached(u) => Reached(u)')
  BY <1>1, <1>2, <1>3 DEF IInv, Accounted, Reached, Promised, AheadIn, LaterAhead
<1>6. Forced => Forced'
  BY <1>1, <1>2, <1>3 DEF Forced, AheadIn
<1> QED
  BY <1>2, <1>4, <1>5, <1>6 DEF IInv

(* The flush sends the separation as it is, or drops the status.            *)
LEMMA FlushStep == ASSUME IInv, FlushMatch PROVE IInv'
<1> USE DEF IInv
<1>1. /\ writer = "flushing" /\ pending # <<>> /\ pending' = Tail(pending)
      /\ UNCHANGED <<web, writer, matches, replay, linked, dead, up, subscriptions,
                     separation_in_force>>
      /\ IF ZeroToN(Head(pending)) THEN Write(IM!PeriodRequest(min_separation_ms), TRUE)
         ELSE UNCHANGED <<requests, history>>
  BY DEF FlushMatch, listener, selector
<1>2. /\ IM!TypeOK' /\ SendsTrue' /\ NothingYet'
      /\ IM!active_uids' = IM!active_uids /\ IM!active_uids = {}
      /\ UNCHANGED <<ws_clients, uids, refcounts, min_separation_ms, leaving, sending, told>>
  BY <1>1, InterestKept DEF NothingYet
<1>3. /\ pending' \in Seq(ChangedStatus)
      /\ AheadIn(pending) => ZeroToN(Head(pending)) \/ AheadIn(pending')
  BY <1>1, StatusLeaves DEF TypeOK, ChangedStatus
<1>4. \A u \in Uid : Reached(u)'
  BY <1>2 DEF Reached
<1>5. CASE UNCHANGED <<requests, history>> /\ ~ZeroToN(Head(pending))
  <2>1. UNCHANGED <<requests, missing, excess, stale_period>>
    BY <1>5 DEF history
  <2>2. /\ \A u : Selecting(u)' <=> Selecting(u)
        /\ \A p : Forcing(p)' <=> Forcing(p)
    BY <1>1, <2>1, Untouched
  <2>3. TypeOK' /\ Processes'
    BY <1>1, <1>2, <1>3, <2>1 DEF TypeOK, Processes, ST!selected, ChangedStatus
  <2>4. \A u \in Uid : Accounted(u)'
    BY <1>1, <1>2, <2>1, <2>2 DEF Accounted
  <2>5. Forced => Forced'
    BY <1>1, <1>2, <1>3, <1>5, <2>1, <2>2 DEF Forced, AheadIn
  <2> QED
    BY <1>2, <1>4, <2>3, <2>4, <2>5
<1>6. CASE Write(IM!PeriodRequest(min_separation_ms), TRUE)
  <2> DEFINE r == IM!PeriodRequest(min_separation_ms)
  <2>1. /\ min_separation_ms \in Separation /\ r \in IM!ValueRequest
        /\ r.op = "PERIOD" /\ r.period_ms = min_separation_ms
    BY PeriodCommands, Fields DEF TypeOK, IM!TypeOK
  <2> HIDE DEF r
  <2>2. \/ WrittenOut(r) /\ Accounts(r, TRUE)
        \/ UNCHANGED requests /\ RaisedAccounts(r)
    BY <1>6, WriteIsOneOf DEF r
  <2>3. /\ missing' = missing /\ excess' = excess
        /\ \/ WrittenOut(r) /\ stale_period' = "no"
           \/ requests' = requests /\ stale_period' = "raised"
    BY <2>1, <2>2 DEF Accounts, RaisedAccounts
  <2>4. /\ requests' \in Seq(IM!ValueRequest)
        /\ ~linked => requests' = requests
        /\ \A u \in Uid : Selecting(u)' <=> Selecting(u)
        /\ WrittenOut(r) /\ linked => Forcing(min_separation_ms)'
    BY <1>1, <1>2, <2>1, <2>3, Carried
  <2>5. TypeOK' /\ Processes'
    BY <1>1, <1>2, <1>3, <2>3, <2>4 DEF TypeOK, Processes, ST!selected, ChangedStatus
  <2>6. \A u \in Uid : Accounted(u)'
    BY <1>1, <1>2, <2>3, <2>4 DEF Accounted
  <2>7. Forced'
    BY <1>1, <1>2, <2>3, <2>4 DEF Forced
  <2> QED
    BY <1>2, <1>4, <2>5, <2>6, <2>7
<1> QED
  BY <1>1, <1>5, <1>6

(* The listener thread finds that the writer is being created: no tag is    *)
(* wanted yet.                                                              *)
LEMMA HoldingStep == ASSUME IInv, WriterBeingCreated PROVE IInv'
<1> USE DEF IInv
<1>1. /\ replay.pc = "idle" /\ matches # <<>> /\ writer = "creating"
      /\ replay' = [NoReplay EXCEPT !.pc = "holding"]
      /\ UNCHANGED <<web, writer, pending, matches, linked, dead, requests, up, subscriptions,
                     separation_in_force, missing, excess, stale_period>>
  BY DEF WriterBeingCreated, gateway, selector, history
<1>2. /\ IM!TypeOK' /\ SendsTrue' /\ NothingYet'
      /\ IM!active_uids' = IM!active_uids /\ IM!active_uids = {}
      /\ UNCHANGED <<ws_clients, uids, refcounts, min_separation_ms, leaving, sending, told>>
  BY <1>1, InterestKept DEF NothingYet
<1>3. /\ \A u : Selecting(u)' <=> Selecting(u)
      /\ \A p : Forcing(p)' <=> Forcing(p)
  BY <1>1, Untouched
<1>4. /\ replay'.pc = "holding" /\ replay'.uids = {}
      /\ replay' \in [pc : {"idle", "holding", "period", "reconcile", "adds"},
                      period : Separation, uids : SUBSET Uid]
  BY <1>1, ControlPathAssumption DEF NoReplay
<1>5. TypeOK' /\ Processes'
  BY <1>1, <1>2, <1>4 DEF TypeOK, Processes, ST!selected
<1>6. \A u \in Uid : Accounted(u)' /\ Reached(u)'
  BY <1>1, <1>2, <1>3 DEF Accounted, Reached
<1>7. Forced => Forced'
  BY <1>1, <1>2, <1>3 DEF Forced, AheadIn
<1> QED
  BY <1>2, <1>5, <1>6, <1>7

(* It puts the status away, where the flush finds it or nobody does.        *)
LEMMA HeldBackStep == ASSUME IInv, MatchHeldBack PROVE IInv'
<1> USE DEF IInv
<1>1. /\ replay.pc = "holding" /\ replay' = NoReplay /\ matches' = Tail(matches)
      /\ UNCHANGED <<web, writer, linked, dead, requests, up, subscriptions,
                     separation_in_force, missing, excess>>
      /\ \/ /\ writer \in {"creating", "created"} /\ UNCHANGED stale_period
            /\ pending' = Append(pending, Head(matches))
         \/ /\ writer \in {"flushing", "ready"} /\ UNCHANGED pending
            /\ stale_period' = IF ZeroToN(Head(matches)) THEN "stranded" ELSE stale_period
  BY DEF MatchHeldBack, selector
<1>2. /\ IM!TypeOK' /\ SendsTrue' /\ NothingYet'
      /\ IM!active_uids' = IM!active_uids
      /\ UNCHANGED <<ws_clients, uids, refcounts, min_separation_ms, leaving, sending, told>>
  BY <1>1, InterestKept
<1>3. /\ \A u : Selecting(u)' <=> Selecting(u)
      /\ \A p : Forcing(p)' <=> Forcing(p)
  BY <1>1, Untouched
<1>4. /\ replay'.pc = "idle" /\ replay'.uids = {} /\ replay.uids = {}
      /\ replay' \in [pc : {"idle", "holding", "period", "reconcile", "adds"},
                      period : Separation, uids : SUBSET Uid]
  BY <1>1, ControlPathAssumption DEF NoReplay, TypeOK
<1>5. /\ matches' \in Seq(ChangedStatus) /\ Head(matches) \in ChangedStatus
      /\ AheadIn(matches) => ZeroToN(Head(matches)) \/ AheadIn(matches')
      /\ LaterAhead(matches) => AheadIn(matches')
  BY <1>1, StatusLeaves DEF TypeOK, ChangedStatus, Processes
<1>6. /\ pending' \in Seq(ChangedStatus)
      /\ writer' = "ready" => pending' = <<>>
      /\ stale_period' \in {"no", "late", "raised", "stranded"}
      /\ AheadIn(pending) => AheadIn(pending')
      /\ ZeroToN(Head(matches)) => AheadIn(pending') \/ stale_period' = "stranded"
      /\ stale_period # "no" => stale_period' # "no"
  <2>0. pending \in Seq(ChangedStatus)
    BY DEF TypeOK, ChangedStatus
  <2>1. CASE /\ writer \in {"creating", "created"} /\ UNCHANGED stale_period
             /\ pending' = Append(pending, Head(matches))
    <3>1. /\ Append(pending, Head(matches)) \in Seq(ChangedStatus)
          /\ AheadIn(pending) \/ ZeroToN(Head(matches)) => AheadIn(Append(pending, Head(matches)))
      BY <1>5, <2>0, StatusJoins
    <3>2. AheadIn(pending') <=> AheadIn(Append(pending, Head(matches)))
      BY <2>1 DEF AheadIn
    <3> QED
      BY <1>1, <2>1, <3>1, <3>2 DEF TypeOK
  <2>2. CASE /\ writer \in {"flushing", "ready"} /\ UNCHANGED pending
             /\ stale_period' = IF ZeroToN(Head(matches)) THEN "stranded" ELSE stale_period
    BY <1>1, <2>0, <2>2 DEF TypeOK, AheadIn
  <2> QED
    BY <1>1, <2>1, <2>2
<1>7. TypeOK' /\ Processes'
  <2>1. writer' \in {"creating", "created", "flushing", "ready"}
        /\ (writer' # "ready" => ws_clients' = {})
    BY <1>1, <1>2 DEF TypeOK
  <2>2. {matches', pending'} \subseteq Seq([count : Nat, change : {-1, 1}])
    BY <1>5, <1>6 DEF ChangedStatus
  <2>3. replay'.pc = "adds" <=> replay'.uids # {}
    BY <1>4
  <2>4. Processes'
    BY <1>1, <1>4 DEF Processes
  <2> QED
    BY <1>1, <1>2, <1>4, <1>6, <2>1, <2>2, <2>3, <2>4 DEF TypeOK, ST!selected
<1>8. ASSUME NEW u \in Uid PROVE Accounted(u)' /\ (Reached(u) => Reached(u)')
  <2>1. Promised(u) => Promised(u)'
    BY <1>1, <1>4, <1>5 DEF Promised, AheadIn
  <2> QED
    BY <1>1, <1>2, <1>3, <2>1 DEF Accounted, Reached
<1>9. Forced => Forced'
  <2>1. AheadIn(matches) => AheadIn(matches') \/ AheadIn(pending') \/ stale_period' # "no"
    BY <1>5, <1>6 DEF AheadIn
  <2> QED
    BY <1>1, <1>2, <1>3, <1>6, <2>1 DEF Forced
<1> QED
  BY <1>2, <1>7, <1>8, <1>9

(* A first match starts the replay; any other status is dropped.            *)
LEMMA DeliveredStep == ASSUME IInv, MatchDelivered PROVE IInv'
<1> USE DEF IInv
<1>1. /\ replay.pc = "idle" /\ matches # <<>> /\ matches' = Tail(matches)
      /\ UNCHANGED <<web, writer, pending, linked, dead, requests, up, subscriptions,
                     separation_in_force, missing, excess, stale_period>>
      /\ replay' = IF ZeroToN(Head(matches))
                     THEN [pc |-> "period", period |-> min_separation_ms, uids |-> {}]
                     ELSE replay
  BY DEF MatchDelivered, gateway, selector, history
<1>2. /\ IM!TypeOK' /\ SendsTrue' /\ NothingYet'
      /\ IM!active_uids' = IM!active_uids
      /\ UNCHANGED <<ws_clients, uids, refcounts, min_separation_ms, leaving, sending, told>>
  BY <1>1, InterestKept
<1>3. /\ \A u : Selecting(u)' <=> Selecting(u)
      /\ \A p : Forcing(p)' <=> Forcing(p)
  BY <1>1, Untouched
<1>4. /\ replay'.pc \in {"idle", "period"} /\ replay'.uids = {} /\ replay.uids = {}
      /\ ZeroToN(Head(matches)) => replay'.pc = "period"
      /\ replay' \in [pc : {"idle", "holding", "period", "reconcile", "adds"},
                      period : Separation, uids : SUBSET Uid]
  BY <1>1 DEF TypeOK, IM!TypeOK
<1>5. /\ matches' \in Seq(ChangedStatus)
      /\ AheadIn(matches) => ZeroToN(Head(matches)) \/ AheadIn(matches')
  BY <1>1, StatusLeaves DEF TypeOK, ChangedStatus
<1>6. TypeOK'
  BY <1>1, <1>2, <1>4, <1>5 DEF TypeOK, ST!selected, ChangedStatus
<1>7. Processes'
  BY <1>1, <1>4 DEF Processes
<1>8. ASSUME NEW u \in Uid PROVE Accounted(u)' /\ (Reached(u) => Reached(u)')
  <2>1. Promised(u) => Promised(u)'
    BY <1>1, <1>4, <1>5 DEF Promised
  <2> QED
    BY <1>1, <1>2, <1>3, <2>1 DEF Accounted, Reached
<1>9. Forced => Forced'
  BY <1>1, <1>2, <1>3, <1>4, <1>5 DEF Forced
<1> QED
  BY <1>2, <1>6, <1>7, <1>8, <1>9

(* The separation that was read is sent, late or not.                       *)
LEMMA ReplayPeriodStep == ASSUME IInv, ReplayPeriod PROVE IInv'
<1> USE DEF IInv
<1> DEFINE r == IM!PeriodRequest(replay.period)
           wanted == replay.period = min_separation_ms
<1>1. /\ replay.pc = "period" /\ replay' = [NoReplay EXCEPT !.pc = "reconcile"]
      /\ UNCHANGED <<web, writer, pending, matches, linked, dead, up, subscriptions,
                     separation_in_force>>
      /\ \/ WrittenOut(r) /\ Accounts(r, wanted)
         \/ UNCHANGED requests /\ RaisedAccounts(r)
  BY WriteIsOneOf DEF ReplayPeriod, gateway, selector
<1>2. /\ IM!TypeOK' /\ SendsTrue' /\ NothingYet'
      /\ IM!active_uids' = IM!active_uids
      /\ UNCHANGED <<ws_clients, uids, refcounts, min_separation_ms, leaving, sending, told>>
  BY <1>1, InterestKept
<1>3. /\ replay.period \in Separation /\ r \in IM!ValueRequest
      /\ r.op = "PERIOD" /\ r.period_ms = replay.period
  BY PeriodCommands, Fields DEF TypeOK
<1> HIDE DEF r
<1>4. /\ missing' = missing /\ excess' = excess
      /\ \/ WrittenOut(r) /\ stale_period' = IF wanted THEN "no" ELSE "late"
         \/ requests' = requests /\ stale_period' = "raised"
  BY <1>1, <1>3 DEF Accounts, RaisedAccounts
<1>5. /\ requests' \in Seq(IM!ValueRequest)
      /\ ~linked => requests' = requests
      /\ \A u \in Uid : Selecting(u)' <=> Selecting(u)
      /\ WrittenOut(r) /\ linked /\ wanted => Forcing(min_separation_ms)'
  BY <1>1, <1>2, <1>3, <1>4, Carried
<1>6. /\ replay'.pc = "reconcile" /\ replay'.uids = {}
      /\ replay' \in [pc : {"idle", "holding", "period", "reconcile", "adds"},
                      period : Separation, uids : SUBSET Uid]
  BY <1>1, ControlPathAssumption DEF NoReplay
<1>7. TypeOK'
  BY <1>1, <1>2, <1>4, <1>5, <1>6 DEF TypeOK, ST!selected
<1>8. Processes'
  BY <1>1, <1>5, <1>6 DEF Processes, TypeOK
<1>9. \A u \in Uid : Accounted(u)' /\ Reached(u)'
  BY <1>1, <1>2, <1>4, <1>5, <1>6 DEF Accounted, Reached, Promised
<1>10. Forced'
  BY <1>1, <1>2, <1>4, <1>5 DEF Forced
<1> QED
  BY <1>2, <1>7, <1>8, <1>9, <1>10

(* The wanted tags are copied, to be sent one by one.                       *)
LEMMA ReconcileStep == ASSUME IInv, Reconcile PROVE IInv'
<1> USE DEF IInv
<1>1. /\ replay.pc = "reconcile"
      /\ UNCHANGED <<web, writer, pending, matches, linked, dead, requests, up, subscriptions,
                     separation_in_force, missing, excess, stale_period>>
      /\ replay' = IF IM!active_uids = {} THEN NoReplay
                   ELSE [replay EXCEPT !.pc = "adds", !.uids = IM!active_uids]
  BY DEF Reconcile, gateway, selector, history
<1>2. /\ IM!TypeOK' /\ SendsTrue' /\ NothingYet'
      /\ IM!active_uids' = IM!active_uids /\ IM!active_uids \subseteq Uid
      /\ UNCHANGED <<ws_clients, uids, refcounts, min_separation_ms, leaving, sending, told>>
  BY <1>1, InterestKept DEF IM!active_uids
<1>3. /\ \A u : Selecting(u)' <=> Selecting(u)
      /\ \A p : Forcing(p)' <=> Forcing(p)
  BY <1>1, Untouched
<1>4. /\ replay'.pc \in {"idle", "adds"} /\ replay'.uids = IM!active_uids
      /\ replay'.pc = "adds" <=> replay'.uids # {}
      /\ replay' \in [pc : {"idle", "holding", "period", "reconcile", "adds"},
                      period : Separation, uids : SUBSET Uid]
  <2>1. CASE IM!active_uids = {}
    BY <1>1, <2>1, ControlPathAssumption DEF NoReplay
  <2>2. CASE IM!active_uids # {}
    BY <1>1, <1>2, <2>2 DEF TypeOK
  <2> QED
    BY <2>1, <2>2
<1>5. TypeOK'
  BY <1>1, <1>2, <1>4 DEF TypeOK, ST!selected
<1>6. Processes'
  BY <1>1, <1>4 DEF Processes
<1>7. \A u \in Uid : Accounted(u)' /\ Reached(u)'
  BY <1>1, <1>2, <1>3, <1>4 DEF Accounted, Reached, Promised
<1>8. Forced => Forced'
  BY <1>1, <1>2, <1>3 DEF Forced
<1> QED
  BY <1>2, <1>5, <1>6, <1>7, <1>8

(* One of them is sent, still wanted or not.                                *)
LEMMA ReplayAddStep == ASSUME IInv, NEW u \in Uid, ReplayAdd(u) PROVE IInv'
<1> USE DEF IInv
<1> DEFINE r == IM!AddRequest(u)
           wanted == u \in IM!active_uids
<1>1. /\ replay.pc = "adds" /\ u \in replay.uids
      /\ replay' = IF replay.uids = {u} THEN NoReplay ELSE [replay EXCEPT !.uids = @ \ {u}]
      /\ UNCHANGED <<web, writer, pending, matches, linked, dead, up, subscriptions,
                     separation_in_force>>
      /\ \/ WrittenOut(r) /\ Accounts(r, wanted)
         \/ UNCHANGED requests /\ RaisedAccounts(r)
  BY WriteIsOneOf DEF ReplayAdd, gateway, selector
<1>2. /\ IM!TypeOK' /\ SendsTrue' /\ NothingYet'
      /\ IM!active_uids' = IM!active_uids
      /\ UNCHANGED <<ws_clients, uids, refcounts, min_separation_ms, leaving, sending, told>>
  BY <1>1, InterestKept
<1>3. r \in IM!ValueRequest /\ r.op = "ADD" /\ r.uid = u
  BY UidCommands, Fields
<1> HIDE DEF r
<1>4. /\ stale_period' = stale_period
      /\ \/ /\ WrittenOut(r) /\ missing' = missing \ {u}
            /\ excess' = IF linked /\ ~wanted THEN excess \cup {u} ELSE excess
         \/ requests' = requests /\ missing' = missing \cup {u} /\ excess' = excess
  BY <1>1, <1>3 DEF Accounts, RaisedAccounts
<1>5. /\ requests' \in Seq(IM!ValueRequest)
      /\ ~linked => requests' = requests
      /\ \A v \in Uid \ {u} : Selecting(v)' <=> Selecting(v)
      /\ \A p \in Separation : Forcing(p)' <=> Forcing(p)
      /\ ~linked \/ requests' = requests => (Selecting(u)' <=> Selecting(u))
      /\ WrittenOut(r) /\ linked => Selecting(u)'
  BY <1>1, <1>2, <1>3, <1>4, Carried
<1>6. /\ replay'.pc \in {"idle", "adds"} /\ replay'.uids = replay.uids \ {u}
      /\ replay'.pc = "adds" <=> replay'.uids # {}
      /\ replay' \in [pc : {"idle", "holding", "period", "reconcile", "adds"},
                      period : Separation, uids : SUBSET Uid]
  <2>1. CASE replay.uids = {u}
    BY <1>1, <2>1, ControlPathAssumption DEF NoReplay
  <2>2. CASE replay.uids # {u}
    <3>1. replay.uids \ {u} # {}
      BY <1>1, <2>2
    <3> QED
      BY <1>1, <2>2, <3>1 DEF TypeOK
  <2> QED
    BY <2>1, <2>2
<1>7. TypeOK'
  BY <1>1, <1>2, <1>4, <1>5, <1>6 DEF TypeOK, ST!selected
<1>8. Processes'
  BY <1>1, <1>5, <1>6 DEF Processes, TypeOK
<1>9. ASSUME NEW v \in Uid PROVE Accounted(v)' /\ (Reached(v) => Reached(v)')
  <2>1. v # u => (Promised(v) => Promised(v)')
    BY <1>1, <1>6 DEF Promised
  <2>2. CASE v = u
    BY <1>1, <1>2, <1>4, <1>5, <2>2 DEF Accounted, Reached
  <2>3. CASE v # u
    BY <1>1, <1>2, <1>4, <1>5, <2>1, <2>3 DEF Accounted, Reached
  <2> QED
    BY <2>2, <2>3
<1>10. Forced => Forced'
  BY <1>1, <1>2, <1>4, <1>5 DEF Forced, TypeOK, IM!TypeOK
<1> QED
  BY <1>2, <1>7, <1>8, <1>9, <1>10

----------------------------------------------------------------------------
(* Discovery, the selector, and the loss of either process. *)

(* A status that arrives takes no promise back, and one that says that the  *)
(* first selector is there makes one.                                       *)
LEMMA StatusArrives ==
  ASSUME TypeOK, Processes, NEW count \in Nat, NEW change \in {-1, 1}, Status(count, change),
         UNCHANGED <<replay, pending>>
  PROVE  /\ matches' \in Seq(ChangedStatus) /\ matches' # <<>>
         /\ AheadIn(matches) => AheadIn(matches')
         /\ \A u : Promised(u) => Promised(u)'
         /\ change = 1 /\ count = 1 => AheadIn(matches') /\ \A u : Promised(u)'
<1> DEFINE m == [count |-> count, change |-> change]
<1>1. /\ matches \in Seq(ChangedStatus) /\ m \in ChangedStatus /\ matches' = Append(matches, m)
      /\ change = 1 /\ count = 1 => ZeroToN(m)
  BY DEF TypeOK, ChangedStatus, Status, ZeroToN
<1> HIDE DEF m
<1>2. /\ Append(matches, m) \in Seq(ChangedStatus) /\ Append(matches, m) # <<>>
      /\ AheadIn(matches) \/ ZeroToN(m) => AheadIn(Append(matches, m))
      /\ LaterAhead(matches) \/ (matches # <<>> /\ ZeroToN(m)) => LaterAhead(Append(matches, m))
  BY <1>1, StatusJoins
<1> QED
  BY <1>1, <1>2 DEF Promised, Processes

(* A selector starts with its own table and nothing on its way to it.       *)
LEMMA StartStep == ASSUME IInv, SelectorStart PROVE IInv'
<1> USE DEF IInv
<1>1. /\ ~up /\ up' = TRUE /\ (RestartAfterLease => dead = 0)
      /\ subscriptions' = ST!range_enabled /\ separation_in_force' = default_min_separation_ms
      /\ UNCHANGED <<web, writer, pending, matches, replay, linked, dead, requests,
                     missing, excess, stale_period>>
  BY DEF SelectorStart, gateway, listener, history
<1>2. /\ IM!TypeOK' /\ SendsTrue' /\ NothingYet'
      /\ IM!active_uids' = IM!active_uids
      /\ UNCHANGED <<ws_clients, uids, refcounts, min_separation_ms, leaving, sending, told>>
  BY <1>1, InterestKept
<1>3. ~linked /\ linked' = FALSE /\ requests' = <<>>
  BY <1>1 DEF TypeOK, Processes
<1>4. ST!selected' = PreEnabled /\ separation_in_force' \in Nat
  BY <1>1, ControlPathAssumption DEF ST!selected, ST!range_enabled
<1>5. TypeOK'
  BY <1>1, <1>2, <1>4, ControlPathAssumption DEF TypeOK
<1>6. Processes'
  BY <1>1, <1>3 DEF Processes
<1>7. ASSUME NEW u \in Uid PROVE Accounted(u)' /\ Reached(u)'
  <2>1. Selecting(u)' <=> Outcome(<<>>, Adds(u), Deletes(u), u, PreEnabled)
    BY <1>3, <1>4 DEF Selecting
  <2>2. Selecting(u)' => u \in PreEnabled
    BY <2>1, OutcomeOfEmpty
  <2> QED
    BY <1>3, <2>2 DEF Accounted, Reached
<1>8. Forced'
  BY <1>3 DEF Forced
<1> QED
  BY <1>2, <1>5, <1>6, <1>7, <1>8

(* The writer sees it: if no predecessor is still counted, that is the      *)
(* transition a replay follows.                                             *)
LEMMA MatchStep == ASSUME IInv, Match PROVE IInv'
<1> USE DEF IInv
<1>1. /\ up /\ ~linked /\ linked' = TRUE /\ Status(Matched + 1, 1)
      /\ UNCHANGED <<web, writer, pending, replay, dead, requests, up, subscriptions,
                     separation_in_force, missing, excess, stale_period>>
  BY DEF Match, gateway, selector, history
<1>2. /\ IM!TypeOK' /\ SendsTrue' /\ NothingYet'
      /\ IM!active_uids' = IM!active_uids
      /\ UNCHANGED <<ws_clients, uids, refcounts, min_separation_ms, leaving, sending, told>>
  BY <1>1, InterestKept
<1>3. /\ \A u : Selecting(u)' <=> Selecting(u)
      /\ \A p : Forcing(p)' <=> Forcing(p)
  BY <1>1, Untouched
<1>4. /\ Matched + 1 \in Nat /\ (RestartAfterLease => Matched + 1 = 1)
  BY <1>1 DEF Matched, TypeOK, Processes
<1>5. /\ matches' \in Seq(ChangedStatus) /\ matches' # <<>>
      /\ RestartAfterLease => AheadIn(matches') /\ \A u : Promised(u)'
  BY <1>1, <1>4, StatusArrives
<1>6. TypeOK'
  BY <1>1, <1>2, <1>5 DEF TypeOK, ST!selected, ChangedStatus
<1>7. Processes'
  BY <1>1, <1>5 DEF Processes
<1>8. ASSUME NEW u \in Uid PROVE Accounted(u)' /\ (RestartAfterLease => Reached(u)')
  BY <1>1, <1>2, <1>3, <1>5 DEF Accounted, Reached
<1>9. RestartAfterLease => Forced'
  BY <1>5 DEF Forced
<1> QED
  BY <1>2, <1>6, <1>7, <1>8, <1>9

(* Nothing is asked of a selector that is gone.                             *)
LEMMA GoneStep == ASSUME IInv, SelectorStop \/ SelectorCrash PROVE IInv'
<1> USE DEF IInv
<1>1. /\ up' = FALSE /\ linked' = FALSE /\ requests' = <<>> /\ excess' = {}
      /\ UNCHANGED <<web, writer, pending, replay, subscriptions, separation_in_force,
                     missing, stale_period>>
  BY DEF SelectorStop, SelectorCrash, SelectorGone, gateway
<1>2. /\ IM!TypeOK' /\ SendsTrue' /\ NothingYet'
      /\ IM!active_uids' = IM!active_uids
      /\ UNCHANGED <<ws_clients, uids, refcounts, min_separation_ms, leaving, sending, told>>
  BY <1>1, InterestKept
<1>3. dead' \in Nat /\ matches' \in Seq(ChangedStatus) /\ (matches # <<>> => matches' # <<>>)
  <2>1. matches \in Seq(ChangedStatus) /\ dead \in Nat
    BY DEF TypeOK, ChangedStatus
  <2>2. CASE SelectorStop
    <3>1. dead' = dead /\ IF linked THEN Status(Matched - 1, -1) ELSE matches' = matches
      BY <2>2 DEF SelectorStop
    <3>2. linked => Matched - 1 \in Nat
      BY <2>1 DEF Matched
    <3>3. linked => matches' \in Seq(ChangedStatus) /\ matches' # <<>>
      BY <1>1, <3>1, <3>2, StatusArrives
    <3> QED
      BY <2>1, <3>1, <3>3
  <2>3. CASE SelectorCrash
    BY <2>1, <2>3 DEF SelectorCrash
  <2> QED
    BY <2>2, <2>3
<1>4. requests' \in Seq(IM!ValueRequest)
  BY <1>1, EmptySeq
<1>5. TypeOK'
  BY <1>1, <1>2, <1>3, <1>4 DEF TypeOK, ST!selected, ChangedStatus
<1>6. Processes'
  BY <1>1, <1>3 DEF Processes
<1>7. Forced' /\ \A u \in Uid : Accounted(u)' /\ Reached(u)'
  BY <1>1 DEF Accounted, Reached, Forced
<1> QED
  BY <1>2, <1>5, <1>6, <1>7

(* A crashed predecessor is no longer counted.                              *)
LEMMA LeaseStep == ASSUME IInv, LeaseExpires PROVE IInv'
<1> USE DEF IInv
<1>1. /\ dead > 0 /\ dead' = dead - 1 /\ Status(Matched - 1, -1)
      /\ UNCHANGED <<web, writer, pending, replay, linked, requests, up, subscriptions,
                     separation_in_force, missing, excess, stale_period>>
  BY DEF LeaseExpires, gateway, selector, history
<1>2. /\ IM!TypeOK' /\ SendsTrue' /\ NothingYet'
      /\ IM!active_uids' = IM!active_uids
      /\ UNCHANGED <<ws_clients, uids, refcounts, min_separation_ms, leaving, sending, told>>
  BY <1>1, InterestKept
<1>3. /\ \A u : Selecting(u)' <=> Selecting(u)
      /\ \A p : Forcing(p)' <=> Forcing(p)
  BY <1>1, Untouched
<1>4. dead' \in Nat /\ Matched - 1 \in Nat /\ (dead = 0 => FALSE)
  BY <1>1 DEF Matched, TypeOK
<1>5. /\ matches' \in Seq(ChangedStatus) /\ matches' # <<>>
      /\ AheadIn(matches) => AheadIn(matches')
      /\ \A u : Promised(u) => Promised(u)'
  BY <1>1, <1>4, StatusArrives
<1>6. TypeOK'
  BY <1>1, <1>2, <1>4, <1>5 DEF TypeOK, ST!selected, ChangedStatus
<1>7. Processes'
  BY <1>1, <1>4, <1>5 DEF Processes
<1>8. ASSUME NEW u \in Uid PROVE Accounted(u)' /\ (Reached(u) => Reached(u)')
  BY <1>1, <1>2, <1>3, <1>5 DEF Accounted, Reached
<1>9. Forced => Forced'
  BY <1>1, <1>2, <1>3, <1>5 DEF Forced
<1> QED
  BY <1>2, <1>6, <1>7, <1>8, <1>9

(* The selector obeys the oldest request, which was counted already.        *)
LEMMA HandleStep == ASSUME IInv, HandleRequest PROVE IInv'
<1> USE DEF IInv
<1> DEFINE r == Head(requests)
<1>1. /\ up /\ requests # <<>> /\ requests' = Tail(requests)
      /\ UNCHANGED <<web, writer, pending, matches, replay, linked, dead, up,
                     missing, excess, stale_period>>
      /\ \/ r.op = "ADD" /\ ST!add(r.uid) /\ UNCHANGED separation_in_force
         \/ r.op = "DELETE" /\ ST!erase(r.uid) /\ UNCHANGED separation_in_force
         \/ r.op = "PERIOD" /\ ST!set_period(r.period_ms) /\ UNCHANGED subscriptions
  BY DEF HandleRequest, gateway, listener, history
<1>2. /\ IM!TypeOK' /\ SendsTrue' /\ NothingYet'
      /\ IM!active_uids' = IM!active_uids
      /\ UNCHANGED <<ws_clients, uids, refcounts, min_separation_ms, leaving, sending, told>>
  BY <1>1, InterestKept
<1>3. /\ \A u \in Uid : Selecting(u)' <=> Selecting(u)
      /\ \A p \in Separation : Forcing(p)' <=> Forcing(p)
  BY RequestHandled
<1>4. r \in IM!ValueRequest /\ requests' \in Seq(IM!ValueRequest)
  BY <1>1, HeadTailProperties DEF TypeOK
<1> HIDE DEF r
<1>5. ST!selected' \subseteq Uid /\ separation_in_force' \in Nat
  <2>1. /\ r.op \in {"ADD", "DELETE"} => r.uid \in Uid
        /\ r.op = "PERIOD" => r.period_ms \in Nat
    <3>1. CASE \E v \in Uid : r = IM!AddRequest(v) \/ r = IM!DeleteRequest(v)
      BY <3>1, Fields
    <3>2. CASE \E q \in Separation : r = IM!PeriodRequest(q)
      BY <3>2, Fields, ControlPathAssumption
    <3> QED
      BY <1>4, EveryRequest, <3>1, <3>2
  <2>2. CASE r.op = "ADD" /\ ST!add(r.uid) /\ UNCHANGED separation_in_force
    BY <2>1, <2>2 DEF ST!add, ST!selected, TypeOK
  <2>3. CASE r.op = "DELETE" /\ ST!erase(r.uid) /\ UNCHANGED separation_in_force
    BY <2>1, <2>3 DEF ST!erase, ST!selected, TypeOK
  <2>4. CASE r.op = "PERIOD" /\ ST!set_period(r.period_ms) /\ UNCHANGED subscriptions
    BY <2>1, <2>4, ControlPathAssumption DEF ST!set_period, ST!selected, TypeOK
  <2> QED
    BY <1>1, <2>2, <2>3, <2>4
<1>6. TypeOK'
  BY <1>1, <1>2, <1>4, <1>5 DEF TypeOK
<1>7. Processes'
  BY <1>1 DEF Processes
<1>8. ASSUME NEW u \in Uid PROVE Accounted(u)' /\ (Reached(u) => Reached(u)')
  BY <1>1, <1>2, <1>3 DEF Accounted, Reached, Promised
<1>9. Forced => Forced'
  BY <1>1, <1>2, <1>3 DEF Forced, TypeOK, IM!TypeOK
<1> QED
  BY <1>2, <1>6, <1>7, <1>8, <1>9

(* What the last scada_web selected, or had asked for, is left over.        *)
LEMMA WebRestartStep == ASSUME IInv, WebRestart PROVE IInv'
<1> USE DEF IInv
<1> DEFINE left == {u \in Uid : /\ up
                               /\ \/ ST!contains(u)
                                  \/ \E i \in 1 .. Len(requests) :
                                       requests[i] = IM!AddRequest(u)}
<1>1. PICK n \in 0 .. Len(requests) : requests' = SubSeq(requests, 1, n)
  BY DEF WebRestart
<1>2. /\ IM!Restarted /\ writer' = "creating" /\ pending' = <<>> /\ matches' = <<>>
      /\ replay' = NoReplay /\ linked' = FALSE /\ dead' = 0
      /\ excess' = excess \cup left
      /\ UNCHANGED <<up, subscriptions, separation_in_force, missing, stale_period>>
  BY DEF WebRestart, selector
<1>3. /\ requests \in Seq(IM!ValueRequest) /\ requests' \in Seq(IM!ValueRequest)
      /\ Len(requests') = n /\ n \in 0 .. Len(requests)
      /\ \A i \in 1 .. n : i \in 1 .. Len(requests) /\ requests'[i] = requests[i]
  <2>1. requests \in Seq(IM!ValueRequest) /\ Len(requests) \in Nat
    BY DomainOf DEF TypeOK
  <2>2. 1 \in 1 .. Len(requests) + 1 /\ n \in 1 - 1 .. Len(requests)
    BY <2>1
  <2>3. /\ SubSeq(requests, 1, n) \in Seq(IM!ValueRequest)
        /\ Len(SubSeq(requests, 1, n)) = IF 1 <= n THEN n - 1 + 1 ELSE 0
        /\ \A i \in 1 .. n - 1 + 1 : SubSeq(requests, 1, n)[i] = requests[1 + i - 1]
    BY <2>1, <2>2, SubSeqProperties
  <2>4. \A i \in 1 .. n : i \in 1 .. n - 1 + 1 /\ 1 + i - 1 = i /\ i \in 1 .. Len(requests)
    BY <2>1
  <2>5. Len(SubSeq(requests, 1, n)) = n
    BY <2>1, <2>3
  <2> QED
    BY <1>1, <2>1, <2>3, <2>4, <2>5
<1>4. /\ ws_clients' = {} /\ sending' = <<>> /\ leaving' = {} /\ IM!active_uids' = {}
      /\ min_separation_ms' = InitialSeparation /\ IM!TypeOK'
  BY <1>2, ControlPathAssumption DEF IM!Restarted, IM!TypeOK, IM!active_uids
<1>5. TypeOK'
  <2>1. matches' \in Seq(ChangedStatus) /\ pending' \in Seq(ChangedStatus)
    BY <1>2, EmptySeq
  <2>2. /\ replay' \in [pc : {"idle", "holding", "period", "reconcile", "adds"},
                        period : Separation, uids : SUBSET Uid]
        /\ replay'.pc = "adds" <=> replay'.uids # {}
    BY <1>2, ControlPathAssumption DEF NoReplay
  <2>3. excess' \subseteq Uid
    BY <1>2 DEF TypeOK
  <2> QED
    BY <1>2, <1>3, <1>4, <2>1, <2>2, <2>3 DEF TypeOK, ST!selected, ChangedStatus
<1>6. NothingYet' /\ SendsTrue'
  BY <1>4, Sendings DEF NothingYet, SendsTrue
<1>7. Processes'
  <2>1. ~up => requests' = <<>>
    <3>1. ~up => Len(requests) = 0
      BY EmptySeq DEF Processes
    <3>2. ~up => Len(requests') = 0
      BY <1>3, <3>1
    <3> QED
      BY <1>3, <3>2, EmptySeq
  <2> QED
    BY <1>2, <2>1 DEF Processes, NoReplay
<1>8. ASSUME NEW u \in Uid PROVE Accounted(u)'
  <2>1. Selecting(u)' => u \in ST!selected \/ \E i \in 1 .. Len(requests) : requests[i] \in Adds(u)
    <3>1. Selecting(u)' => u \in ST!selected' \/ \E i \in 1 .. Len(requests') : requests'[i] \in Adds(u)
      <4>1. Selecting(u)' <=> Outcome(requests', Adds(u), Deletes(u), u, ST!selected')
        BY DEF Selecting
      <4> QED
        BY <4>1, OutcomeHasCause
    <3>2. ST!selected' = ST!selected
      BY <1>2 DEF ST!selected
    <3> QED
      BY <1>3, <3>1, <3>2
  <2>2. up /\ Selecting(u)' => u \in left
    BY <2>1 DEF Adds, ST!contains
  <2> QED
    BY <1>2, <2>2 DEF Accounted
<1>9. Forced' /\ \A u \in Uid : Reached(u)'
  BY <1>2 DEF Forced, Reached
<1> QED
  BY <1>5, <1>6, <1>7, <1>8, <1>9

----------------------------------------------------------------------------
(* Every step keeps the invariant.                                          *)
LEMMA NextKeepsInv == IInv /\ [Next]_vars => IInv'
<1> SUFFICES ASSUME IInv, [Next]_vars PROVE IInv'
  OBVIOUS
<1>1. CASE \/ \E c \in Client : Connect(c) \/ Disconnect(c)
           \/ \E c \in Client, u \in Uid : Subscribe(c, u) \/ Unsubscribe(c, u)
           \/ \E p \in Separation : SetMinSeparation(p)
           \/ \E u \in Uid : ReleaseNext(u)
  <2>1. WebStep(WebOperation)
    BY <1>1 DEF Connect, Disconnect, Subscribe, Unsubscribe, SetMinSeparation, ReleaseNext,
                WebStep, WebOperation
  <2> QED
    BY <2>1, WebOperationStep
<1>2. CASE CallbackWrites
  BY <1>2, CallbackStep
<1>3. CASE WriterConstructed \/ WriterRegistered \/ StartReturns
  BY <1>3, WriterSteps
<1>4. CASE FlushMatch
  BY <1>4, FlushStep
<1>5. CASE WriterBeingCreated
  BY <1>5, HoldingStep
<1>6. CASE MatchHeldBack
  BY <1>6, HeldBackStep
<1>7. CASE MatchDelivered
  BY <1>7, DeliveredStep
<1>8. CASE ReplayPeriod
  BY <1>8, ReplayPeriodStep
<1>9. CASE Reconcile
  BY <1>9, ReconcileStep
<1>10. ASSUME NEW u \in Uid, ReplayAdd(u) PROVE IInv'
  BY <1>10, ReplayAddStep
<1>11. CASE SelectorStart
  BY <1>11, StartStep
<1>12. CASE Match
  BY <1>12, MatchStep
<1>13. CASE SelectorStop \/ SelectorCrash
  BY <1>13, GoneStep
<1>14. CASE LeaseExpires
  BY <1>14, LeaseStep
<1>15. CASE HandleRequest
  BY <1>15, HandleStep
<1>16. CASE WebRestart
  BY <1>16, WebRestartStep
<1>17. CASE UNCHANGED vars
  <2>1. UNCHANGED <<web, writer, pending, matches, replay, linked, dead, requests, up,
                    subscriptions, separation_in_force, missing, excess, stale_period>>
    BY <1>17 DEF vars, gateway, listener, selector, history
  <2>2. /\ IM!TypeOK' /\ SendsTrue' /\ NothingYet'
        /\ IM!active_uids' = IM!active_uids
        /\ UNCHANGED <<ws_clients, uids, refcounts, min_separation_ms, leaving, sending, told>>
    BY <2>1, InterestKept
  <2>3. /\ \A u : Selecting(u)' <=> Selecting(u)
        /\ \A p : Forcing(p)' <=> Forcing(p)
    BY <2>1, Untouched
  <2>4. TypeOK' /\ Processes'
    BY <2>1, <2>2 DEF IInv, TypeOK, Processes, ST!selected
  <2>5. ASSUME NEW u \in Uid PROVE (Accounted(u) => Accounted(u)') /\ (Reached(u) => Reached(u)')
    BY <2>1, <2>2, <2>3 DEF Accounted, Reached, Promised
  <2>6. Forced => Forced'
    BY <2>1, <2>2, <2>3 DEF Forced
  <2> QED
    BY <2>2, <2>4, <2>5, <2>6 DEF IInv
<1> QED
  BY <1>1, <1>2, <1>3, <1>4, <1>5, <1>6, <1>7, <1>8, <1>9, <1>10, <1>11, <1>12, <1>13, <1>14,
     <1>15, <1>16, <1>17 DEF Next

(* The strengthened invariant: whatever the subscriptions, the replays and   *)
(* the deaths of either process, the selection and the separation that the  *)
(* requests under way lead to are accounted for.                            *)
THEOREM Invariant == Spec => []IInv
BY InitInv, NextKeepsInv, PTL DEF Spec

(* The types, with what they say of both processes: a writer is matched     *)
(* only with a running selector, and nothing is held back once start has    *)
(* returned.                                                                *)
THEOREM TypeCorrect == Spec => []TypeOK
<1>1. IInv => TypeOK
  BY InvImplies
<1> QED
  BY <1>1, Invariant, PTL

(* The selector comes to have no uid but those wanted, those of its start-up *)
(* range, and those left behind in a known way.                             *)
THEOREM OnlyWantedForwarded == Spec => []NothingElseForwarded
<1>1. IInv => NothingElseForwarded
  BY InvImplies
<1> QED
  BY <1>1, Invariant, PTL

(* No wanted uid is lost by any order of subscription, match, replay, crash  *)
(* and restart, if a selector starts only when its predecessor's lease is   *)
(* out.  Without that the run lease shows one lost.                         *)
THEOREM WantedIsOnItsWay ==
  ASSUME RestartAfterLease
  PROVE  Spec => []NoBlankDisplay
<1>1. IInv => NoBlankDisplay
  BY InvImplies
<1> QED
  BY <1>1, Invariant, PTL

(* Nor is the separation, under the same condition.                         *)
THEOREM SeparationIsOnItsWay ==
  ASSUME RestartAfterLease
  PROVE  Spec => []SeparationFollows
<1>1. IInv => SeparationFollows
  BY InvImplies
<1> QED
  BY <1>1, Invariant, PTL

----------------------------------------------------------------------------
(* The two together: whatever the selector, the listener thread and DDS do, *)
(* the web side goes through the steps of InterestManager, so what holds of *)
(* that alone holds here.                                                   *)

W == INSTANCE InterestManager_proofs

(* What InterestManager asks of the constants.                              *)
LEMMA WebAssumption == W!InterestAssumption
BY ControlPathAssumption DEF W!InterestAssumption, IsFiniteSet, W!IsFiniteSet

(* The two instances of InterestManager say the same.                       *)
LEMMA SameSteps == IM!Next => W!Next
<1> SUFFICES ASSUME IM!Next PROVE W!Next
  OBVIOUS
<1> USE DEF W!Next, IM!Idle, W!Idle, IM!AddRequest, W!AddRequest, IM!DeleteRequest,
            W!DeleteRequest
<1>1. ASSUME NEW c \in Client, IM!Connect(c) \/ IM!Disconnect(c) PROVE W!Next
  BY <1>1 DEF IM!Connect, W!Connect, IM!Disconnect, W!Disconnect
<1>2. ASSUME NEW c \in Client, NEW u \in Uid, IM!Subscribe(c, u) PROVE W!Next
  BY <1>2 DEF IM!Subscribe, W!Subscribe, IM!client_subscribe, W!client_subscribe
<1>3. ASSUME NEW c \in Client, NEW u \in Uid, IM!Unsubscribe(c, u) PROVE W!Next
  BY <1>3 DEF IM!Unsubscribe, W!Unsubscribe, IM!client_unsubscribe, W!client_unsubscribe,
              IM!release, W!release
<1>4. ASSUME NEW p \in Separation, IM!SetMinSeparation(p) PROVE W!Next
  BY <1>4 DEF IM!SetMinSeparation, W!SetMinSeparation, IM!PeriodRequest, W!PeriodRequest
<1>5. ASSUME NEW u \in Uid, IM!ReleaseNext(u) PROVE W!Next
  BY <1>5 DEF IM!ReleaseNext, W!ReleaseNext, IM!release, W!release
<1>6. CASE IM!CallbackReturns
  BY <1>6 DEF IM!CallbackReturns, W!CallbackReturns, IM!Obey, W!Obey
<1> QED
  BY <1>1, <1>2, <1>3, <1>4, <1>5, <1>6 DEF IM!Next

(* A step of either process is one of the web side's handlers, or leaves    *)
(* its state alone, or is its restart.                                      *)
LEMMA WebSteps == [Next]_vars => [IM!Next \/ IM!Restarted]_(IM!vars)
<1> SUFFICES ASSUME [Next]_vars PROVE IM!Next \/ IM!Restarted \/ UNCHANGED IM!vars
  OBVIOUS
<1>1. ASSUME NEW c \in Client, Connect(c) \/ Disconnect(c) PROVE IM!Next
  BY <1>1 DEF Connect, Disconnect, WebStep, IM!Next
<1>2. ASSUME NEW c \in Client, NEW u \in Uid, Subscribe(c, u) \/ Unsubscribe(c, u) PROVE IM!Next
  BY <1>2 DEF Subscribe, Unsubscribe, WebStep, IM!Next
<1>3. ASSUME NEW p \in Separation, SetMinSeparation(p) PROVE IM!Next
  BY <1>3 DEF SetMinSeparation, WebStep, IM!Next
<1>4. ASSUME NEW u \in Uid, ReleaseNext(u) PROVE IM!Next
  BY <1>4 DEF ReleaseNext, WebStep, IM!Next
<1>5. CASE CallbackWrites
  BY <1>5 DEF CallbackWrites, IM!Next
<1>6. CASE WebRestart
  BY <1>6 DEF WebRestart
<1>7. ASSUME UNCHANGED web PROVE UNCHANGED IM!vars
  BY <1>7 DEF web, IM!vars
<1>8. CASE WriterConstructed \/ WriterRegistered \/ FlushMatch \/ StartReturns
  BY <1>7, <1>8 DEF WriterConstructed, WriterRegistered, FlushMatch, StartReturns
<1>9. CASE \/ WriterBeingCreated \/ MatchHeldBack \/ MatchDelivered \/ ReplayPeriod
           \/ Reconcile \/ \E u \in Uid : ReplayAdd(u)
  BY <1>7, <1>9 DEF WriterBeingCreated, MatchHeldBack, MatchDelivered, ReplayPeriod, Reconcile,
                    ReplayAdd
<1>10. CASE Match \/ LeaseExpires \/ HandleRequest \/ SelectorStart
  BY <1>7, <1>10 DEF Match, LeaseExpires, HandleRequest, SelectorStart
<1>11. CASE SelectorStop \/ SelectorCrash
  BY <1>7, <1>11 DEF SelectorStop, SelectorCrash, SelectorGone
<1>12. CASE UNCHANGED vars
  BY <1>7, <1>12 DEF vars
<1> QED
  BY <1>1, <1>2, <1>3, <1>4, <1>5, <1>6, <1>8, <1>9, <1>10, <1>11, <1>12 DEF Next

(* Composed with everything else, the web side behaves as InterestManager   *)
(* says, until it is restarted and begins again.                            *)
THEOREM WebIsInterestManager ==
  Spec => IM!Init /\ [][IM!Next \/ IM!Restarted]_(IM!vars)
<1>1. Init => IM!Init
  BY DEF Init
<1> QED
  BY <1>1, WebSteps, PTL DEF Spec

(* What InterestManager_proofs proves of the web side alone holds of it     *)
(* here: the counts are exact, the commands alternate, and clients that     *)
(* have gone hold nothing.                                                  *)
LEMMA WebInvariant == Spec => []W!IInv
<1>1. IM!Init => W!IInv
  <2>1. IM!Init => W!Init
    BY DEF IM!Init, W!Init
  <2> QED
    BY <2>1, WebAssumption, W!InitInv
<1>2. Init => W!IInv
  BY <1>1 DEF Init
<1>3. IM!Init' => W!IInv'
  BY <1>1, PTL
<1>4. IM!Restarted => W!IInv'
  BY <1>3 DEF IM!Restarted, IM!Init
<1>5. W!IInv /\ [Next]_vars => W!IInv'
  <2> SUFFICES ASSUME W!IInv, [Next]_vars PROVE W!IInv'
    OBVIOUS
  <2>1. CASE IM!Restarted
    BY <1>4, <2>1
  <2>2. CASE [W!Next]_(W!vars)
    BY <2>2, WebAssumption, W!NextKeepsInv
  <2>3. UNCHANGED IM!vars => UNCHANGED W!vars
    BY DEF IM!vars, W!vars
  <2> QED
    BY <2>1, <2>2, <2>3, WebSteps, SameSteps
<1> QED
  BY <1>2, <1>5, PTL DEF Spec

(* When nothing is under way, what will be selected is selected, and no     *)
(* replay is ahead.                                                         *)
LEMMA NothingUnderWay ==
  ASSUME TypeOK, Settled
  PROVE  /\ \A u \in Uid : WillSelect(u) <=> u \in ST!selected
         /\ \A u \in Uid : ~WillReplay(u)
<1>1. requests = <<>> /\ sending = <<>> /\ matches = <<>> /\ pending = <<>> /\ replay.pc = "idle"
  BY DEF Settled, IM!Idle, TypeOK
<1>2. \A i \in 1 .. Len(<<>>) : FALSE
  BY EmptySeq
<1>3. Pipeline = <<>>
  BY <1>1 DEF Pipeline
<1>4. ASSUME NEW u \in Uid PROVE WillSelect(u) <=> u \in ST!selected
  BY <1>2, <1>3 DEF WillSelect, Concludes
<1>5. ASSUME NEW u \in Uid PROVE ~WillReplay(u)
  BY <1>1, <1>2 DEF WillReplay, ReplayAhead
<1> QED
  BY <1>4, <1>5

(* From the browsers to the selection table: when all is quiet the selector *)
(* forwards what the connected browsers want, whatever died, restarted,     *)
(* raised or was overtaken before, but for what missing and excess name.    *)
THEOREM SelectionFollowsBrowsers ==
  ASSUME RestartAfterLease
  PROVE  Spec => []SelectionIsInterest
<1>1. ASSUME IInv, W!IInv, Settled
      PROVE  LET wanted == UNION {uids[c] : c \in ws_clients} IN
             /\ wanted \subseteq ST!selected \cup missing
             /\ ST!selected \subseteq wanted \cup PreEnabled \cup excess
  <2> DEFINE wanted == UNION {uids[c] : c \in ws_clients}
  <2>1. IM!active_uids = wanted
    <3>1. W!Idle
      BY <1>1 DEF Settled, IM!Idle, W!Idle
    <3>2. W!active_uids = wanted
      BY <1>1, <3>1, WebAssumption, W!CountedIsWanted
    <3> QED
      BY <3>2 DEF IM!active_uids, W!active_uids
  <2> HIDE DEF wanted
  <2>2. TypeOK /\ NoBlankDisplay /\ NothingElseForwarded
    BY <1>1, InvImplies
  <2>3. linked /\ IM!active_uids \subseteq Uid /\ ST!selected \subseteq Uid
    BY <1>1, <2>2 DEF Settled, TypeOK, IM!active_uids
  <2>4. wanted \subseteq ST!selected \cup missing
    BY <1>1, <2>1, <2>2, <2>3, NothingUnderWay DEF NoBlankDisplay
  <2>5. ST!selected \subseteq wanted \cup PreEnabled \cup excess
    BY <1>1, <2>1, <2>2, <2>3, NothingUnderWay DEF NothingElseForwarded
  <2> QED
    BY <2>4, <2>5 DEF wanted
<1>2. IInv /\ W!IInv => SelectionIsInterest
  BY <1>1 DEF SelectionIsInterest
<1> QED
  BY <1>2, Invariant, WebInvariant, PTL

----------------------------------------------------------------------------
(* If writes do not raise once the writer is there, nothing is missing: the *)
(* writes that raise before that are PERIODs, for no uid is wanted yet.     *)
NothingMissing == missing = {} /\ (writer # "ready" => replay.uids = {})

(* An ADD is not lost, and no other command says anything of missing.       *)
LEMMA MissingStays ==
  ASSUME ~WritesMayFail, missing = {}, NEW r, NEW wanted, Write(r, wanted),
         writer = "ready" \/ r.op = "PERIOD", r.op \in {"ADD", "DELETE", "PERIOD"}
  PROVE  missing' = {}
<1>1. CASE Written(r) /\ Accounts(r, wanted)
  BY <1>1 DEF Accounts
<1>2. CASE Raised(r) /\ RaisedAccounts(r)
  BY <1>2 DEF Raised, RaisedAccounts
<1> QED
  BY <1>1, <1>2 DEF Write

(* Every step keeps it.                                                     *)
LEMMA NothingMissingStep ==
  ASSUME ~WritesMayFail, IInv, NothingMissing, [Next]_vars PROVE NothingMissing'
<1> USE DEF NothingMissing
<1>1. CASE \/ \E c \in Client : Connect(c) \/ Disconnect(c)
           \/ \E c \in Client, u \in Uid : Subscribe(c, u) \/ Unsubscribe(c, u)
           \/ \E p \in Separation : SetMinSeparation(p)
           \/ \E u \in Uid : ReleaseNext(u)
  BY <1>1 DEF Connect, Disconnect, Subscribe, Unsubscribe, SetMinSeparation, ReleaseNext, WebStep,
              gateway, listener, history
<1>2. CASE CallbackWrites
  <2>1. /\ sending # <<>> /\ Write(Head(sending), TRUE)
        /\ UNCHANGED <<writer, replay>> /\ IM!TypeOK /\ NothingYet
    BY <1>2 DEF CallbackWrites, IM!CallbackReturns, gateway, listener, IInv, TypeOK
  <2>2. writer = "ready"
    BY <2>1 DEF NothingYet
  <2>3. Head(sending) \in IM!ValueRequest
    BY <2>1 DEF IM!TypeOK
  <2>4. Head(sending).op \in {"ADD", "DELETE", "PERIOD"}
    BY <2>3 DEF IM!ValueRequest
  <2> QED
    BY <2>1, <2>2, <2>4, MissingStays
<1>3. CASE WriterConstructed \/ WriterRegistered \/ StartReturns
  BY <1>3 DEF WriterConstructed, WriterRegistered, StartReturns, listener, history
<1>4. CASE FlushMatch
  <2>1. /\ \/ Write(IM!PeriodRequest(min_separation_ms), TRUE)
           \/ UNCHANGED missing
        /\ UNCHANGED <<writer, replay>>
    BY <1>4 DEF FlushMatch, listener, history
  <2> QED
    BY <2>1, Fields, MissingStays
<1>5. CASE WriterBeingCreated \/ MatchHeldBack \/ MatchDelivered
  BY <1>5 DEF WriterBeingCreated, MatchHeldBack, MatchDelivered, NoReplay, gateway, history
<1>6. CASE ReplayPeriod
  <2>1. /\ Write(IM!PeriodRequest(replay.period), replay.period = min_separation_ms)
        /\ replay' = [NoReplay EXCEPT !.pc = "reconcile"] /\ writer' = writer
    BY <1>6 DEF ReplayPeriod, gateway
  <2>2. missing' = {}
    BY <2>1, Fields, MissingStays
  <2> QED
    BY <2>1, <2>2 DEF NoReplay
<1>7. CASE Reconcile
  BY <1>7 DEF Reconcile, NoReplay, gateway, history, IInv, NothingYet
<1>8. ASSUME NEW u \in Uid, ReplayAdd(u) PROVE NothingMissing'
  <2>1. /\ u \in replay.uids /\ Write(IM!AddRequest(u), u \in IM!active_uids)
        /\ writer' = writer
    BY <1>8 DEF ReplayAdd, gateway
  <2>2. writer = "ready"
    BY <2>1
  <2>3. missing' = {}
    BY <2>1, <2>2, Fields, MissingStays
  <2> QED
    BY <2>1, <2>2, <2>3
<1>9. CASE Match \/ LeaseExpires \/ HandleRequest \/ SelectorStart
  BY <1>9 DEF Match, LeaseExpires, HandleRequest, SelectorStart, gateway, listener, history
<1>10. CASE SelectorStop \/ SelectorCrash
  BY <1>10 DEF SelectorStop, SelectorCrash, SelectorGone, gateway
<1>11. CASE WebRestart
  BY <1>11 DEF WebRestart, NoReplay
<1>12. CASE UNCHANGED vars
  BY <1>12 DEF vars, gateway, listener, history
<1> QED
  BY <1>1, <1>2, <1>3, <1>4, <1>5, <1>6, <1>7, <1>8, <1>9, <1>10, <1>11, <1>12 DEF Next

(* Without raised writes and with leases that run out, SR-003 holds as it   *)
(* stands: when all is quiet every wanted uid is selected, whatever died,   *)
(* restarted or was overtaken before.  The run lease shows that the first   *)
(* hypothesis is needed; an ADD that raises is not sent again.              *)
THEOREM InterestIsReconciled ==
  ASSUME RestartAfterLease, ~WritesMayFail
  PROVE  Spec => []InterestReconciled
<1>1. Init => NothingMissing
  BY DEF Init, NothingMissing, NoReplay
<1>2. IInv /\ NothingMissing /\ [Next]_vars => NothingMissing'
  BY NothingMissingStep
<1>3. IInv /\ NothingMissing => InterestReconciled
  <2> SUFFICES ASSUME IInv, NothingMissing, Settled PROVE IM!active_uids \subseteq ST!selected
    BY DEF InterestReconciled
  <2>1. TypeOK /\ NoBlankDisplay
    BY InvImplies
  <2>2. linked /\ IM!active_uids \subseteq Uid /\ missing = {}
    BY DEF Settled, IM!active_uids, NothingMissing
  <2> QED
    BY <2>1, <2>2, NothingUnderWay DEF NoBlankDisplay
<1> QED
  BY <1>1, <1>2, <1>3, Invariant, PTL DEF Spec
=============================================================================
