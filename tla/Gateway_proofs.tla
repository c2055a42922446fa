-------------------------- MODULE Gateway_proofs --------------------------
(***************************************************************************)
(* Proofs about Gateway: for every set of configuration files, start makes *)
(* exactly the configurations it should, each entry gets the writer it was *)
(* configured with, and REST and pushes of a name share one reader.        *)
(***************************************************************************)
EXTENDS Gateway, TLAPS

----------------------------------------------------------------------------
(* load_config: a file's entries keep their place and everything but an     *)
(* omitted type.                                                           *)
LEMMA LoadedIsEntry == \A entry \in Entry : Loaded(entry) \in Entry
BY DEF Loaded, Entry

(* A file of entries is loaded as a file of entries.                        *)
LEMMA LoadedIsFile == \A file \in File : load_config(file) \in File
<1> SUFFICES ASSUME NEW file \in File PROVE load_config(file) \in File
  OBVIOUS
<1> DEFINE ts == [i \in DOMAIN file.topics |-> Loaded(file.topics[i])]
           ws == [i \in DOMAIN file.writers |-> Loaded(file.writers[i])]
<1>1. ts \in Seq(Entry)
  <2>1. file.topics \in Seq(Entry)
    BY DEF File
  <2>2. \A i \in 1 .. Len(file.topics) : Loaded(file.topics[i]) \in Entry
    BY <2>1, LoadedIsEntry
  <2>3. DOMAIN file.topics = 1 .. Len(file.topics) /\ Len(file.topics) \in Nat
    BY <2>1
  <2>4. ts \in [1 .. Len(file.topics) -> Entry]
    BY <2>2, <2>3
  <2> QED
    BY <2>3, <2>4
<1>2. ws \in Seq(Entry)
  <2>1. file.writers \in Seq(Entry)
    BY DEF File
  <2>2. \A i \in 1 .. Len(file.writers) : Loaded(file.writers[i]) \in Entry
    BY <2>1, LoadedIsEntry
  <2>3. DOMAIN file.writers = 1 .. Len(file.writers) /\ Len(file.writers) \in Nat
    BY <2>1
  <2>4. ws \in [1 .. Len(file.writers) -> Entry]
    BY <2>2, <2>3
  <2> QED
    BY <2>3, <2>4
<1>3. load_config(file) = [file EXCEPT !.topics = ts, !.writers = ws]
  BY DEF load_config
<1> QED
  BY <1>1, <1>2, <1>3 DEF File

----------------------------------------------------------------------------
N == Len(cfg.topics)

(* How far start has come, in terms of the entries it has been through.     *)
TopicsMade ==
  /\ \A i \in DOMAIN cfg.topics : i < next =>
       /\ Resolved(cfg.topics[i])
       /\ DdsTopic(cfg.topics[i]) \in dds_topics
       /\ cfg.topics[i].name \in DOMAIN _topics
  /\ \A i, j \in DOMAIN cfg.topics :
       i < next /\ j < next /\ i # j /\ SameName(i, j)
         => cfg.topics[i].participant # cfg.topics[j].participant
  /\ \A name \in DOMAIN _topics :
       /\ _topics[name] \in DOMAIN cfg.topics /\ _topics[name] < next
       /\ cfg.topics[_topics[name]].name = name
       /\ \A j \in DOMAIN cfg.topics :
            j < next /\ cfg.topics[j].name = name => j <= _topics[name]

WriterMade(w) ==
  LET wc == cfg.writers[w] IN
  /\ Resolved(wc)
  /\ wc.name \in DOMAIN _writers
  /\ wc.name \notin DOMAIN _topics => _writers[wc.name] = DdsTopic(wc)
  /\ wc.name \in DOMAIN _topics =>
       LET tc == cfg.topics[_topics[wc.name]] IN
       _writers[wc.name] = DdsTopic(tc) /\ tc.participant = wc.participant

WritersMade == \A w \in DOMAIN cfg.writers : N + w < next => WriterMade(w)

(* No DDS Topic but those of the entries start has been through. *)
NoOtherTopic ==
  \A t \in dds_topics :
    \/ \E i \in DOMAIN cfg.topics : i < next /\ t = DdsTopic(cfg.topics[i])
    \/ \E w \in DOMAIN cfg.writers : N + w < next /\ t = DdsTopic(cfg.writers[w])

UniqueWriters ==
  \A v, w \in DOMAIN cfg.writers : cfg.writers[v].name = cfg.writers[w].name => v = w

Started == pc \in {"starting", "running", "stopping"}

(* The inductive invariant. *)
StartInv ==
  /\ cfg \in File /\ next \in Nat \ {0}
  /\ pc \in {"loaded", "refused", "accepted", "starting", "failed",
             "running", "stopping", "closed"}
  /\ pc \in {"loaded", "refused", "accepted"} =>
       next = 1 /\ dds_topics = {} /\ _topics = <<>>
  /\ pc \notin {"loaded", "refused"} => UniqueWriters
  /\ Started =>
       /\ cfg.qos_profiles # "unreadable"
       /\ TopicsMade /\ WritersMade /\ NoOtherTopic
  /\ pc \in {"running", "stopping"} => next = N + Len(cfg.writers) + 1
  /\ pc = "failed" => Unstartable

(* Before start nothing is made.                                            *)
LEMMA InitStart == Init => StartInv
<1> SUFFICES ASSUME Init PROVE StartInv
  OBVIOUS
<1>1. cfg \in File
  BY GatewayAssumption, LoadedIsFile DEF Init
<1> QED
  BY <1>1 DEF Init, StartInv, Started

(* The two facts about the sequences the steps count on. *)
LEMMA Lengths ==
  ASSUME cfg \in File
  PROVE  /\ N \in Nat /\ DOMAIN cfg.topics = 1 .. N
         /\ Len(cfg.writers) \in Nat /\ DOMAIN cfg.writers = 1 .. Len(cfg.writers)
BY DEF File, N

(* A topic entry: what goes wrong is one of the exceptions, and what goes   *)
(* right extends TopicsMade by one entry.                                   *)
LEMMA ReaderStep == StartInv /\ _create_readers => StartInv'
<1> SUFFICES ASSUME StartInv, _create_readers PROVE StartInv'
  OBVIOUS
<1> USE DEF N
<1>1. /\ N \in Nat /\ DOMAIN cfg.topics = 1 .. N
      /\ Len(cfg.writers) \in Nat /\ DOMAIN cfg.writers = 1 .. Len(cfg.writers)
  BY Lengths DEF StartInv
<1> DEFINE tc == cfg.topics[next]
<1>2. /\ pc = "starting" /\ next \in 1 .. N /\ next' = next + 1
      /\ cfg' = cfg /\ _writers' = _writers /\ UniqueWriters
      /\ cfg.qos_profiles # "unreadable" /\ cfg \in File
      /\ TopicsMade /\ WritersMade /\ NoOtherTopic
  BY <1>1 DEF _create_readers, StartInv, Started, Fail, entities
<1>3. CASE Resolved(tc) /\ ~Taken(tc)
  <2>1. /\ dds_topics' = dds_topics \cup {DdsTopic(tc)}
        /\ _topics' = Put(_topics, tc.name, next) /\ pc' = pc
    BY <1>3 DEF _create_readers, Made, Resolved
  <2>2. /\ DOMAIN _topics' = DOMAIN _topics \cup {tc.name}
        /\ _topics'[tc.name] = next
        /\ \A name \in DOMAIN _topics : name # tc.name => _topics'[name] = _topics[name]
    BY <2>1 DEF Put
  <2>3. \A i \in DOMAIN cfg.topics : i < next /\ cfg.topics[i].name = tc.name
          => cfg.topics[i].participant # tc.participant
    BY <1>2, <1>3 DEF TopicsMade, Taken, DdsTopic
  <2>4. \A i \in DOMAIN cfg.topics : i < next + 1 => i < next \/ i = next
    BY <1>1, <1>2
  <2>5. TopicsMade'
    <3>1. \A i \in DOMAIN cfg.topics : i < next + 1 =>
            /\ Resolved(cfg.topics[i])
            /\ DdsTopic(cfg.topics[i]) \in dds_topics'
            /\ cfg.topics[i].name \in DOMAIN _topics'
      BY <1>2, <1>3, <2>1, <2>2, <2>4 DEF TopicsMade
    <3>2. \A i, j \in DOMAIN cfg.topics :
            i < next + 1 /\ j < next + 1 /\ i # j /\ SameName(i, j)
              => cfg.topics[i].participant # cfg.topics[j].participant
      BY <1>2, <2>3, <2>4 DEF TopicsMade, SameName
    <3>3. ASSUME NEW name \in DOMAIN _topics'
          PROVE  /\ _topics'[name] \in DOMAIN cfg.topics /\ _topics'[name] < next + 1
                 /\ cfg.topics[_topics'[name]].name = name
                 /\ \A j \in DOMAIN cfg.topics :
                      j < next + 1 /\ cfg.topics[j].name = name => j <= _topics'[name]
      <4>1. CASE name = tc.name
        BY <1>1, <1>2, <2>2, <4>1
      <4>2. CASE name # tc.name
        <5>1. name \in DOMAIN _topics /\ _topics'[name] = _topics[name]
          BY <2>2, <4>2
        <5> QED
          BY <1>1, <1>2, <2>4, <4>2, <5>1 DEF TopicsMade
      <4> QED
        BY <4>1, <4>2
    <3> QED
      BY <1>2, <3>1, <3>2, <3>3 DEF TopicsMade, SameName, Resolved, _TYPE_MAP, DdsTopic
  <2>6. WritersMade'
    BY <1>1, <1>2 DEF WritersMade
  <2>7. NoOtherTopic'
    <3> SUFFICES ASSUME NEW t \in dds_topics'
                 PROVE  \E i \in DOMAIN cfg.topics : i < next + 1 /\ t = DdsTopic(cfg.topics[i])
      BY <1>2 DEF NoOtherTopic, DdsTopic
    <3>1. CASE t \in dds_topics
      BY <1>1, <1>2, <3>1 DEF NoOtherTopic
    <3>2. CASE t = DdsTopic(tc)
      BY <1>1, <1>2, <3>2
    <3> QED
      BY <2>1, <3>1, <3>2
  <2> QED
    BY <1>1, <1>2, <2>1, <2>5, <2>6, <2>7 DEF StartInv, Started, UniqueWriters
<1>4. CASE ~(Resolved(tc) /\ ~Taken(tc))
  <2>1. pc' = "failed"
    BY <1>4 DEF _create_readers, Fail
  <2>2. ASSUME ~Resolved(tc) PROVE Unstartable
    BY <1>1, <1>2, <2>2 DEF Unstartable
  <2>3. ASSUME Taken(tc) PROVE Unstartable
    <3>1. PICK t \in dds_topics : t.name = tc.name /\ t.participant = tc.participant
      BY <2>3 DEF Taken
    <3>2. PICK i \in DOMAIN cfg.topics : i < next /\ t = DdsTopic(cfg.topics[i])
      BY <1>1, <1>2 DEF NoOtherTopic
    <3>3. i # next /\ SameName(i, next) /\ cfg.topics[i].participant = cfg.topics[next].participant
      BY <1>1, <1>2, <3>1, <3>2 DEF SameName, DdsTopic
    <3> QED
      BY <1>1, <1>2, <3>3 DEF Unstartable
  <2>4. Unstartable
    BY <1>4, <2>2, <2>3
  <2>5. Unstartable'
    BY <1>2, <2>4 DEF Unstartable, Last, SameName, Resolved
  <2> QED
    BY <1>1, <1>2, <2>1, <2>5 DEF StartInv, Started, UniqueWriters
<1> QED
  BY <1>3, <1>4

(* A writer entry, when every topic entry has been through.                 *)
LEMMA WriterStep == StartInv /\ _create_writers => StartInv'
<1> SUFFICES ASSUME StartInv, _create_writers PROVE StartInv'
  OBVIOUS
<1> USE DEF N
<1>1. /\ N \in Nat /\ DOMAIN cfg.topics = 1 .. N
      /\ Len(cfg.writers) \in Nat /\ DOMAIN cfg.writers = 1 .. Len(cfg.writers)
  BY Lengths DEF StartInv
<1> DEFINE k == next - N
           wc == cfg.writers[k]
           topic == TopicFor(wc)
<1>2. /\ pc = "starting" /\ k \in 1 .. Len(cfg.writers) /\ next' = next + 1
      /\ next \in Nat /\ cfg' = cfg /\ _topics' = _topics /\ UniqueWriters
      /\ cfg.qos_profiles # "unreadable" /\ cfg \in File
      /\ TopicsMade /\ WritersMade /\ NoOtherTopic
  BY <1>1 DEF _create_writers, StartInv, Started, Fail, entities
<1>3. /\ next = N + k /\ k' = k + 1
      /\ \A i \in DOMAIN cfg.topics : i < next
      /\ \A w \in DOMAIN cfg.writers : N + w < next + 1 => N + w < next \/ w = k
  BY <1>1, <1>2
<1> HIDE DEF k
<1>4. ASSUME Reused(wc)
      PROVE  /\ topic = DdsTopic(cfg.topics[_topics[wc.name]])
             /\ _topics[wc.name] \in DOMAIN cfg.topics
             /\ cfg.topics[_topics[wc.name]].name = wc.name
             /\ Last(_topics[wc.name])
             /\ topic \in dds_topics
  <2>1. wc.name \in DOMAIN _topics /\ topic = DdsTopic(cfg.topics[_topics[wc.name]])
    BY <1>4 DEF Reused, TopicFor
  <2> QED
    BY <1>2, <1>3, <2>1 DEF TopicsMade, Last, SameName
<1>5. ASSUME ~Reused(wc)
      PROVE  topic = DdsTopic(wc) /\ wc.name \notin DOMAIN _topics /\ ~Taken(wc)
  <2>1. wc.name \notin DOMAIN _topics /\ topic = DdsTopic(wc)
    BY <1>5 DEF Reused, TopicFor
  <2>2. ASSUME NEW t \in dds_topics, t.name = wc.name PROVE FALSE
    <3>1. CASE \E i \in DOMAIN cfg.topics : i < next /\ t = DdsTopic(cfg.topics[i])
      BY <1>2, <2>1, <2>2, <3>1 DEF TopicsMade, DdsTopic
    <3>2. CASE \E w \in DOMAIN cfg.writers : N + w < next /\ t = DdsTopic(cfg.writers[w])
      <4>1. PICK w \in DOMAIN cfg.writers : N + w < next /\ t = DdsTopic(cfg.writers[w])
        BY <3>2
      <4>2. cfg.writers[w].name = wc.name /\ w # k
        BY <1>1, <1>2, <1>3, <2>2, <4>1 DEF DdsTopic
      <4> QED
        BY <1>1, <1>2, <4>2 DEF UniqueWriters
    <3> QED
      BY <1>2, <3>1, <3>2 DEF NoOtherTopic
  <2> QED
    BY <2>1, <2>2 DEF Taken
<1> DEFINE Sound == Resolved(wc) /\ topic.participant = wc.participant
                      /\ (Reused(wc) \/ ~Taken(wc))
<1>6. CASE Sound
  <2>1. /\ dds_topics' = dds_topics \cup {topic}
        /\ _writers' = Put(_writers, wc.name, topic) /\ pc' = pc
    BY <1>6 DEF _create_writers, Made, Resolved, k
  <2>2. /\ DOMAIN _writers' = DOMAIN _writers \cup {wc.name}
        /\ _writers'[wc.name] = topic
        /\ \A name \in DOMAIN _writers : name # wc.name => _writers'[name] = _writers[name]
    BY <2>1 DEF Put
  <2>3. TopicsMade'
    <3>1. \A i \in DOMAIN cfg.topics :
            /\ Resolved(cfg.topics[i])
            /\ DdsTopic(cfg.topics[i]) \in dds_topics'
            /\ cfg.topics[i].name \in DOMAIN _topics
      BY <1>2, <1>3, <2>1 DEF TopicsMade
    <3>2. \A i, j \in DOMAIN cfg.topics :
            i # j /\ SameName(i, j) => cfg.topics[i].participant # cfg.topics[j].participant
      BY <1>2, <1>3 DEF TopicsMade
    <3>3. \A name \in DOMAIN _topics :
            /\ _topics[name] \in DOMAIN cfg.topics /\ _topics[name] < next + 1
            /\ cfg.topics[_topics[name]].name = name
            /\ \A j \in DOMAIN cfg.topics : cfg.topics[j].name = name => j <= _topics[name]
      BY <1>1, <1>2, <1>3 DEF TopicsMade
    <3> QED
      BY <1>2, <3>1, <3>2, <3>3 DEF TopicsMade, SameName, Resolved, _TYPE_MAP, DdsTopic
  <2>4. WritersMade'
    <3> SUFFICES ASSUME NEW w \in (DOMAIN cfg.writers)', (N + w < next)'
                 PROVE  WriterMade(w)'
      BY DEF WritersMade
    <3>0. w \in DOMAIN cfg.writers /\ N + w < next + 1
      BY <1>2
    <3>1. CASE N + w < next
      <4>1. WriterMade(w) /\ w # k
        BY <1>1, <1>2, <1>3, <3>0, <3>1 DEF WritersMade
      <4>2. cfg.writers[w].name # wc.name
        BY <1>1, <1>2, <3>0, <4>1 DEF UniqueWriters
      <4>3. cfg.writers[w].name \in DOMAIN _writers
        BY <4>1 DEF WriterMade
      <4>4. _writers'[cfg.writers[w].name] = _writers[cfg.writers[w].name]
        BY <2>2, <4>2, <4>3
      <4> QED
        BY <1>2, <2>2, <4>1, <4>3, <4>4 DEF WriterMade, Resolved, DdsTopic
    <3>2. CASE w = k
      <4>1. CASE Reused(wc)
        BY <1>2, <1>4, <1>6, <2>2, <3>2, <4>1 DEF WriterMade, Resolved, DdsTopic, Reused
      <4>2. CASE ~Reused(wc)
        BY <1>2, <1>5, <1>6, <2>2, <3>2, <4>2 DEF WriterMade, Resolved, DdsTopic, Reused
      <4> QED
        BY <4>1, <4>2
    <3> QED
      BY <1>3, <3>0, <3>1, <3>2
  <2>5. NoOtherTopic'
    <3> SUFFICES ASSUME NEW t \in dds_topics'
                 PROVE  \/ \E i \in DOMAIN cfg.topics : i < next + 1 /\ t = DdsTopic(cfg.topics[i])
                        \/ \E w \in DOMAIN cfg.writers :
                             N + w < next + 1 /\ t = DdsTopic(cfg.writers[w])
      BY <1>2 DEF NoOtherTopic, DdsTopic
    <3>1. CASE t \in dds_topics
      BY <1>1, <1>2, <3>1 DEF NoOtherTopic
    <3>2. CASE t = topic /\ Reused(wc)
      <4>1. topic \in dds_topics
        BY <1>4, <3>2
      <4> QED
        BY <1>1, <1>2, <3>2, <4>1 DEF NoOtherTopic
    <3>3. CASE t = topic /\ ~Reused(wc)
      <4>1. t = DdsTopic(cfg.writers[k]) /\ k \in DOMAIN cfg.writers /\ N + k < next + 1
        BY <1>1, <1>2, <1>3, <1>5, <3>3
      <4> QED
        BY <4>1
    <3> QED
      BY <2>1, <3>1, <3>2, <3>3
  <2> QED
    BY <1>1, <1>2, <2>1, <2>3, <2>4, <2>5 DEF StartInv, Started, UniqueWriters
<1>7. CASE ~Sound
  <2>1. pc' = "failed"
    BY <1>7 DEF _create_writers, Fail, k
  <2>2. ASSUME ~Resolved(wc) PROVE Unstartable
    BY <1>1, <1>2, <2>2 DEF Unstartable
  <2>3. ASSUME topic.participant # wc.participant PROVE Unstartable
    <3>1. Reused(wc)
      BY <1>5, <2>3 DEF DdsTopic
    <3> DEFINE i == _topics[wc.name]
    <3>2. /\ i \in DOMAIN cfg.topics /\ k \in DOMAIN cfg.writers
          /\ cfg.topics[i].name = cfg.writers[k].name /\ Last(i)
          /\ cfg.topics[i].participant # cfg.writers[k].participant
      BY <1>1, <1>2, <1>4, <2>3, <3>1 DEF DdsTopic
    <3> HIDE DEF i
    <3> QED
      BY <3>2 DEF Unstartable
  <2>4. Unstartable
    BY <1>5, <1>7, <2>2, <2>3
  <2>5. Unstartable'
    BY <1>2, <2>4 DEF Unstartable, Last, SameName, Resolved
  <2> QED
    BY <1>1, <1>2, <2>1, <2>5 DEF StartInv, Started, UniqueWriters
<1> QED
  BY <1>6, <1>7

(* The steps around them. *)
LEMMA OtherSteps ==
  ASSUME StartInv,
         \/ Load \/ start \/ StartReturns \/ stop \/ Close
         \/ \E i \in Topic : SampleArrives(i) \/ _reader_loop(i) \/ Cancelled(i)
         \/ UNCHANGED vars
  PROVE  StartInv'
<1> USE DEF StartInv, Started, N, UniqueWriters, entities, loops
<1>1. /\ N \in Nat /\ DOMAIN cfg.topics = 1 .. N
      /\ Len(cfg.writers) \in Nat /\ DOMAIN cfg.writers = 1 .. Len(cfg.writers)
  BY Lengths
<1>2. ASSUME UNCHANGED <<cfg, next, entities>>
      PROVE  /\ TopicsMade' = TopicsMade /\ WritersMade' = WritersMade
             /\ NoOtherTopic' = NoOtherTopic /\ Unstartable' = Unstartable
  BY <1>2 DEF TopicsMade, WritersMade, WriterMade, NoOtherTopic, Unstartable, Last,
              SameName, Resolved, DdsTopic
<1>3. CASE Load
  BY <1>2, <1>3 DEF Load, _validate
<1>4. CASE start
  <2>1. UNCHANGED <<cfg, next, entities>> /\ pc = "accepted"
    BY <1>4 DEF start
  <2>2. pc' = "failed" => Unstartable
    BY <1>4 DEF start, Unstartable
  <2>3. TopicsMade /\ WritersMade /\ NoOtherTopic
    BY <1>1, <2>1 DEF TopicsMade, WritersMade, NoOtherTopic
  <2> QED
    BY <1>2, <1>4, <2>1, <2>2, <2>3 DEF start
<1>5. CASE StartReturns
  BY <1>2, <1>5 DEF StartReturns
<1>6. CASE stop
  BY <1>2, <1>6 DEF stop
<1>7. CASE Close
  BY <1>7 DEF Close
<1>8. CASE \E i \in Topic : SampleArrives(i) \/ _reader_loop(i) \/ Cancelled(i)
  BY <1>2, <1>8 DEF SampleArrives, _reader_loop, Cancelled
<1>9. CASE UNCHANGED vars
  BY <1>2, <1>9 DEF vars
<1> QED
  BY <1>3, <1>4, <1>5, <1>6, <1>7, <1>8, <1>9

(* The invariant of start holds in every reachable state.                   *)
THEOREM StartInvariant == Spec => []StartInv
<1>1. Init => StartInv
  BY InitStart
<1>2. StartInv /\ [Next]_vars => StartInv'
  BY ReaderStep, WriterStep, OtherSteps DEF Next
<1> QED
  BY <1>1, <1>2, PTL DEF Spec

(* AcceptedStarts: a configuration load_config accepts starts, with exactly *)
(* the exceptions Unstartable names.                                        *)
THEOREM AcceptedConfigurationsStart == Spec => []AcceptedStarts
<1>1. StartInv => AcceptedStarts
  <2> SUFFICES ASSUME StartInv, pc \in {"running", "stopping"}, Unstartable PROVE FALSE
    BY DEF StartInv, AcceptedStarts
  <2>1. /\ N \in Nat /\ DOMAIN cfg.topics = 1 .. N
        /\ Len(cfg.writers) \in Nat /\ DOMAIN cfg.writers = 1 .. Len(cfg.writers)
    BY Lengths DEF StartInv
  <2>2. /\ next = N + Len(cfg.writers) + 1 /\ cfg.qos_profiles # "unreadable"
        /\ TopicsMade /\ WritersMade
    BY DEF StartInv, Started
  <2>3. /\ \A i \in DOMAIN cfg.topics : i < next
        /\ \A w \in DOMAIN cfg.writers : N + w < next
    BY <2>1, <2>2
  <2>4. ASSUME NEW i \in DOMAIN cfg.topics, NEW w \in DOMAIN cfg.writers,
               cfg.topics[i].name = cfg.writers[w].name, Last(i)
        PROVE  cfg.topics[i].participant = cfg.writers[w].participant
    <3> DEFINE j == _topics[cfg.writers[w].name]
    <3>1. /\ j \in DOMAIN cfg.topics /\ cfg.topics[j].name = cfg.topics[i].name /\ i <= j
          /\ cfg.topics[j].participant = cfg.writers[w].participant
      BY <2>2, <2>3, <2>4 DEF TopicsMade, WritersMade, WriterMade
    <3>2. j <= i
      BY <2>4, <3>1 DEF Last, SameName
    <3> QED
      BY <2>1, <3>1, <3>2
  <2> QED
    BY <2>2, <2>3, <2>4 DEF Unstartable, TopicsMade, WritersMade, WriterMade
<1> QED
  BY <1>1, StartInvariant, PTL

(* WritersAsConfigured: the writer of an entry is of the topic, participant *)
(* and type the entry says, unless a topic read under its name says another *)
(* type.                                                                    *)
THEOREM WritersAreAsConfigured == Spec => []WritersAsConfigured
<1>1. StartInv => WritersAsConfigured
  <2> SUFFICES ASSUME StartInv, pc = "running", NEW w \in DOMAIN cfg.writers
               PROVE  LET wc == cfg.writers[w] IN
                      /\ wc.name \in DOMAIN _writers
                      /\ \/ _writers[wc.name] = DdsTopic(wc)
                         \/ \E i \in DOMAIN cfg.topics :
                              /\ Last(i) /\ cfg.topics[i].type # wc.type
                              /\ DdsTopic(cfg.topics[i])
                                   = [DdsTopic(wc) EXCEPT !.type = cfg.topics[i].type]
                              /\ _writers[wc.name] = DdsTopic(cfg.topics[i])
    BY DEF WritersAsConfigured
  <2> DEFINE wc == cfg.writers[w]
             i == _topics[wc.name]
  <2>1. /\ N \in Nat /\ DOMAIN cfg.topics = 1 .. N
        /\ Len(cfg.writers) \in Nat /\ DOMAIN cfg.writers = 1 .. Len(cfg.writers)
    BY Lengths DEF StartInv
  <2>2. next = N + Len(cfg.writers) + 1 /\ TopicsMade /\ WritersMade
    BY DEF StartInv, Started
  <2>3. WriterMade(w) /\ \A j \in DOMAIN cfg.topics : j < next
    BY <2>1, <2>2 DEF WritersMade
  <2>4. CASE wc.name \notin DOMAIN _topics
    BY <2>3, <2>4 DEF WriterMade
  <2>5. CASE wc.name \in DOMAIN _topics
    <3>1. /\ i \in DOMAIN cfg.topics /\ cfg.topics[i].name = wc.name /\ Last(i)
          /\ _writers[wc.name] = DdsTopic(cfg.topics[i])
          /\ cfg.topics[i].participant = wc.participant
      BY <2>2, <2>3, <2>5 DEF TopicsMade, WriterMade, Last, SameName
    <3>2. wc.name \in DOMAIN _writers
      BY <2>3 DEF WriterMade
    <3>3. DdsTopic(cfg.topics[i]) = [DdsTopic(wc) EXCEPT !.type = cfg.topics[i].type]
      BY <3>1 DEF DdsTopic
    <3> HIDE DEF i, wc
    <3>4. cfg.topics[i].type = wc.type => DdsTopic(cfg.topics[i]) = DdsTopic(wc)
      BY <3>1 DEF DdsTopic
    <3> QED
      BY <3>1, <3>2, <3>3, <3>4 DEF wc
  <2> QED
    BY <2>4, <2>5
<1> QED
  BY <1>1, StartInvariant, PTL

----------------------------------------------------------------------------
(* TypeOK.  A loop has a topic entry because each TopicRuntime does, and    *)
(* none runs before start has returned.                                     *)
THEOREM TypeCorrect == Spec => []TypeOK
<1>1. Init => TypeOK
  BY GatewayAssumption, LoadedIsFile DEF Init, TypeOK
<1>2. StartInv /\ TypeOK /\ [Next]_vars => TypeOK'
  <2> SUFFICES ASSUME StartInv, TypeOK, [Next]_vars PROVE TypeOK'
    OBVIOUS
  <2> USE DEF TypeOK, N, entities, loops
  <2>1. /\ N \in Nat /\ DOMAIN cfg.topics = 1 .. N
        /\ Len(cfg.writers) \in Nat /\ DOMAIN cfg.writers = 1 .. Len(cfg.writers)
    BY Lengths
  <2>2. /\ \A i \in DOMAIN cfg.topics :
             DdsTopic(cfg.topics[i]) \in [name : STRING, participant : STRING, type : STRING]
        /\ \A w \in DOMAIN cfg.writers :
             DdsTopic(cfg.writers[w]) \in [name : STRING, participant : STRING, type : STRING]
    <3>1. cfg.topics \in Seq(Entry) /\ cfg.writers \in Seq(Entry)
      BY DEF File
    <3>2. /\ \A i \in DOMAIN cfg.topics : cfg.topics[i] \in Entry
          /\ \A w \in DOMAIN cfg.writers : cfg.writers[w] \in Entry
      BY <2>1, <3>1
    <3> QED
      BY <3>2 DEF Entry, DdsTopic
  <2>3. CASE Load \/ start \/ stop
    BY <2>3 DEF Load, start, stop
  <2>4. CASE _create_readers
    <3>1. CASE pc' = "failed"
      <4>1. /\ dds_topics \subseteq dds_topics' /\ next' = next + 1
            /\ dds_topics' \subseteq dds_topics \cup {DdsTopic(cfg.topics[next])}
            /\ next \in DOMAIN cfg.topics /\ UNCHANGED <<cfg, _writers, unread, loops>>
            /\ _topics' = _topics /\ pc = "starting"
        BY <2>4, <3>1 DEF _create_readers, Made, Fail
      <4> QED
        BY <2>2, <3>1, <4>1
    <3>2. CASE pc' # "failed"
      <4> DEFINE tc == cfg.topics[next]
      <4>1. /\ pc = "starting" /\ pc' = pc /\ next \in DOMAIN cfg.topics /\ next' = next + 1
            /\ dds_topics' = dds_topics \cup {DdsTopic(tc)}
            /\ _topics' = Put(_topics, tc.name, next)
            /\ UNCHANGED <<cfg, _writers, unread, loops>>
        BY <2>4, <3>2 DEF _create_readers, Made, Resolved, Fail
      <4>2. \A name \in DOMAIN _topics' : _topics'[name] \in DOMAIN cfg.topics
        BY <4>1 DEF Put
      <4> QED
        BY <2>2, <4>1, <4>2
    <3> QED
      BY <3>1, <3>2
  <2>5. CASE _create_writers
    <3> DEFINE wc == cfg.writers[next - N]
               topic == TopicFor(wc)
    <3>1. /\ next - N \in DOMAIN cfg.writers /\ next' = next + 1 /\ pc = "starting"
          /\ UNCHANGED <<cfg, _topics, unread, loops>>
          /\ dds_topics \subseteq dds_topics' /\ dds_topics' \subseteq dds_topics \cup {topic}
      BY <2>5 DEF _create_writers, Made, Fail
    <3>2. topic \in [name : STRING, participant : STRING, type : STRING]
      BY <2>2, <3>1 DEF TopicFor, Reused
    <3>3. CASE pc' = "failed"
      <4>1. _writers' = _writers
        BY <2>5, <3>3 DEF _create_writers, Fail
      <4> HIDE DEF topic
      <4> QED
        BY <3>1, <3>2, <3>3, <4>1
    <3>4. CASE pc' # "failed"
      <4>1. /\ pc = "starting" /\ pc' = pc /\ next - N \in DOMAIN cfg.writers /\ next' = next + 1
            /\ dds_topics' = dds_topics \cup {topic}
            /\ _writers' = Put(_writers, wc.name, topic)
            /\ UNCHANGED <<cfg, _topics, unread, loops>>
        BY <2>5, <3>4 DEF _create_writers, Made, Resolved, Fail
      <4> HIDE DEF topic
      <4>2. \A name \in DOMAIN _writers' : _writers'[name] \in dds_topics'
        BY <4>1 DEF Put
      <4> QED
        BY <3>2, <4>1, <4>2
    <3> QED
      BY <3>3, <3>4
  <2>6. CASE StartReturns
    BY <2>6 DEF StartReturns
  <2>7. ASSUME NEW i \in Topic, i <= Len(cfg.topics) /\ SampleArrives(i) PROVE TypeOK'
    BY <2>1, <2>7 DEF SampleArrives, Topic
  <2>8. ASSUME NEW i \in Topic, _reader_loop(i) \/ Cancelled(i) PROVE TypeOK'
    BY <2>8 DEF _reader_loop, Cancelled
  <2>9. CASE Close
    BY <2>9 DEF Close
  <2>10. CASE UNCHANGED vars
    BY <2>10 DEF vars
  <2> QED
    BY <2>3, <2>4, <2>5, <2>6, <2>7, <2>8, <2>9, <2>10 DEF Next
<1> QED
  BY <1>1, <1>2, StartInvariant, PTL DEF Spec

----------------------------------------------------------------------------
(* The loops of a running gateway: one for each runtime, of which only a    *)
(* command may have ended one.                                              *)
Served ==
  pc = "running" =>
    /\ waiting \cup raised = {_topics[name] : name \in DOMAIN _topics}
    /\ \A i \in raised : ~HasView(cfg.topics[i])

(* OneReaderPerTopic: of the entries of a name, the last has the runtime    *)
(* that REST reads and the loop that pushes, and no other entry has either. *)
THEOREM OneReaderIsRead == Spec => []OneReaderPerTopic
<1>1. Init => Served
  BY DEF Init, Served
<1>2. TypeOK /\ Served /\ [Next]_vars => Served'
  <2> SUFFICES ASSUME TypeOK, Served, [Next]_vars PROVE Served'
    OBVIOUS
  <2> USE DEF Served, entities, loops
  <2>1. CASE StartReturns
    BY <2>1 DEF StartReturns, TypeOK
  <2>2. ASSUME NEW i \in Topic, _reader_loop(i) PROVE Served'
    BY <2>2 DEF _reader_loop
  <2>3. ASSUME NEW i \in Topic, SampleArrives(i) PROVE Served'
    BY <2>3 DEF SampleArrives
  <2>4. CASE Load \/ start \/ stop \/ Close \/ \E i \in Topic : Cancelled(i)
    BY <2>4 DEF Load, start, stop, Close, Cancelled
  <2>5. CASE _create_readers \/ _create_writers
    BY <2>5 DEF _create_readers, _create_writers, Fail
  <2>6. CASE UNCHANGED vars
    BY <2>6 DEF vars
  <2> QED
    BY <2>1, <2>2, <2>3, <2>4, <2>5, <2>6 DEF Next
<1>3. StartInv /\ Served => OneReaderPerTopic
  <2> SUFFICES ASSUME StartInv, Served, pc = "running", NEW i \in DOMAIN cfg.topics
               PROVE  /\ Last(i) <=> _topics[cfg.topics[i].name] = i
                      /\ Last(i) <=> i \in waiting \cup raised
                      /\ i \in raised => ~HasView(cfg.topics[i])
    BY DEF OneReaderPerTopic
  <2> DEFINE name == cfg.topics[i].name
             k == _topics[name]
  <2>1. /\ N \in Nat /\ DOMAIN cfg.topics = 1 .. N
        /\ Len(cfg.writers) \in Nat /\ DOMAIN cfg.writers = 1 .. Len(cfg.writers)
    BY Lengths DEF StartInv
  <2>2. next = N + Len(cfg.writers) + 1 /\ TopicsMade
    BY DEF StartInv, Started
  <2>3. \A j \in DOMAIN cfg.topics : j < next
    BY <2>1, <2>2
  <2>4. /\ name \in DOMAIN _topics /\ k \in DOMAIN cfg.topics /\ cfg.topics[k].name = name
        /\ \A j \in DOMAIN cfg.topics : cfg.topics[j].name = name => j <= k
    BY <2>2, <2>3 DEF TopicsMade
  <2>5. Last(i) <=> k = i
    BY <2>1, <2>4 DEF Last, SameName
  <2>6. ASSUME NEW n \in DOMAIN _topics, _topics[n] = i PROVE k = i
    BY <2>2, <2>6 DEF TopicsMade
  <2>7. k = i <=> i \in waiting \cup raised
    BY <2>4, <2>6 DEF Served
  <2> QED
    BY <2>5, <2>7 DEF Served
<1> QED
  BY <1>1, <1>2, <1>3, StartInvariant, TypeCorrect, PTL DEF Spec
============================================================================
