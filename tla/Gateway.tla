------------------------------ MODULE Gateway ------------------------------
(***************************************************************************)
(* The life of scada_web around the traffic: the YAML file load_config      *)
(* reads and _validate accepts or refuses, DdsGateway.start, which makes    *)
(* the DDS entities of each entry in turn, the reader loops, and stop.      *)
(*                                                                         *)
(* start has no await in it, but DDS delivers to a reader from the moment   *)
(* it is made; the loops and stop share the asyncio thread.  An exception   *)
(* in start ends the process: uvicorn calls stop only after it returned.    *)
(* Matches and writes are ControlPath's, pushes and REST PushPath's.        *)
(***************************************************************************)
EXTENDS Integers, Sequences

CONSTANTS
  Files,        \* what the YAML file may say
  Participants, \* its participants, by name
  MaxTopics     \* entries under "topics"

Omitted == "omitted"

Entry == [name : STRING, participant : STRING, type : STRING, qos_profile : STRING]

File == [qos_profiles : STRING, separation : Int, topics : Seq(Entry), writers : Seq(Entry)]

ASSUME GatewayAssumption ==
  /\ Files \subseteq File /\ Participants \subseteq STRING /\ MaxTopics \in Nat
  /\ \A file \in Files : Len(file.topics) <= MaxTopics

VARIABLES
  cfg,         \* ScadaWebConfig
  pc,          \* how far main has come
  next,        \* the entry start is at: the topics, then the writers
  dds_topics,  \* the DDS Topics made
  _topics,     \* per name, the entry whose TopicRuntime it is
  _writers,    \* per name, the DDS Topic of the WriterRuntime
  unread,      \* readers with a new sample
  waiting,     \* entries whose reader loop runs
  raised       \* entries whose reader loop an exception ended

entities == <<dds_topics, _topics, _writers>>
loops == <<waiting, raised>>
vars == <<cfg, pc, next, entities, unread, loops>>

----------------------------------------------------------------------------
(* config.py. *)

(* The type defaults to the name, which _TYPE_MAP need not have. *)
Loaded(entry) == [entry EXCEPT !.type = IF @ = Omitted THEN entry.name ELSE @]

load_config(file) ==
  [file EXCEPT !.topics = [i \in DOMAIN @ |-> Loaded(@[i])],
               !.writers = [i \in DOMAIN @ |-> Loaded(@[i])]]

WellFormed(entry) == entry.participant \in Participants /\ entry.qos_profile # Omitted

(* MUTANT: nothing looks for two writers of one name. *)
CrossReferenced(c) ==
  /\ c.separation > 0
  /\ c.topics # <<>> \/ c.writers # <<>> => c.qos_profiles # Omitted
  /\ \A i \in DOMAIN c.topics : WellFormed(c.topics[i])
  /\ \A i \in DOMAIN c.writers : WellFormed(c.writers[i])

_validate(c) ==
  /\ CrossReferenced(c)
  /\ \A i, j \in DOMAIN c.writers : c.writers[i].name = c.writers[j].name => i = j

Init ==
  /\ \E file \in Files : cfg = load_config(file)
  /\ pc = "loaded" /\ next = 1
  /\ dds_topics = {} /\ _topics = <<>> /\ _writers = <<>>
  /\ unread = {} /\ waiting = {} /\ raised = {}

Load ==
  /\ pc = "loaded"
  /\ pc' = IF _validate(cfg) THEN "accepted" ELSE "refused"
  /\ UNCHANGED <<cfg, next, entities, unread, loops>>

----------------------------------------------------------------------------
(* DdsGateway.start. *)

_TYPE_MAP == {"PLC::MetaData", "PLC::IdValue", "PLC::ValueRequest"}

HasType(entry) == entry.type \in _TYPE_MAP

(* And what QosProvider has a profile for, which is asked after the Topic.  *)
Resolved(entry) == HasType(entry) /\ entry.qos_profile # "unknown"

DdsTopic(entry) ==
  [name |-> entry.name, participant |-> entry.participant, type |-> entry.type]

(* A participant has one Topic of a name. *)
Taken(entry) ==
  \E t \in dds_topics : t.name = entry.name /\ t.participant = entry.participant

Put(table, name, value) ==
  [n \in DOMAIN table \cup {name} |-> IF n = name THEN value ELSE table[n]]

Made(topics) == dds_topics' = dds_topics \cup topics

Fail == pc' = "failed" /\ UNCHANGED <<_topics, _writers>>

(* _load_qos, _create_participants. *)
start ==
  /\ pc = "accepted"
  /\ pc' = IF cfg.qos_profiles = "unreadable" THEN "failed" ELSE "starting"
  /\ UNCHANGED <<cfg, next, entities, unread, loops>>

(* Two entries of one name on two participants: the later one's runtime     *)
(* replaces the earlier one's, whose reader stays.                          *)
_create_readers ==
  /\ pc = "starting" /\ next \in DOMAIN cfg.topics
  /\ LET tc == cfg.topics[next] IN
     /\ Made(IF HasType(tc) /\ ~Taken(tc) THEN {DdsTopic(tc)} ELSE {})
     /\ IF Resolved(tc) /\ ~Taken(tc)
          THEN _topics' = Put(_topics, tc.name, next) /\ UNCHANGED <<pc, _writers>>
          ELSE Fail
  /\ next' = next + 1
  /\ UNCHANGED <<cfg, unread, loops>>

(* MUTANT: a topic of its own for every writer. *)
NeverReused(wc) == wc.name \in {}

(* The topic of a reader of that name is used, whatever its type and        *)
(* participant.                                                             *)
Reused(wc) == wc.name \in DOMAIN _topics

TopicFor(wc) ==
  IF Reused(wc) THEN DdsTopic(cfg.topics[_topics[wc.name]]) ELSE DdsTopic(wc)

(* A writer's publisher and topic must be of one participant. *)
_create_writers ==
  /\ pc = "starting" /\ next - Len(cfg.topics) \in DOMAIN cfg.writers
  /\ LET wc == cfg.writers[next - Len(cfg.topics)]
         topic == TopicFor(wc) IN
     /\ Made(IF HasType(wc) /\ (Reused(wc) \/ ~Taken(wc)) THEN {topic} ELSE {})
     /\ IF Resolved(wc) /\ topic.participant = wc.participant
             /\ (Reused(wc) \/ ~Taken(wc))
          THEN _writers' = Put(_writers, wc.name, topic) /\ UNCHANGED <<pc, _topics>>
          ELSE Fail
  /\ next' = next + 1
  /\ UNCHANGED <<cfg, unread, loops>>

(* MUTANT: a task for every reader made. *)
StartReturnsWithAll ==
  /\ pc = "starting" /\ next = Len(cfg.topics) + Len(cfg.writers) + 1
  /\ pc' = "running"
  /\ waiting' = DOMAIN cfg.topics
  /\ UNCHANGED <<cfg, next, entities, unread, raised>>

(* A task for every runtime. *)
StartReturns ==
  /\ pc = "starting" /\ next = Len(cfg.topics) + Len(cfg.writers) + 1
  /\ pc' = "running"
  /\ waiting' = {_topics[name] : name \in DOMAIN _topics}
  /\ UNCHANGED <<cfg, next, entities, unread, raised>>

----------------------------------------------------------------------------
(* The reader loops. *)

(* _VIEW_DISPATCH has no view of a command. *)
HasView(entry) == entry.type # "PLC::ValueRequest"

SampleArrives(i) ==
  /\ i < next /\ pc \in {"starting", "running", "stopping"}
  /\ unread' = unread \cup {i}
  /\ UNCHANGED <<cfg, pc, next, entities, loops>>

(* MUTANT: one round, and no loop. *)
ReadsOnce(i) ==
  /\ pc = "running" /\ i \in waiting /\ i \in unread
  /\ unread' = unread \ {i} /\ waiting' = waiting \ {i}
  /\ UNCHANGED <<cfg, pc, next, entities, raised>>

(* Reads everything new and calls on_sample, which raises for a command     *)
(* with a uid somebody is interested in; others have no uid and go unseen.  *)
_reader_loop(i) ==
  /\ pc = "running" /\ i \in waiting /\ i \in unread
  /\ unread' = unread \ {i}
  /\ \/ UNCHANGED loops
     \/ /\ ~HasView(cfg.topics[i])
        /\ waiting' = waiting \ {i} /\ raised' = raised \cup {i}
  /\ UNCHANGED <<cfg, pc, next, entities>>

----------------------------------------------------------------------------
(* DdsGateway.stop. *)

stop ==
  /\ pc = "running" /\ pc' = "stopping"
  /\ UNCHANGED <<cfg, next, entities, unread, loops>>

(* MUTANT: the loop takes its cancellation for another exception. *)
CancelledGoesOn(i) ==
  /\ pc = "stopping" /\ i \in waiting /\ i \in unread
  /\ unread' = unread \ {i}
  /\ UNCHANGED <<cfg, pc, next, entities, loops>>

(* The cancellation comes at the await, so the loop does not read again. *)
Cancelled(i) ==
  /\ pc = "stopping" /\ i \in waiting
  /\ waiting' = waiting \ {i}
  /\ UNCHANGED <<cfg, pc, next, entities, unread, raised>>

(* MUTANT: the writers are not cleared. *)
CloseKeepsWriters ==
  /\ pc = "stopping" /\ waiting = {}
  /\ pc' = "closed" /\ dds_topics' = {} /\ _topics' = <<>>
  /\ UNCHANGED <<cfg, next, _writers, unread, loops>>

(* gather has returned. *)
Close ==
  /\ pc = "stopping" /\ waiting = {}
  /\ pc' = "closed" /\ dds_topics' = {} /\ _topics' = <<>> /\ _writers' = <<>>
  /\ UNCHANGED <<cfg, next, unread, loops>>

Topic == 1 .. MaxTopics

Next ==
  \/ Load \/ start \/ _create_readers \/ _create_writers \/ StartReturns
  \/ \E i \in Topic : i <= Len(cfg.topics) /\ SampleArrives(i)
  \/ \E i \in Topic : _reader_loop(i) \/ Cancelled(i)
  \/ stop \/ Close

Spec == Init /\ [][Next]_vars

(* main runs on, and so does the event loop; nobody has to stop it. *)
FairSpec ==
  /\ Spec
  /\ WF_vars(Load \/ start \/ _create_readers \/ _create_writers \/ StartReturns \/ Close)
  /\ \A i \in Topic : WF_vars(_reader_loop(i)) /\ WF_vars(Cancelled(i))

----------------------------------------------------------------------------
(* Types; an entry has a loop once start has returned. *)
TypeOK ==
  /\ cfg \in File /\ next \in Nat \ {0}
  /\ pc \in {"loaded", "refused", "accepted", "starting", "failed",
             "running", "stopping", "closed"}
  /\ dds_topics \subseteq [name : STRING, participant : STRING, type : STRING]
  /\ \A name \in DOMAIN _topics : _topics[name] \in DOMAIN cfg.topics
  /\ \A name \in DOMAIN _writers : _writers[name] \in dds_topics
  /\ unread \cup waiting \cup raised \subseteq DOMAIN cfg.topics
  /\ waiting \cap raised = {}
  /\ waiting \cup raised # {} => pc \in {"running", "stopping", "closed"}

SameName(i, j) == cfg.topics[i].name = cfg.topics[j].name

(* The last topic entry of its name. *)
Last(i) == \A j \in DOMAIN cfg.topics : SameName(i, j) => j <= i

(* What _validate lets through and start cannot make. *)
Unstartable ==
  \/ cfg.qos_profiles = "unreadable"
  \/ \E i \in DOMAIN cfg.topics : ~Resolved(cfg.topics[i])
  \/ \E i \in DOMAIN cfg.writers : ~Resolved(cfg.writers[i])
  \/ \E i, j \in DOMAIN cfg.topics :
       /\ i # j /\ SameName(i, j)
       /\ cfg.topics[i].participant = cfg.topics[j].participant
  \/ \E i \in DOMAIN cfg.topics, w \in DOMAIN cfg.writers :
       /\ cfg.topics[i].name = cfg.writers[w].name /\ Last(i)
       /\ cfg.topics[i].participant # cfg.writers[w].participant

(* A configuration "validated" when it was loaded (config.py, load_config)  *)
(* starts, with exactly five exceptions; whatever the order of its entries, *)
(* one of the five never comes up half way.                                 *)
AcceptedStarts ==
  /\ pc = "failed" => Unstartable
  /\ pc \in {"running", "stopping"} => ~Unstartable

(* Once start has returned, every writer entry has a writer of its own, on  *)
(* the topic, participant and type it was configured with, unless a topic   *)
(* read under that name has another type: then each write raises.           *)
WritersAsConfigured ==
  pc = "running" =>
    \A w \in DOMAIN cfg.writers :
      LET wc == cfg.writers[w] IN
      /\ wc.name \in DOMAIN _writers
      /\ \/ _writers[wc.name] = DdsTopic(wc)
         \/ \E i \in DOMAIN cfg.topics :
              /\ Last(i) /\ cfg.topics[i].type # wc.type
              /\ DdsTopic(cfg.topics[i]) = [DdsTopic(wc) EXCEPT !.type = cfg.topics[i].type]
              /\ _writers[wc.name] = DdsTopic(cfg.topics[i])

(* What arrives for a configured topic is read while scada_web runs, unless *)
(* a later entry of its name took its runtime or its samples have no view:  *)
(* no other topic, and no start or end of another loop, stops it.           *)
TopicsRead ==
  \A i \in Topic :
    i \in unread /\ pc = "running"
      ~> i \notin unread \/ pc # "running" \/ ~Last(i) \/ ~HasView(cfg.topics[i])

(* Of the entries of one name, however many, the last is the one whose      *)
(* reader REST answers from (and /health lists) and whose reader a loop was  *)
(* given to: what is pushed under a name is what REST reads under it, never  *)
(* a reader that was replaced.  Only a command ends a loop before stop.      *)
OneReaderPerTopic ==
  pc = "running" =>
    \A i \in DOMAIN cfg.topics :
      /\ Last(i) <=> _topics[cfg.topics[i].name] = i
      /\ Last(i) <=> i \in waiting \cup raised
      /\ i \in raised => ~HasView(cfg.topics[i])

(* stop returns, whatever arrives meanwhile and whatever ended before. *)
Stops == pc = "stopping" ~> pc = "closed"
============================================================================
