--------------------------- MODULE MetaDataPlane ---------------------------
(***************************************************************************)
(* The tag catalogue's way through the selector: the field MetaData reader *)
(* (TRANSIENT_LOCAL, KEEP_LAST 1, read and never taken), MetaDataPlane and *)
(* the SelectedMetaData writer's instances, with the METADATA requests     *)
(* ControlPlane hands on.  All on the selector's one dispatch thread: a    *)
(* request and a batch never overlap, but may come in either order.        *)
(***************************************************************************)
EXTENDS Integers, Sequences

CONSTANTS
  Uid,
  MaxRevision,   \* how often the field describes one tag
  MaxRequests,   \* METADATA requests waiting
  KeepsOther     \* whether the reader may keep a value beside an end, or the reverse

ASSUME MetaDataAssumption ==
  {MaxRevision, MaxRequests} \subseteq Nat /\ KeepsOther \in BOOLEAN

VARIABLES
  \* the field
  field,      \* field[u]: "absent", "alive", "disposed" or "no_writers"
  revision,   \* revision[u]: the latest description of u
  \* the selector
  cache,      \* cache[u]: the reader's samples of u, each read or not yet
  requests,   \* METADATA requests, oldest first
  batch,      \* batch[u]: what process() has read and not handled yet
  \* the SelectedMetaData writer
  out,        \* out[u]: "none", "alive", "disposed" or "unregistered"
  shown,      \* shown[u]: the revision last written
  \* history
  missed,     \* uids whose last write or retraction timed out
  swallowed   \* uids an end of which a METADATA request read, or undid

plant   == <<field, revision>>
writer  == <<out, shown>>
history == <<missed, swallowed>>
vars == <<plant, cache, requests, batch, writer, history>>

Nothing == [u \in Uid |-> <<>>]

Sample == [kind : {"value", "end"}, revision : 0 .. MaxRevision, read : BOOLEAN]
Taken  == [kind : {"value", "disposed", "no_writers"}, revision : 0 .. MaxRevision]

IsValue(s) == s.kind = "value"
Unread(s)  == ~s.read

Init ==
  /\ field = [u \in Uid |-> "absent"] /\ revision = [u \in Uid |-> 0]
  /\ cache = Nothing /\ requests = <<>> /\ batch = Nothing
  /\ out = [u \in Uid |-> "none"] /\ shown = [u \in Uid |-> 0]
  /\ missed = {} /\ swallowed = {}

----------------------------------------------------------------------------
(* The field and the reader, which keeps an instance's newest sample and   *)
(* may keep the newest of the other kind beside it.                        *)

(* MUTANT: a deeper history. *)
PushQueues(u, kind, r) ==
  /\ Len(cache[u]) < 3
  /\ cache' = [cache EXCEPT ![u] =
                 Append(@, [kind |-> kind, revision |-> r, read |-> FALSE])]

Push(u, kind, r) ==
  \E kept \in {<<>>} \cup {<<s>> : s \in {cache[u][i] : i \in DOMAIN cache[u]}} :
    /\ kept # <<>> => KeepsOther /\ kept[1].kind # kind
    /\ cache' = [cache EXCEPT ![u] =
                   Append(kept, [kind |-> kind, revision |-> r, read |-> FALSE])]

Describe(u) ==
  /\ revision[u] < MaxRevision
  /\ field' = [field EXCEPT ![u] = "alive"]
  /\ revision' = [revision EXCEPT ![u] = @ + 1]
  /\ Push(u, "value", revision'[u])
  /\ UNCHANGED <<requests, batch, writer, history>>

End(u, how) ==
  /\ field[u] = "alive"
  /\ field' = [field EXCEPT ![u] = how]
  /\ Push(u, "end", revision[u])
  /\ UNCHANGED <<revision, requests, batch, writer, history>>

(* ValueRequest{METADATA, u}, from any writer of the topic. *)
Request(u) ==
  /\ Len(requests) < MaxRequests
  /\ requests' = Append(requests, u)
  /\ UNCHANGED <<plant, cache, batch, writer, history>>

----------------------------------------------------------------------------
(* MetaDataPlane. *)

(* A write or a retraction that succeeds, or times out: counted, dropped. *)
Write(u, r) ==
  \/ /\ out' = [out EXCEPT ![u] = "alive"] /\ shown' = [shown EXCEPT ![u] = r]
     /\ missed' = missed \ {u}
  \/ UNCHANGED writer /\ missed' = missed \cup {u}

Registered(u) == out[u] \in {"alive", "disposed"}

Retract(u, how) ==
  \/ /\ Registered(u)
     /\ out' = [out EXCEPT ![u] = IF how = "disposed" THEN how ELSE "unregistered"]
     /\ missed' = missed \ {u} /\ UNCHANGED shown
  \/ Registered(u) /\ UNCHANGED writer /\ missed' = missed \cup {u}
  \/ ~Registered(u) /\ UNCHANGED <<writer, missed>>

AllRead(samples) == [i \in DOMAIN samples |-> [samples[i] EXCEPT !.read = TRUE]]

(* MUTANT: DataState::new_data, which has no ends in it. *)
NewData(samples) == SelectSeq(samples, LAMBDA s : IsValue(s) /\ Unread(s))

(* Reading takes all there is of a tag, so the unread are the newest.       *)
UnreadAnyInstance(samples) ==
  LET unread == {i \in DOMAIN samples : Unread(samples[i])} IN
  IF unread = {} THEN <<>>
  ELSE SubSeq(samples, CHOOSE i \in unread : \A j \in unread : i <= j, Len(samples))

(* SampleInfo judges an end by its instance's state when it is read. *)
As(s, state) ==
  [kind |-> IF IsValue(s) THEN "value"
            ELSE IF state = "disposed" THEN state ELSE "no_writers",
   revision |-> s.revision]

(* process: reads what is unread, and leaves it in the reader as read.      *)
Process ==
  /\ batch = Nothing
  /\ \E u \in Uid : \E i \in DOMAIN cache[u] : Unread(cache[u][i])
  /\ batch' = [u \in Uid |->
                LET unread == UnreadAnyInstance(cache[u]) IN
                [i \in DOMAIN unread |-> As(unread[i], field[u])]]
  /\ cache' = [u \in Uid |-> AllRead(cache[u])]
  /\ UNCHANGED <<plant, requests, writer, history>>

Handle(u) ==
  /\ batch[u] # <<>>
  /\ batch' = [batch EXCEPT ![u] = Tail(@)]
  /\ LET s == Head(batch[u]) IN
     IF IsValue(s) THEN Write(u, s.revision) ELSE Retract(u, s.kind)
  /\ swallowed' = swallowed \ {u}
  /\ UNCHANGED <<plant, cache, requests>>

Ended(u) == field[u] \in {"disposed", "no_writers"}

(* MUTANT: writes back only what process() has been through. *)
OldValues(u) == {i \in DOMAIN cache[u] : IsValue(cache[u][i]) /\ ~Unread(cache[u][i])}

ValuesOf(u) == {i \in DOMAIN cache[u] : IsValue(cache[u][i])}

(* handle_metadata_request: reads all of the instance, whatever its state,  *)
(* and writes the value again if there is one.                              *)
HandleRequest ==
  /\ batch = Nothing /\ requests # <<>>
  /\ requests' = Tail(requests)
  /\ LET u == Head(requests) IN
     /\ cache' = [cache EXCEPT ![u] = AllRead(@)]
     /\ IF ValuesOf(u) = {} THEN UNCHANGED <<writer, missed>>
        ELSE \E i \in ValuesOf(u) : Write(u, cache[u][i].revision)
     /\ swallowed' = IF Ended(u) /\ \E i \in DOMAIN cache[u] :
                                       IsValue(cache[u][i]) \/ Unread(cache[u][i])
                       THEN swallowed \cup {u} ELSE swallowed
  /\ UNCHANGED <<plant, batch>>

Next ==
  \/ \E u \in Uid : Describe(u) \/ End(u, "disposed") \/ End(u, "no_writers")
  \/ \E u \in Uid : Request(u) \/ Handle(u)
  \/ Process \/ HandleRequest

Spec == Init /\ [][Next]_vars

(* The dispatch loop runs; nothing makes the field or the web side act. *)
FairSpec ==
  Spec /\ WF_vars(Process) /\ WF_vars(HandleRequest) /\ WF_vars(\E u \in Uid : Handle(u))

----------------------------------------------------------------------------
TypeOK ==
  /\ field \in [Uid -> {"absent", "alive", "disposed", "no_writers"}]
  /\ revision \in [Uid -> 0 .. MaxRevision]
  /\ cache \in [Uid -> Seq(Sample)] /\ batch \in [Uid -> Seq(Taken)]
  /\ \A u \in Uid : Len(cache[u]) <= 2 /\ Len(batch[u]) <= 2
  /\ requests \in Seq(Uid)
  /\ out \in [Uid -> {"none", "alive", "disposed", "unregistered"}]
  /\ shown \in [Uid -> 0 .. MaxRevision]
  /\ missed \subseteq Uid /\ swallowed \subseteq Uid

Pending(u) == batch[u] # <<>> \/ UnreadAnyInstance(cache[u]) # <<>>

(* The catalogue entry of a tag is what the field last said of it: its      *)
(* latest description, or no live entry once it ended.  Otherwise that is   *)
(* still to be handled, or timed out, or a METADATA request of a tag that   *)
(* had ended got in between: no interleaving of descriptions, ends, batches *)
(* and requests leaves an older one (scada-select-architecture.md 4.4).     *)
CatalogueFollows ==
  \A u \in Uid :
    \/ Pending(u) \/ u \in missed \cup swallowed
    \/ field[u] = "absent" /\ out[u] = "none"
    \/ field[u] = "alive" /\ out[u] = "alive" /\ shown[u] = revision[u]
    \/ Ended(u) /\ out[u] # "alive"

(* A tag the field describes gets a live entry, unless its write times out. *)
Catalogued ==
  \A u \in Uid :
    field[u] = "alive" ~> (out[u] = "alive" \/ u \in missed \/ field[u] # "alive")
============================================================================
