------------------------------ MODULE DataPath ------------------------------
(***************************************************************************)
(* How field samples reach the presentation side: the field IdValue reader *)
(* (RELIABLE, KEEP_LAST 1), the selector's DataPlane with its              *)
(* SelectionTable, and the SelectedValue writer's instances.  Requests are *)
(* the ControlPlane's; ControlPath.tla says where they come from.          *)
(*                                                                         *)
(* All of it is one dispatch thread: no request is handled while a batch   *)
(* of samples is.  But the batch carries the time it was taken, and a      *)
(* write in it, or the handlers that run between two batches, may hold the *)
(* thread while the clock and the field go on.                             *)
(***************************************************************************)
EXTENDS Integers, Sequences

CONSTANTS
  Uid,             \* the tags looked at; the field may have others
  PreEnabled, default_min_separation_ms,  \* see SelectionTable
  Period,          \* what a PERIOD request may carry; 0 restores the default
  MaxSeparation,   \* no separation is longer
  PublishPeriod,   \* a live tag publishes at least this often
  MaxBlocking,     \* how far the clock may go while one batch is handled, and
                   \* while samples wait for other handlers between two
  MaxTime          \* the clock stops here

ASSUME DataPathAssumption ==
  /\ PreEnabled \subseteq Uid /\ MaxSeparation \in Nat \ {0}
  /\ Period \cup {default_min_separation_ms} \subseteq 0 .. MaxSeparation
  /\ {PublishPeriod, MaxBlocking, MaxTime} \subseteq Nat

VARIABLES
  clock,
  \* the field
  field,         \* field[u]: "absent", "alive", "disposed" or "no_writers"
  published,     \* published[u]: when u last published
  cache,         \* cache[u]: the reader's untaken samples of u, oldest first
  \* the selector
  subscriptions, separation_in_force,
  handling,      \* process() is running
  batch,         \* batch[u]: the samples of u that take() returned, not handled yet
  now,           \* process()'s one reading of the clock; between batches, when
                 \* the dispatch thread was last free
  \* the SelectedValue writer
  out,           \* out[u]: "none", "alive", "disposed" or "unregistered"
  \* history
  written,       \* written[u]: when u was last written since it was selected, or Never
  writes,        \* writes[u]: how often u was written, modulo 2; every write changes it
  ghosts,        \* uids whose retraction was taken unselected, or timed out
  fresh          \* fresh[u]: when u last was written, timed out, selected or born

external == <<field, published>>
table    == <<subscriptions, separation_in_force>>
process  == <<handling, batch, now>>
history  == <<written, writes, ghosts, fresh>>
vars == <<clock, external, cache, table, process, out, history>>

ST == INSTANCE SelectionTable

Never == -1
Nothing == [u \in Uid |-> <<>>]

(* What is in the reader, and what the selector is told: an end is judged   *)
(* by its instance's state when it is taken.                                *)
Sample == {"value", "end"}
Taken == {"value", "disposed", "no_writers"}

As(s, state) == IF s = "value" THEN s
                ELSE IF state = "disposed" THEN state ELSE "no_writers"
IsValue(s) == s = "value"

Init ==
  /\ clock = 0
  /\ field = [u \in Uid |-> "absent"] /\ published = [u \in Uid |-> 0]
  /\ cache = Nothing
  /\ ST!Init
  /\ handling = FALSE /\ batch = Nothing /\ now = 0
  /\ out = [u \in Uid |-> "none"]
  /\ written = [u \in Uid |-> Never] /\ writes = [u \in Uid |-> 0]
  /\ ghosts = {} /\ fresh = [u \in Uid |-> 0]

----------------------------------------------------------------------------
(* The field and its reader, which keeps the newest sample of an instance  *)
(* and may keep the newest end or value beside it.                         *)

(* MUTANT: a deeper reader queue. *)
PushQueues(u, sample) ==
  /\ Len(cache[u]) < 3
  /\ cache' = [cache EXCEPT ![u] = Append(@, sample)]

Push(u, sample) ==
  \E kept \in {<<>>} \cup {<<s>> : s \in {cache[u][i] : i \in DOMAIN cache[u]} \ {sample}} :
    cache' = [cache EXCEPT ![u] = Append(kept, sample)]

Publish(u) ==
  /\ field' = [field EXCEPT ![u] = "alive"]
  /\ published' = [published EXCEPT ![u] = clock]
  /\ Push(u, "value")
  /\ fresh' = [fresh EXCEPT ![u] = IF field[u] = "alive" THEN @ ELSE clock]
  /\ UNCHANGED <<clock, table, process, out, written, writes, ghosts>>

End(u, how) ==
  /\ field[u] = "alive"
  /\ field' = [field EXCEPT ![u] = how]
  /\ Push(u, "end")
  /\ UNCHANGED <<clock, published, table, process, out, history>>

(* Time passes when no live tag is overdue and the dispatch thread is free, *)
(* or for a while as a write blocks or other handlers have the thread.      *)
Tick ==
  /\ clock < MaxTime
  /\ clock' = clock + 1
  /\ IF handling \/ cache # Nothing THEN clock - now < MaxBlocking /\ now' = now
                                     ELSE now' = clock'
  /\ \A u \in Uid : field[u] = "alive" => clock - published[u] < PublishPeriod
  /\ UNCHANGED <<external, cache, table, handling, batch, out, history>>

----------------------------------------------------------------------------
(* ControlPlane::handle, between batches. *)

Add(u) ==
  /\ ~handling
  /\ ST!add(u)
  /\ fresh' = [fresh EXCEPT ![u] = IF ST!contains(u) THEN @ ELSE clock]
  /\ UNCHANGED <<clock, external, cache, separation_in_force, process, out, written, writes, ghosts>>

Delete(u) ==
  /\ ~handling
  /\ ST!erase(u)
  /\ written' = [written EXCEPT ![u] = Never]
  /\ UNCHANGED <<clock, external, cache, separation_in_force, process, out, writes, ghosts, fresh>>

SetPeriod(p) ==
  /\ ~handling
  /\ ST!set_period(p)
  /\ UNCHANGED <<clock, external, cache, subscriptions, process, out, history>>

----------------------------------------------------------------------------
(* DataPlane::process. *)

(* MUTANT: takes DataState::new_data, which has no ends in it. *)
ProcessNewData ==
  /\ ~handling /\ handling' = TRUE
  /\ now' = clock
  /\ batch' = [u \in Uid |-> SelectSeq(cache[u], IsValue)]
  /\ cache' = Nothing
  /\ UNCHANGED <<clock, external, table, out, history>>

(* A batch may be all of other tags: then u meets only the time it takes.   *)
Process ==
  /\ ~handling /\ handling' = TRUE
  /\ now' = clock
  /\ batch' = [u \in Uid |->
                [i \in 1 .. Len(cache[u]) |-> As(cache[u][i], field[u])]]
  /\ cache' = Nothing
  /\ UNCHANGED <<clock, external, table, out, history>>

(* The sample at the head of u's part of the batch is done with. *)
SampleDone(u) ==
  /\ batch' = [batch EXCEPT ![u] = Tail(@)]
  /\ UNCHANGED <<clock, external, cache, separation_in_force, handling, now>>

Take(u, kinds) == batch[u] # <<>> /\ Head(batch[u]) \in kinds

(* The emission is recorded before the write, and stays if that times out. *)
Forward(u) ==
  /\ Take(u, {"value"}) /\ ST!should_forward(u, now)
  /\ subscriptions' = [subscriptions EXCEPT ![u] = ST!Emitted(now)]
  /\ fresh' = [fresh EXCEPT ![u] = clock]
  /\ \/ /\ out' = [out EXCEPT ![u] = "alive"]
        /\ written' = [written EXCEPT ![u] = clock]
        /\ writes' = [writes EXCEPT ![u] = 1 - @]
        /\ ghosts' = ghosts \ {u}
     \/ UNCHANGED <<out, written, writes, ghosts>>   \* TimeoutError: counted, dropped
  /\ SampleDone(u)

(* MUTANT: a sample too soon starts the separation again. *)
DecimateRecords(u) ==
  /\ Take(u, {"value"}) /\ ~ST!should_forward(u, now)
  /\ subscriptions' = IF ST!contains(u) THEN [subscriptions EXCEPT ![u] = ST!Emitted(now)]
                      ELSE subscriptions
  /\ SampleDone(u)
  /\ UNCHANGED <<out, history>>

Decimate(u) ==
  /\ Take(u, {"value"}) /\ ~ST!should_forward(u, now)
  /\ SampleDone(u)
  /\ UNCHANGED <<subscriptions, out, history>>

Registered(u) == out[u] \in {"alive", "disposed"}

(* forward_lifecycle: no test of the separation. *)
ForwardEnd(u) ==
  /\ Take(u, {"disposed", "no_writers"}) /\ ST!contains(u)
  /\ \/ /\ Registered(u)
        /\ out' = [out EXCEPT ![u] = IF Head(batch[u]) = "disposed" THEN "disposed"
                                                                    ELSE "unregistered"]
        /\ ghosts' = ghosts \ {u}
     \/ /\ Registered(u)                     \* TimeoutError
        /\ out' = out /\ ghosts' = ghosts \cup {u}
     \/ ~Registered(u) /\ UNCHANGED <<out, ghosts>>
  /\ SampleDone(u)
  /\ UNCHANGED <<subscriptions, written, writes, fresh>>

IgnoreEnd(u) ==
  /\ Take(u, {"disposed", "no_writers"}) /\ ~ST!contains(u)
  /\ ghosts' = ghosts \cup {u}
  /\ SampleDone(u)
  /\ UNCHANGED <<subscriptions, out, written, writes, fresh>>

ProcessReturns ==
  /\ handling /\ batch = Nothing
  /\ handling' = FALSE /\ now' = clock
  /\ UNCHANGED <<clock, external, cache, table, batch, out, history>>

Next ==
  \/ \E u \in Uid : Publish(u) \/ End(u, "disposed") \/ End(u, "no_writers")
  \/ Tick
  \/ \E u \in Uid : Add(u) \/ Delete(u)
  \/ \E p \in Period : SetPeriod(p)
  \/ Process \/ ProcessReturns
  \/ \E u \in Uid : Forward(u) \/ Decimate(u) \/ ForwardEnd(u) \/ IgnoreEnd(u)

Spec == Init /\ [][Next]_vars

----------------------------------------------------------------------------
TypeOK ==
  /\ clock \in 0 .. MaxTime /\ now \in 0 .. clock
  /\ field \in [Uid -> {"absent", "alive", "disposed", "no_writers"}]
  /\ published \in [Uid -> 0 .. MaxTime]
  /\ cache \in [Uid -> Seq(Sample)] /\ batch \in [Uid -> Seq(Taken)]
  /\ \A u \in Uid : \A s \in {cache[u], batch[u]} :
       Len(s) <= 2 /\ (Len(s) = 2 => IsValue(s[1]) # IsValue(s[2]))
  /\ handling \in BOOLEAN /\ (~handling => batch = Nothing)
  /\ ST!selected \subseteq Uid
  /\ \A u \in ST!selected : subscriptions[u] \in ST!TagState
  /\ separation_in_force \in Nat
  /\ out \in [Uid -> {"none", "alive", "disposed", "unregistered"}]
  /\ written \in [Uid -> {Never} \cup 0 .. MaxTime] /\ writes \in [Uid -> {0, 1}]
  /\ ghosts \subseteq Uid /\ fresh \in [Uid -> 0 .. MaxTime]

(* Whenever a uid is written again with no DELETE since its last write, the *)
(* separation in force has passed, less what that write's batch was late:   *)
(* the decision uses the time the batch was taken, and no repeated ADD,     *)
(* change of period, lost write or rebirth opens a second way through.  Two *)
(* writes at one reading of the clock are two writes.                       *)
WritesAreSeparated ==
  [][\A u \in Uid :
       writes'[u] # writes[u] /\ written[u] # Never
         => written'[u] - written[u] >= separation_in_force - MaxBlocking]_vars

(* An instance the writer still shows alive is alive in the field, or its   *)
(* end is in the reader or the batch, or that end met an unselected uid or  *)
(* timed out: nothing else, and no separation, keeps a retraction back.     *)
NoOtherGhost ==
  \A u \in Uid :
    out[u] = "alive" =>
      \/ field[u] = "alive" \/ u \in ghosts
      \/ \E s \in {cache[u], batch[u]} : \E i \in 1 .. Len(s) : ~IsValue(s[i])

(* A selected live tag is written, or its write times out, within the       *)
(* longest separation and publish period together, and three stretches that *)
(* block: the batch under way when its sample comes, the handlers that run  *)
(* before the next batch, and that batch.  No sequence of ADD, PERIOD,      *)
(* blocked writes and rebirths starves it.                                  *)
NotStarved ==
  \A u \in ST!selected :
    field[u] = "alive" =>
      clock - fresh[u] < MaxSeparation + PublishPeriod + 3 * MaxBlocking
============================================================================
