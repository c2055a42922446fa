--------------------------- MODULE SelectionTable ---------------------------
(***************************************************************************)
(* scada_select's SelectionTable (src/SelectionTable.cxx): which uids are  *)
(* forwarded, when each was last forwarded and the separation in force.    *)
(* It has no thread of its own: ControlPlane and DataPlane call it from    *)
(* the selector's one dispatch thread, so each method is one step.  This   *)
(* module has the methods; ControlPath and DataPath compose them.          *)
(***************************************************************************)
EXTENDS Integers

CONSTANTS
  Uid,                         \* tag ids
  PreEnabled,                  \* the uid range enabled at start-up
  default_min_separation_ms    \* config.yaml / --min-separation-ms; 0 = no decimation

VARIABLES
  subscriptions,       \* a function from the selected uids to their TagStates
  separation_in_force  \* min_separation_ms_

Fresh == [has_emitted |-> FALSE, last_emitted |-> 0]

TagState == [has_emitted : BOOLEAN, last_emitted : Nat]

selected == DOMAIN subscriptions

contains(u) == u \in selected

(* add_range, as main calls it on the empty table. *)
range_enabled == [u \in PreEnabled |-> Fresh]

Init ==
  /\ subscriptions = range_enabled
  /\ separation_in_force = default_min_separation_ms

(* MUTANT: assigns the entry instead of touching it. *)
add_resets(u) ==
  subscriptions' = [v \in selected \cup {u} |->
                      IF v # u THEN subscriptions[v] ELSE Fresh]

(* A uid already selected keeps its TagState: re-adding does not reset it. *)
add(u) ==
  subscriptions' = [v \in selected \cup {u} |->
                      IF v \in selected THEN subscriptions[v] ELSE Fresh]

(* MUTANTS: erase resets the entry instead; an override only ever tightens. *)
erase_resets(u) ==
  subscriptions' = [v \in selected \cup {u} |->
                      IF v # u THEN subscriptions[v] ELSE Fresh]

set_period_tightens(p) ==
  separation_in_force' = IF p < separation_in_force THEN p ELSE separation_in_force

erase(u) == subscriptions' = [v \in selected \ {u} |-> subscriptions[v]]

(* 0 restores the start-up default. *)
set_period(p) ==
  separation_in_force' = IF p = 0 THEN default_min_separation_ms ELSE p

TooSoon(u, now) ==
  /\ subscriptions[u].has_emitted
  /\ separation_in_force # 0
  /\ now - subscriptions[u].last_emitted < separation_in_force

should_forward(u, now) == contains(u) /\ ~TooSoon(u, now)

(* What should_forward records when it answers true. *)
Emitted(now) == [has_emitted |-> TRUE, last_emitted |-> now]
============================================================================
