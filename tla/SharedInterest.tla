--------------------------- MODULE SharedInterest ---------------------------
(***************************************************************************)
(* What the web side promises the selector, without refcounts, callbacks   *)
(* or handlers: many clients each want a set of uids, and one set is       *)
(* announced for all of them.  An announcement concerns one uid that the   *)
(* union of the wishes and the announced set disagree on; the next wish is *)
(* heard when they agree.  InterestManager implements it.                  *)
(***************************************************************************)
CONSTANTS Client, Uid

VARIABLES
  interest,    \* interest[c]: the uids c wants
  announced    \* the uids announced, and not withdrawn

vars == <<interest, announced>>

Init ==
  /\ interest = [c \in Client |-> {}]
  /\ announced = {}

Wanted == UNION {interest[c] : c \in Client}

(* A client wants more or less, or nothing any more. *)
Wish(c, wish) ==
  /\ announced = Wanted
  /\ interest' = [interest EXCEPT ![c] = wish]
  /\ UNCHANGED announced

Announce(u) ==
  /\ u \in Wanted \ announced
  /\ announced' = announced \cup {u}
  /\ UNCHANGED interest

Withdraw(u) ==
  /\ u \in announced \ Wanted
  /\ announced' = announced \ {u}
  /\ UNCHANGED interest

Next ==
  \/ \E c \in Client, wish \in SUBSET Uid : Wish(c, wish)
  \/ \E u \in Uid : Announce(u) \/ Withdraw(u)

Spec == Init /\ [][Next]_vars
============================================================================
