---------------------- MODULE InterestManager_proofs ----------------------
(***************************************************************************)
(* InterestManager's invariants, proved for every set of clients, uids and *)
(* separations.                                                            *)
(*                                                                         *)
(* RefcountExact is inductive with TypeOK alone, given that the watchers   *)
(* of a uid are a finite set that one client at a time joins or leaves.    *)
(* The two properties of the command stream need to know in addition how   *)
(* `told' follows the refcounts while a callback is running: Tracks.       *)
(***************************************************************************)
EXTENDS InterestManager, FiniteSetTheorems, TLAPS

(* told is the set of counted uids, but for the one whose command is being *)
(* sent; that uid is new, or has just lost its last watcher.               *)
Tracks ==
  \A u \in Uid :
    /\ sending = <<AddRequest(u)>> =>
         u \notin told /\ refcounts[u] > 0 /\ Watchers(u) # {}
    /\ sending = <<DeleteRequest(u)>> => u \in told /\ refcounts[u] = 0
    /\ sending \notin {<<AddRequest(u)>>, <<DeleteRequest(u)>>} =>
         (u \in told <=> refcounts[u] > 0)

DepartedHoldNone == \A c \in Client \ ws_clients : uids[c] = {}

IInv == TypeOK /\ RefcountExact /\ Tracks /\ DepartedHoldNone

----------------------------------------------------------------------------
(* The watchers of a uid are finitely many, so counting them is sound. *)
LEMMA WatchersFinite ==
  ASSUME NEW u PROVE IsFiniteSet(Watchers(u)) /\ Cardinality(Watchers(u)) \in Nat
<1>1. Watchers(u) \subseteq Client
  BY DEF Watchers
<1>2. IsFiniteSet(Watchers(u))
  BY <1>1, InterestAssumption, FS_Subset DEF InterestAssumption
<1>. QED
  BY <1>2, FS_CardinalityType

(* Every step keeps the types.                                             *)
LEMMA TypeStep == TypeOK /\ [Next]_vars => TypeOK'
<1> SUFFICES ASSUME TypeOK, [Next]_vars PROVE TypeOK'
  OBVIOUS
<1>1. ASSUME NEW u \in Uid PROVE AddRequest(u) \in ValueRequest /\ DeleteRequest(u) \in ValueRequest
  BY DEF AddRequest, DeleteRequest, ValueRequest
<1>2. ASSUME NEW c \in Client, Connect(c) PROVE TypeOK'
  BY <1>2 DEF Connect, TypeOK
<1>3. ASSUME NEW c \in Client, Disconnect(c) PROVE TypeOK'
  BY <1>3 DEF Disconnect, TypeOK
<1>4. ASSUME NEW c \in Client, NEW u \in Uid, Subscribe(c, u) PROVE TypeOK'
  BY <1>4, <1>1 DEF Subscribe, client_subscribe, TypeOK
<1>5. ASSUME NEW c \in Client, NEW u \in Uid, Unsubscribe(c, u) PROVE TypeOK'
  BY <1>5, <1>1 DEF Unsubscribe, client_unsubscribe, release, TypeOK
<1>6. ASSUME NEW p \in Separation, SetMinSeparation(p) PROVE TypeOK'
  <2>1. PeriodRequest(p) \in ValueRequest
    BY DEF PeriodRequest, ValueRequest
  <2>. QED
    BY <1>6, <2>1 DEF SetMinSeparation, TypeOK
<1>7. ASSUME NEW u \in Uid, ReleaseNext(u) PROVE TypeOK'
  BY <1>7, <1>1 DEF ReleaseNext, release, TypeOK
<1>8. ASSUME CallbackReturns PROVE TypeOK'
  BY <1>8 DEF CallbackReturns, Obey, TypeOK, ValueRequest
<1>9. ASSUME UNCHANGED vars PROVE TypeOK'
  BY <1>9 DEF vars, TypeOK
<1>. QED
  BY <1>2, <1>3, <1>4, <1>5, <1>6, <1>7, <1>8, <1>9 DEF Next

(* TypeOK holds initially and every step keeps it. *)
THEOREM TypeCorrect == Spec => []TypeOK
<1>1. Init => TypeOK
  BY InterestAssumption DEF Init, TypeOK, InterestAssumption
<1>. QED
  BY <1>1, TypeStep, PTL DEF Spec

----------------------------------------------------------------------------
(* A client that takes up u joins its watchers and no others; one that     *)
(* gives u up leaves them; a departing client leaves those of all its uids. *)
LEMMA WatcherJoins ==
  ASSUME TypeOK, NEW c \in Client, NEW u \in Uid, u \notin uids[c],
         uids' = [uids EXCEPT ![c] = @ \cup {u}]
  PROVE  /\ c \in Watchers(u)'
         /\ Cardinality(Watchers(u)') = Cardinality(Watchers(u)) + 1
         /\ \A v \in Uid \ {u} : Watchers(v)' = Watchers(v)
<1>1. Watchers(u)' = Watchers(u) \cup {c} /\ c \notin Watchers(u)
  BY DEF Watchers, TypeOK
<1>2. \A v \in Uid \ {u} : Watchers(v)' = Watchers(v)
  BY DEF Watchers, TypeOK
<1>. QED
  BY <1>1, <1>2, WatchersFinite, FS_AddElement

(* One watcher of one tag less.                                             *)
LEMMA WatcherLeaves ==
  ASSUME TypeOK, NEW c \in Client, NEW u \in Uid, u \in uids[c],
         uids' = [uids EXCEPT ![c] = @ \ {u}]
  PROVE  /\ Cardinality(Watchers(u)') = Cardinality(Watchers(u)) - 1
         /\ \A v \in Uid \ {u} : Watchers(v)' = Watchers(v)
<1>1. Watchers(u)' = Watchers(u) \ {c} /\ c \in Watchers(u)
  BY DEF Watchers, TypeOK
<1>2. \A v \in Uid \ {u} : Watchers(v)' = Watchers(v)
  BY DEF Watchers, TypeOK
<1>. QED
  BY <1>1, <1>2, WatchersFinite, FS_RemoveElement

(* A client that is gone watches nothing.                                   *)
LEMMA WatcherDeparts ==
  ASSUME TypeOK, NEW c \in Client, uids' = [uids EXCEPT ![c] = {}], NEW u \in Uid
  PROVE  Cardinality(Watchers(u)') =
           Cardinality(Watchers(u)) - (IF u \in uids[c] THEN 1 ELSE 0)
<1>1. Watchers(u)' = Watchers(u) \ {c} /\ (c \in Watchers(u) <=> u \in uids[c])
  BY DEF Watchers, TypeOK
<1>2. IsFiniteSet(Watchers(u)) /\ Cardinality(Watchers(u)) \in Nat
  BY WatchersFinite
<1>3. Cardinality(Watchers(u) \ {c}) =
        IF c \in Watchers(u) THEN Cardinality(Watchers(u)) - 1 ELSE Cardinality(Watchers(u))
  BY <1>2, FS_RemoveElement
<1>. QED
  BY <1>1, <1>2, <1>3

(* The steps that leave uids alone leave every set of watchers alone. *)
LEMMA WatchersUnchanged ==
  ASSUME UNCHANGED uids PROVE \A u \in Uid : Watchers(u)' = Watchers(u)
BY DEF Watchers

(* RefcountExact is inductive: no sequence of subscriptions and departures  *)
(* makes a count drift from the clients it stands for.                      *)
LEMMA RefcountStep ==
  ASSUME TypeOK, RefcountExact, [Next]_vars PROVE RefcountExact'
<1>. SUFFICES ASSUME NEW v \in Uid
              PROVE  refcounts'[v] = Cardinality(Watchers(v)') + (IF v \in leaving' THEN 1 ELSE 0)
  BY DEF RefcountExact
<1>0. /\ refcounts[v] = Cardinality(Watchers(v)) + (IF v \in leaving THEN 1 ELSE 0)
      /\ refcounts \in [Uid -> Nat]
      /\ Cardinality(Watchers(v)) \in Nat
  BY WatchersFinite DEF RefcountExact, TypeOK
<1>1. ASSUME NEW c \in Client, NEW u \in Uid, Subscribe(c, u)
      PROVE  refcounts'[v] = Cardinality(Watchers(v)') + (IF v \in leaving' THEN 1 ELSE 0)
  <2>1. /\ uids' = [uids EXCEPT ![c] = @ \cup {u}] /\ u \notin uids[c]
        /\ refcounts' = [refcounts EXCEPT ![u] = @ + 1] /\ leaving' = leaving
    BY <1>1 DEF Subscribe, client_subscribe
  <2>2. /\ Cardinality(Watchers(u)') = Cardinality(Watchers(u)) + 1
        /\ v # u => Watchers(v)' = Watchers(v)
    BY <2>1, WatcherJoins
  <2>. QED
    BY <1>0, <2>1, <2>2
<1>2. ASSUME NEW c \in Client, NEW u \in Uid, Unsubscribe(c, u)
      PROVE  refcounts'[v] = Cardinality(Watchers(v)') + (IF v \in leaving' THEN 1 ELSE 0)
  <2>1. /\ uids' = [uids EXCEPT ![c] = @ \ {u}] /\ u \in uids[c]
        /\ refcounts' = [refcounts EXCEPT ![u] = IF refcounts[u] - 1 <= 0 THEN 0 ELSE refcounts[u] - 1]
        /\ leaving' = leaving /\ leaving = {}
    BY <1>2 DEF Unsubscribe, client_unsubscribe, release, Idle
  <2>2. /\ Cardinality(Watchers(u)') = Cardinality(Watchers(u)) - 1
        /\ v # u => Watchers(v)' = Watchers(v)
    BY <2>1, WatcherLeaves
  <2>3. Cardinality(Watchers(u)') \in Nat
    <3>1. Watchers(u)' \subseteq Client
      BY DEF Watchers
    <3>. QED
      BY <3>1, InterestAssumption, FS_Subset, FS_CardinalityType DEF InterestAssumption
  <2>. QED
    BY <1>0, <2>1, <2>2, <2>3
<1>3. ASSUME NEW c \in Client, Disconnect(c)
      PROVE  refcounts'[v] = Cardinality(Watchers(v)') + (IF v \in leaving' THEN 1 ELSE 0)
  <2>1. /\ uids' = [uids EXCEPT ![c] = {}] /\ leaving = {} /\ leaving' = uids[c]
        /\ refcounts' = refcounts
    BY <1>3 DEF Disconnect, Idle
  <2>2. Cardinality(Watchers(v)') = Cardinality(Watchers(v)) - (IF v \in uids[c] THEN 1 ELSE 0)
    BY <2>1, WatcherDeparts
  <2>. QED
    BY <1>0, <2>1, <2>2
<1>4. ASSUME NEW u \in Uid, ReleaseNext(u)
      PROVE  refcounts'[v] = Cardinality(Watchers(v)') + (IF v \in leaving' THEN 1 ELSE 0)
  <2>1. /\ leaving' = leaving \ {u} /\ u \in leaving /\ uids' = uids
        /\ refcounts' = [refcounts EXCEPT ![u] = IF refcounts[u] - 1 <= 0 THEN 0 ELSE refcounts[u] - 1]
    BY <1>4 DEF ReleaseNext, release
  <2>2. Watchers(v)' = Watchers(v)
    BY <2>1, WatchersUnchanged
  <2>. QED
    BY <1>0, <2>1, <2>2
<1>5. ASSUME UNCHANGED <<uids, refcounts, leaving>>
      PROVE  refcounts'[v] = Cardinality(Watchers(v)') + (IF v \in leaving' THEN 1 ELSE 0)
  BY <1>0, <1>5, WatchersUnchanged
<1>. QED
  BY <1>1, <1>2, <1>3, <1>4, <1>5
  DEF Next, vars, Connect, SetMinSeparation, CallbackReturns

(* Nobody is counted before anybody subscribes.                             *)
LEMMA NoCountsYet == Init => RefcountExact
<1> SUFFICES ASSUME Init, NEW u \in Uid
             PROVE  refcounts[u] = Cardinality(Watchers(u)) + (IF u \in leaving THEN 1 ELSE 0)
  BY DEF RefcountExact
<1>1. Watchers(u) = {}
  BY DEF Init, Watchers
<1>. QED
  BY <1>1, FS_EmptySet DEF Init

(* Every refcount equals the number of clients holding the uid, plus the   *)
(* departed client still being released.                                   *)
THEOREM RefcountsAreExact == Spec => []RefcountExact
<1>1. TypeOK /\ RefcountExact /\ [Next]_vars => RefcountExact'
  BY RefcountStep
<1>. QED
  BY <1>1, NoCountsYet, TypeCorrect, PTL DEF Spec

----------------------------------------------------------------------------
(* A count is zero exactly when nobody, arriving or leaving, holds the uid. *)
LEMMA ZeroMeansNoWatcher ==
  ASSUME TypeOK, RefcountExact, NEW u \in Uid
  PROVE  refcounts[u] = 0 <=> Watchers(u) = {} /\ u \notin leaving
<1>1. IsFiniteSet(Watchers(u)) /\ Cardinality(Watchers(u)) \in Nat
  BY WatchersFinite
<1>2. Cardinality(Watchers(u)) = 0 <=> Watchers(u) = {}
  BY <1>1, FS_EmptySet
<1>. QED
  BY <1>1, <1>2 DEF RefcountExact

(* The commands of the two operations are told apart by their fields. *)
LEMMA CommandsDiffer ==
  ASSUME NEW u, NEW v, NEW p
  PROVE  /\ <<AddRequest(u)>> # <<DeleteRequest(v)>>
         /\ <<PeriodRequest(p)>> \notin {<<AddRequest(u)>>, <<DeleteRequest(u)>>}
         /\ <<AddRequest(u)>> = <<AddRequest(v)>> => u = v
         /\ <<DeleteRequest(u)>> = <<DeleteRequest(v)>> => u = v
         /\ <<>> \notin {<<AddRequest(u)>>, <<DeleteRequest(u)>>}
<1>1. AddRequest(u).op = "ADD" /\ DeleteRequest(v).op = "DELETE" /\ DeleteRequest(u).op = "DELETE"
      /\ PeriodRequest(p).op = "PERIOD" /\ AddRequest(u).uid = u /\ AddRequest(v).uid = v
      /\ DeleteRequest(u).uid = u /\ DeleteRequest(v).uid = v
  BY DEF AddRequest, DeleteRequest, PeriodRequest
<1>. QED
  BY <1>1

(* Every step keeps what was told in step with the counts.                  *)
LEMMA TracksStep ==
  ASSUME TypeOK, RefcountExact, Tracks, [Next]_vars PROVE Tracks'
<1>. SUFFICES ASSUME NEW v \in Uid
              PROVE  /\ sending' = <<AddRequest(v)>> =>
                          v \notin told' /\ refcounts'[v] > 0 /\ Watchers(v)' # {}
                     /\ sending' = <<DeleteRequest(v)>> => v \in told' /\ refcounts'[v] = 0
                     /\ sending' \notin {<<AddRequest(v)>>, <<DeleteRequest(v)>>} =>
                          (v \in told' <=> refcounts'[v] > 0)
  BY DEF Tracks, AddRequest, DeleteRequest
<1>. DEFINE Goal ==
       /\ sending' = <<AddRequest(v)>> =>
            v \notin told' /\ refcounts'[v] > 0 /\ Watchers(v)' # {}
       /\ sending' = <<DeleteRequest(v)>> => v \in told' /\ refcounts'[v] = 0
       /\ sending' \notin {<<AddRequest(v)>>, <<DeleteRequest(v)>>} =>
            (v \in told' <=> refcounts'[v] > 0)
<1>0. refcounts \in [Uid -> Nat]
  BY DEF TypeOK
<1>a. ASSUME sending = <<>> PROVE v \in told <=> refcounts[v] > 0
  BY <1>a, CommandsDiffer DEF Tracks
<1>1. ASSUME NEW c \in Client, NEW u \in Uid, Subscribe(c, u) PROVE Goal
  <2>1. /\ uids' = [uids EXCEPT ![c] = @ \cup {u}] /\ u \notin uids[c]
        /\ refcounts' = [refcounts EXCEPT ![u] = @ + 1]
        /\ sending' = IF refcounts'[u] = 1 THEN <<AddRequest(u)>> ELSE <<>>
        /\ sending = <<>> /\ told' = told
    BY <1>1 DEF Subscribe, client_subscribe, Idle
  <2>2. Watchers(u)' # {}
    BY <2>1, WatcherJoins
  <2>. QED
    BY <1>0, <1>a, <2>1, <2>2, CommandsDiffer
<1>2. ASSUME NEW u \in Uid, release(u), sending = <<>>, told' = told, refcounts[u] > 0 PROVE Goal
  BY <1>0, <1>a, <1>2, CommandsDiffer DEF release
<1>3. ASSUME NEW c \in Client, NEW u \in Uid, Unsubscribe(c, u) PROVE Goal
  <2>1. release(u) /\ sending = <<>> /\ told' = told /\ u \in uids[c]
    BY <1>3 DEF Unsubscribe, client_unsubscribe, Idle
  <2>2. refcounts[u] > 0
    BY <1>0, <2>1, ZeroMeansNoWatcher DEF Watchers
  <2>. QED
    BY <1>2, <2>1, <2>2
<1>4. ASSUME NEW u \in Uid, ReleaseNext(u) PROVE Goal
  <2>1. release(u) /\ sending = <<>> /\ told' = told /\ u \in leaving
    BY <1>4 DEF ReleaseNext
  <2>2. refcounts[u] > 0
    BY <1>0, <2>1, ZeroMeansNoWatcher
  <2>. QED
    BY <1>2, <2>1, <2>2
<1>5. ASSUME NEW p \in Separation, SetMinSeparation(p) PROVE Goal
  <2>1. sending = <<>> /\ sending' = <<PeriodRequest(p)>> /\ told' = told /\ refcounts' = refcounts
    BY <1>5 DEF SetMinSeparation, Idle
  <2>. QED
    BY <1>a, <2>1, CommandsDiffer
<1>6. ASSUME CallbackReturns PROVE Goal
  <2>1. /\ sending # <<>> /\ sending' = <<>> /\ told' = Obey(told, Head(sending))
        /\ refcounts' = refcounts
    BY <1>6 DEF CallbackReturns
  <2>2. PICK r \in ValueRequest : sending = <<r>> /\ Head(sending) = r
    BY <2>1 DEF TypeOK
  <2>3. CASE r.op = "ADD"
    <3>1. r = AddRequest(r.uid) /\ r.uid \in Uid
      BY <2>3 DEF ValueRequest, AddRequest
    <3>2. told' = told \cup {r.uid}
      BY <2>1, <2>2, <2>3 DEF Obey
    <3>3. refcounts[r.uid] > 0
      BY <2>2, <3>1 DEF Tracks
    <3>4. v # r.uid => (v \in told <=> refcounts[v] > 0)
      BY <2>2, <3>1, CommandsDiffer DEF Tracks
    <3>. QED
      BY <2>1, <3>2, <3>3, <3>4, CommandsDiffer
  <2>4. CASE r.op = "DELETE"
    <3>1. r = DeleteRequest(r.uid) /\ r.uid \in Uid
      BY <2>4 DEF ValueRequest, DeleteRequest
    <3>2. told' = told \ {r.uid}
      BY <2>1, <2>2, <2>4 DEF Obey
    <3>3. refcounts[r.uid] = 0
      BY <2>2, <3>1 DEF Tracks
    <3>4. v # r.uid => (v \in told <=> refcounts[v] > 0)
      BY <2>2, <3>1, CommandsDiffer DEF Tracks
    <3>. QED
      BY <2>1, <3>2, <3>3, <3>4, CommandsDiffer
  <2>5. CASE r.op = "PERIOD"
    <3>1. r = PeriodRequest(r.period_ms)
      BY <2>5 DEF ValueRequest, PeriodRequest
    <3>2. told' = told
      BY <2>1, <2>2, <2>5 DEF Obey
    <3>3. v \in told <=> refcounts[v] > 0
      BY <2>2, <3>1, CommandsDiffer DEF Tracks
    <3>. QED
      BY <2>1, <3>2, <3>3, CommandsDiffer
  <2>. QED
    BY <2>2, <2>3, <2>4, <2>5 DEF ValueRequest
<1>7. ASSUME UNCHANGED <<refcounts, sending, told>>,
             sending = <<>> \/ UNCHANGED uids
      PROVE  Goal
  <2>1. CASE sending = <<>>
    BY <1>a, <1>7, <2>1, CommandsDiffer
  <2>2. CASE UNCHANGED uids
    BY <1>7, <2>2, WatchersUnchanged DEF Tracks
  <2>. QED
    BY <1>7, <2>1, <2>2
<1>. QED
  BY <1>1, <1>3, <1>4, <1>5, <1>6, <1>7 DEF Next, vars, Connect, Disconnect, Idle

(* The invariant holds before anybody connects.                             *)
LEMMA InitInv == Init => IInv
<1>1. Init => Tracks /\ DepartedHoldNone
  BY CommandsDiffer DEF Init, Tracks, DepartedHoldNone
<1>2. Init => TypeOK
  BY InterestAssumption DEF Init, TypeOK, InterestAssumption
<1>. QED
  BY <1>1, <1>2, NoCountsYet DEF IInv

(* Every step keeps it.                                                     *)
LEMMA NextKeepsInv == IInv /\ [Next]_vars => IInv'
<1> SUFFICES ASSUME IInv, [Next]_vars PROVE IInv'
  OBVIOUS
<1>1. TypeOK' /\ RefcountExact' /\ Tracks'
  BY TypeStep, RefcountStep, TracksStep DEF IInv
<1>2. DepartedHoldNone'
  BY DEF IInv, TypeOK, DepartedHoldNone, Next, vars, Connect, Disconnect, Subscribe,
         Unsubscribe, client_subscribe, client_unsubscribe, SetMinSeparation, ReleaseNext,
         CallbackReturns
<1>. QED
  BY <1>1, <1>2 DEF IInv

(* The inductive invariant holds in every reachable state.                  *)
THEOREM InterestInvariant == Spec => []IInv
BY InitInv, NextKeepsInv, PTL DEF Spec

(* Commands for one uid alternate, and DELETE waits for the last watcher. *)
THEOREM CommandsAlternate == Spec => []EdgeTriggered
<1>1. IInv => EdgeTriggered
  BY ZeroMeansNoWatcher DEF IInv, EdgeTriggered, Tracks
<1>. QED
  BY <1>1, InterestInvariant, PTL

(* Between handlers the counted uids are the connected clients' interests.  *)
LEMMA CountedIsWanted ==
  ASSUME IInv, Idle PROVE active_uids = UNION {uids[c] : c \in ws_clients}
<1>1. ws_clients \subseteq Client /\ uids \in [Client -> SUBSET Uid] /\ refcounts \in [Uid -> Nat]
  BY DEF IInv, TypeOK
<1>2. ASSUME NEW u \in Uid PROVE refcounts[u] > 0 <=> Watchers(u) # {}
  <2>1. refcounts[u] = 0 <=> Watchers(u) = {}
    BY ZeroMeansNoWatcher DEF Idle, IInv
  <2>. QED
    BY <1>1, <2>1
<1>3. ASSUME NEW u \in Uid PROVE Watchers(u) # {} <=> \E c \in ws_clients : u \in uids[c]
  BY <1>1 DEF IInv, DepartedHoldNone, Watchers
<1>. QED
  BY <1>1, <1>2, <1>3 DEF active_uids

(* Between handlers, the commands sent so far ask for exactly the union of *)
(* the connected clients' interests.                                       *)
THEOREM CommandsConveyInterest == Spec => []ToldIsInterest
<1>1. ASSUME IInv PROVE ToldIsInterest
  <2>1. ASSUME Idle PROVE told = active_uids
    BY <1>1, <2>1, CommandsDiffer DEF Idle, IInv, Tracks, TypeOK, active_uids
  <2>. QED
    BY <1>1, <2>1, CountedIsWanted DEF IInv, DepartedHoldNone, ToldIsInterest
<1>. QED
  BY <1>1, InterestInvariant, PTL

----------------------------------------------------------------------------
(* A uid is wanted when somebody watches it. *)
LEMMA WantedIsWatched ==
  ASSUME TypeOK, NEW u \in Uid PROVE u \in Announced!Wanted <=> Watchers(u) # {}
BY DEF Announced!Wanted, Watchers, TypeOK

(* Between handlers nothing is left to announce. *)
LEMMA IdleIsAnnounced ==
  ASSUME IInv, ToldIsInterest, Idle PROVE told = Announced!Wanted
<1>1. told = UNION {uids[c] : c \in ws_clients}
  BY DEF ToldIsInterest
<1>2. ws_clients \subseteq Client /\ \A c \in Client \ ws_clients : uids[c] = {}
  BY DEF IInv, TypeOK, DepartedHoldNone
<1>. QED
  BY <1>1, <1>2 DEF Announced!Wanted

(* A step that changes what one client wants is a wish. *)
LEMMA WishStep ==
  ASSUME IInv, ToldIsInterest, Idle, NEW c \in Client, NEW wish \in SUBSET Uid,
         uids' = [uids EXCEPT ![c] = wish], told' = told
  PROVE  Announced!Next
<1>1. Announced!Wish(c, wish)
  BY IdleIsAnnounced DEF Announced!Wish
<1>. QED
  BY <1>1 DEF Announced!Next

(* Refcounts, edges and release one by one implement the shared interest,   *)
(* for any clients and uids.                                               *)
THEOREM SharedInterestImplemented == Spec => ImplementsSharedInterest
<1>1. Init => Announced!Init
  BY DEF Init, Announced!Init
<1>2. IInv /\ EdgeTriggered /\ ToldIsInterest /\ [Next]_vars => [Announced!Next]_(Announced!vars)
  <2> SUFFICES ASSUME IInv, EdgeTriggered, ToldIsInterest, [Next]_vars
               PROVE  Announced!Next \/ UNCHANGED <<uids, told>>
    BY DEF Announced!vars
  <2>0. TypeOK /\ uids \in [Client -> SUBSET Uid]
    BY DEF IInv, TypeOK
  <2>1. ASSUME NEW c \in Client, NEW u \in Uid, Subscribe(c, u) PROVE Announced!Next
    <3>1. Idle /\ uids' = [uids EXCEPT ![c] = uids[c] \cup {u}] /\ told' = told
      BY <2>1 DEF Subscribe, client_subscribe
    <3>2. uids[c] \cup {u} \in SUBSET Uid
      BY <2>0
    <3>. QED
      BY <3>1, <3>2, WishStep
  <2>2. ASSUME NEW c \in Client, NEW u \in Uid, Unsubscribe(c, u) PROVE Announced!Next
    <3>1. Idle /\ uids' = [uids EXCEPT ![c] = uids[c] \ {u}] /\ told' = told
      BY <2>2 DEF Unsubscribe, client_unsubscribe
    <3>2. uids[c] \ {u} \in SUBSET Uid
      BY <2>0
    <3>. QED
      BY <3>1, <3>2, WishStep
  <2>3. ASSUME NEW c \in Client, Disconnect(c) PROVE Announced!Next
    <3>1. Idle /\ uids' = [uids EXCEPT ![c] = {}] /\ told' = told
      BY <2>3 DEF Disconnect
    <3>. QED
      BY <3>1, WishStep
  <2>4. ASSUME CallbackReturns PROVE Announced!Next \/ UNCHANGED <<uids, told>>
    <3>1. sending # <<>> /\ told' = Obey(told, Head(sending)) /\ uids' = uids
      BY <2>4 DEF CallbackReturns
    <3>2. PICK r \in ValueRequest : sending = <<r>> /\ Head(sending) = r
      BY <2>0, <3>1 DEF TypeOK
    <3>3. CASE r.op = "ADD"
      <4>1. r = AddRequest(r.uid) /\ r.uid \in Uid
        BY <3>3 DEF ValueRequest, AddRequest
      <4>2. r.uid \notin told /\ Watchers(r.uid) # {}
        BY <3>2, <4>1 DEF EdgeTriggered
      <4>3. Announced!Announce(r.uid)
        BY <2>0, <3>1, <3>2, <3>3, <4>1, <4>2, WantedIsWatched DEF Obey, Announced!Announce
      <4>. QED
        BY <4>1, <4>3 DEF Announced!Next
    <3>4. CASE r.op = "DELETE"
      <4>1. r = DeleteRequest(r.uid) /\ r.uid \in Uid
        BY <3>4 DEF ValueRequest, DeleteRequest
      <4>2. r.uid \in told /\ Watchers(r.uid) = {}
        BY <3>2, <4>1 DEF EdgeTriggered
      <4>3. Announced!Withdraw(r.uid)
        BY <2>0, <3>1, <3>2, <3>4, <4>1, <4>2, WantedIsWatched DEF Obey, Announced!Withdraw
      <4>. QED
        BY <4>1, <4>3 DEF Announced!Next
    <3>5. CASE r.op = "PERIOD"
      BY <3>1, <3>2, <3>5 DEF Obey
    <3>. QED
      BY <3>2, <3>3, <3>4, <3>5 DEF ValueRequest
  <2>5. CASE \/ \E c \in Client : Connect(c)
             \/ \E p \in Separation : SetMinSeparation(p)
             \/ \E u \in Uid : ReleaseNext(u)
             \/ UNCHANGED vars
    BY <2>5 DEF Connect, SetMinSeparation, ReleaseNext, vars
  <2>. QED
    BY <2>1, <2>2, <2>3, <2>4, <2>5 DEF Next
<1>. QED
  BY <1>1, <1>2, InterestInvariant, CommandsAlternate, CommandsConveyInterest, PTL
  DEF Spec, ImplementsSharedInterest, Announced!Spec
============================================================================
