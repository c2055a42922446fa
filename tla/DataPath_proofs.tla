-------------------------- MODULE DataPath_proofs --------------------------
(***************************************************************************)
(* Proofs about DataPath: for any tags, separations and publish periods,   *)
(* and batches that block for any time, writes keep the separation, no     *)
(* retraction is held back and no live tag is starved.                     *)
(***************************************************************************)
EXTENDS DataPath, SequenceFacts

Queue(s) == Len(s) <= 2 /\ (Len(s) = 2 => IsValue(s[1]) # IsValue(s[2]))

----------------------------------------------------------------------------
(* The reader and the batch. *)

(* What TypeOK says of one tag's queues.                                    *)
LEMMA Queues ==
  ASSUME TypeOK, NEW u \in Uid
  PROVE  /\ cache[u] \in Seq(Sample) /\ batch[u] \in Seq(Taken)
         /\ Queue(cache[u]) /\ Queue(batch[u])
         /\ ~handling => batch[u] = <<>>
BY DEF TypeOK, Queue, Nothing

(* A new sample is the last of the reader's, and the other one, if there is *)
(* any, is of the other kind.                                               *)
LEMMA PushIsLast ==
  ASSUME TypeOK, NEW u \in Uid, NEW x \in Sample, Push(u, x)
  PROVE  /\ cache' \in [Uid -> Seq(Sample)]
         /\ \A v \in Uid \ {u} : cache'[v] = cache[v]
         /\ cache'[u] # <<>> /\ cache'[u][Len(cache'[u])] = x
         /\ Queue(cache'[u])
<1>1. PICK kept \in {<<>>} \cup {<<s>> : s \in {cache[u][i] : i \in DOMAIN cache[u]} \ {x}} :
        cache' = [cache EXCEPT ![u] = Append(kept, x)]
  BY DEF Push
<1>2. cache[u] \in Seq(Sample) /\ cache \in [Uid -> Seq(Sample)]
  BY DEF TypeOK
<1>3. kept \in Seq(Sample) /\ Len(kept) \in {0, 1} /\ (Len(kept) = 1 => kept[1] \in Sample \ {x})
  <2>1. CASE kept = <<>>
    BY <2>1
  <2>2. ASSUME NEW s \in {cache[u][i] : i \in DOMAIN cache[u]} \ {x}, kept = <<s>>
        PROVE  kept \in Seq(Sample) /\ Len(kept) = 1 /\ kept[1] \in Sample \ {x}
    <3>1. s \in Sample \ {x}
      BY <1>2, ElementOf
    <3> QED
      BY <2>2, <3>1
  <2> QED
    BY <2>1, <2>2
<1>4. /\ Append(kept, x) \in Seq(Sample) /\ Append(kept, x) # <<>>
      /\ Len(Append(kept, x)) = Len(kept) + 1 /\ Append(kept, x)[Len(kept) + 1] = x
      /\ \A i \in DOMAIN kept : Append(kept, x)[i] = kept[i]
  BY <1>3, AppendOf
<1>5. /\ cache'[u] = Append(kept, x) /\ cache' \in [Uid -> Seq(Sample)]
      /\ \A v \in Uid \ {u} : cache'[v] = cache[v]
  BY <1>1, <1>2, <1>4
<1>6. Queue(Append(kept, x))
  <2>1. CASE Len(kept) = 0
    BY <1>4, <2>1 DEF Queue
  <2>2. CASE Len(kept) = 1
    <3>1. 1 \in DOMAIN kept
      BY <1>3, <2>2
    <3>2. Append(kept, x)[1] \in Sample \ {x} /\ Append(kept, x)[2] = x
      BY <1>3, <1>4, <2>2, <3>1
    <3> QED
      BY <1>4, <2>2, <3>2 DEF Queue, Sample, IsValue
  <2> QED
    BY <1>3, <2>1, <2>2
<1> QED
  BY <1>3, <1>4, <1>5, <1>6

(* What process() takes: the same samples, each end with its state.         *)
LEMMA TakenAsIs ==
  ASSUME TypeOK, Process, NEW u \in Uid
  PROVE  /\ batch'[u] \in Seq(Taken) /\ cache'[u] = <<>>
         /\ Len(batch'[u]) = Len(cache[u]) /\ DOMAIN batch'[u] = DOMAIN cache[u]
         /\ \A i \in DOMAIN cache[u] : IsValue(batch'[u][i]) <=> IsValue(cache[u][i])
<1>1. /\ batch'[u] = [i \in 1 .. Len(cache[u]) |-> As(cache[u][i], field[u])]
      /\ cache'[u] = <<>> /\ cache[u] \in Seq(Sample)
  BY DEF Process, Nothing, TypeOK
<1>2. Len(cache[u]) \in Nat /\ DOMAIN cache[u] = 1 .. Len(cache[u])
  BY <1>1, DomainOf
<1>3. \A i \in 1 .. Len(cache[u]) : As(cache[u][i], field[u]) \in Taken
  BY DEF As, Taken, IsValue
<1>4. \A i \in 1 .. Len(cache[u]) : IsValue(As(cache[u][i], field[u])) <=> IsValue(cache[u][i])
  BY DEF As, IsValue
<1> QED
  BY <1>1, <1>2, <1>3, <1>4

(* A sample that is done with leaves the rest of the batch.                 *)
LEMMA DoneIsTail ==
  ASSUME TypeOK, NEW u \in Uid, SampleDone(u), batch[u] # <<>>
  PROVE  /\ batch' \in [Uid -> Seq(Taken)] /\ batch'[u] = Tail(batch[u])
         /\ \A v \in Uid \ {u} : batch'[v] = batch[v]
         /\ Queue(batch'[u]) /\ Len(batch'[u]) <= 1 /\ handling
         /\ \A i \in DOMAIN batch'[u] : i = 1 /\ batch'[u][1] = batch[u][2] /\ Len(batch[u]) = 2
<1>1. /\ batch \in [Uid -> Seq(Taken)] /\ batch[u] \in Seq(Taken) /\ Len(batch[u]) <= 2
      /\ batch' = [batch EXCEPT ![u] = Tail(@)]
  BY DEF SampleDone, TypeOK
<1>2. /\ Tail(batch[u]) \in Seq(Taken) /\ Len(Tail(batch[u])) = Len(batch[u]) - 1
      /\ \A i \in DOMAIN Tail(batch[u]) : Tail(batch[u])[i] = batch[u][i + 1]
  BY <1>1, TailOf
<1>3. Len(batch[u]) \in Nat /\ Len(Tail(batch[u])) <= 1
  BY <1>1, <1>2
<1>4. handling
  BY DEF TypeOK, Nothing
<1>5. \A i \in DOMAIN Tail(batch[u]) : i = 1 /\ Len(batch[u]) = 2
  BY <1>1, <1>2, <1>3
<1> QED
  BY <1>1, <1>2, <1>3, <1>4, <1>5 DEF Queue

----------------------------------------------------------------------------
(* The inductive invariant.  A sample of a live tag is forwarded unless it  *)
(* is too soon after the last, so what has been handled bounds fresh; what  *)
(* is pending is bounded by when it was published and by what may block     *)
(* before its turn.                                                         *)

(* The clock is ahead of everything recorded, by no more than may block.    *)
Timely ==
  /\ \A u \in Uid : published[u] <= clock /\ fresh[u] <= clock /\ written[u] <= clock
  /\ clock - now <= MaxBlocking
  /\ \A u \in Uid : field[u] = "alive" => clock - published[u] <= PublishPeriod

(* What the table says of a tag against what was written of it.             *)
Emissions ==
  /\ separation_in_force <= MaxSeparation
  /\ \A u \in ST!selected :
       /\ subscriptions[u].last_emitted <= now
       /\ subscriptions[u].has_emitted => subscriptions[u].last_emitted <= fresh[u]
  /\ \A u \in Uid : written[u] # Never =>
       /\ u \in ST!selected /\ subscriptions[u].has_emitted
       /\ written[u] <= subscriptions[u].last_emitted + MaxBlocking

Last(s) == s[Len(s)]

(* The last sample there is of a tag says whether it is alive.              *)
LastTells ==
  \A u \in Uid :
    /\ cache[u] # <<>> => (IsValue(Last(cache[u])) <=> field[u] = "alive")
    /\ cache[u] = <<>> /\ batch[u] # <<>> => (IsValue(Last(batch[u])) <=> field[u] = "alive")

Waiting(u) == \E i \in DOMAIN batch[u] : IsValue(batch[u][i])

(* How far the clock may be ahead of fresh where the last value of a tag    *)
(* has been handled, is in the batch, or is in the reader.                  *)
Due(u) ==
  LET latest == fresh[u] + MaxSeparation IN
  /\ Waiting(u) => now < latest + PublishPeriod + 2 * MaxBlocking
  /\ ~Waiting(u) /\ cache[u] = <<>> => published[u] < latest
  /\ ~Waiting(u) /\ cache[u] # <<>> /\ handling => now < latest + PublishPeriod
  /\ ~handling /\ cache[u] # <<>> => now < latest + PublishPeriod + MaxBlocking

NoneStarved ==
  /\ \A u \in Uid : field[u] = "alive" /\ cache[u] = <<>> => published[u] <= now
  /\ \A u \in ST!selected : field[u] = "alive" => Due(u)

IInv == TypeOK /\ Timely /\ Emissions /\ LastTells /\ NoneStarved /\ NoOtherGhost

(* Nothing has happened yet.                                                *)
LEMMA InitInv == Init => IInv
<1> SUFFICES ASSUME Init PROVE IInv
  OBVIOUS
<1> USE DataPathAssumption DEF Init, ST!Init, ST!range_enabled, ST!selected, Nothing, Never
<1>1. \A u \in Uid : cache[u] = <<>> /\ batch[u] = <<>>
  OBVIOUS
<1>2. TypeOK
  <2>1. \A u \in Uid : \A s \in {cache[u], batch[u]} :
          Len(s) <= 2 /\ (Len(s) = 2 => IsValue(s[1]) # IsValue(s[2]))
    BY <1>1
  <2>2. separation_in_force \in Nat
    OBVIOUS
  <2>3. cache \in [Uid -> Seq(Sample)] /\ batch \in [Uid -> Seq(Taken)]
    OBVIOUS
  <2>4. /\ clock \in 0 .. MaxTime /\ now \in 0 .. clock
        /\ field \in [Uid -> {"absent", "alive", "disposed", "no_writers"}]
        /\ published \in [Uid -> 0 .. MaxTime] /\ fresh \in [Uid -> 0 .. MaxTime]
        /\ written \in [Uid -> {-1} \cup 0 .. MaxTime] /\ writes \in [Uid -> {0, 1}]
        /\ out \in [Uid -> {"none", "alive", "disposed", "unregistered"}]
    OBVIOUS
  <2>5. subscriptions = [u \in PreEnabled |-> ST!Fresh] /\ ST!Fresh \in ST!TagState
    BY DEF ST!Fresh, ST!TagState
  <2> QED
    BY <2>1, <2>2, <2>3, <2>4, <2>5 DEF TypeOK
<1>3. Timely /\ Emissions
  BY DEF Timely, Emissions, ST!Fresh
<1>4. LastTells /\ NoneStarved /\ NoOtherGhost
  BY <1>1 DEF LastTells, NoneStarved, NoOtherGhost
<1> QED
  BY <1>2, <1>3, <1>4 DEF IInv

(* Numbers the steps below compare.                                         *)
LEMMA Numbers ==
  ASSUME TypeOK
  PROVE  /\ clock \in Nat /\ now \in Nat /\ now <= clock /\ separation_in_force \in Nat
         /\ \A u \in Uid : published[u] \in Nat /\ fresh[u] \in Nat /\ written[u] \in Int
         /\ \A u \in ST!selected : subscriptions[u].last_emitted \in Nat
         /\ {MaxSeparation, PublishPeriod, MaxBlocking, MaxTime} \subseteq Nat /\ MaxSeparation > 0
BY DataPathAssumption DEF TypeOK, ST!TagState, Never

(* The field.                                                               *)
LEMMA PublishStep == ASSUME IInv, NEW u \in Uid, Publish(u) PROVE IInv'
<1> USE DEF IInv
<1>1. /\ field' = [field EXCEPT ![u] = "alive"] /\ published' = [published EXCEPT ![u] = clock]
      /\ fresh' = [fresh EXCEPT ![u] = IF field[u] = "alive" THEN @ ELSE clock]
      /\ Push(u, "value")
      /\ UNCHANGED <<clock, table, process, out, written, writes, ghosts>>
  BY DEF Publish
<1>2. /\ cache' \in [Uid -> Seq(Sample)]
      /\ \A v \in Uid \ {u} : cache'[v] = cache[v]
      /\ cache'[u] # <<>> /\ IsValue(Last(cache'[u])) /\ Queue(cache'[u])
  BY <1>1, PushIsLast DEF Last, IsValue, Sample
<1>3. /\ UNCHANGED <<clock, subscriptions, separation_in_force, handling, batch, now, out,
                     written, writes, ghosts>>
      /\ field'[u] = "alive" /\ published'[u] = clock
      /\ \A v \in Uid \ {u} :
           field'[v] = field[v] /\ published'[v] = published[v] /\ fresh'[v] = fresh[v]
      /\ fresh'[u] = IF field[u] = "alive" THEN fresh[u] ELSE clock
  BY <1>1 DEF TypeOK, table, process
<1>0. /\ clock \in Nat /\ MaxSeparation \in Nat /\ PublishPeriod \in Nat /\ MaxBlocking \in Nat
      /\ now \in Nat /\ now <= clock /\ MaxSeparation > 0
      /\ \A v \in Uid : fresh[v] \in Nat /\ published[v] \in Nat
      /\ \A v \in ST!selected : subscriptions[v].last_emitted \in Nat
  BY Numbers
<1>4. TypeOK'
  <2>1. \A v \in Uid : Queue(cache'[v]) /\ Queue(batch'[v])
    BY <1>2, <1>3, Queues
  <2>2. /\ field' \in [Uid -> {"absent", "alive", "disposed", "no_writers"}]
        /\ published' \in [Uid -> 0 .. MaxTime] /\ fresh' \in [Uid -> 0 .. MaxTime]
    BY <1>1 DEF TypeOK
  <2> QED
    BY <1>2, <1>3, <2>1, <2>2 DEF TypeOK, Nothing, ST!selected, Queue
<1>5. Timely'
  BY <1>0, <1>3 DEF Timely
<1>6. Emissions'
  <2>1. \A v \in Uid : fresh[v] <= fresh'[v] /\ fresh'[v] \in Nat
    BY <1>0, <1>3 DEF Timely
  <2>2. \A v \in ST!selected : v \in Uid /\
          (subscriptions[v].has_emitted => subscriptions[v].last_emitted <= fresh'[v])
    BY <1>0, <2>1 DEF Emissions, TypeOK
  <2> QED
    BY <1>3, <2>2 DEF Emissions, ST!selected
<1>7. LastTells'
  BY <1>2, <1>3 DEF LastTells
<1>8. NoneStarved'
  <2> SUFFICES ASSUME NEW v \in ST!selected', field'[v] = "alive" PROVE Due(v)'
    BY <1>2, <1>3 DEF NoneStarved
  <2>1. v \in ST!selected /\ v \in Uid /\ (Waiting(v)' <=> Waiting(v))
    BY <1>3 DEF ST!selected, TypeOK, Waiting
  <2>2. CASE v # u
    BY <1>2, <1>3, <2>1, <2>2 DEF NoneStarved, Due
  <2>3. CASE v = u /\ field[u] # "alive"
    <3>1. fresh'[v] = clock /\ cache'[v] # <<>>
      BY <1>2, <1>3, <2>3
    <3> QED
      BY <1>0, <1>3, <3>1 DEF Due
  <2>4. CASE v = u /\ field[u] = "alive"
    <3>1. fresh'[v] = fresh[v] /\ cache'[v] # <<>> /\ v \in Uid
      BY <1>2, <1>3, <2>4
    <3>2. Due(v) /\ clock - published[v] <= PublishPeriod
      BY <2>1, <2>4 DEF NoneStarved, Timely
    <3>3. /\ Waiting(v) => now < fresh[v] + MaxSeparation + PublishPeriod + 2 * MaxBlocking
          /\ ~Waiting(v) /\ handling => now < fresh[v] + MaxSeparation + PublishPeriod
          /\ ~handling => now < fresh[v] + MaxSeparation + PublishPeriod + MaxBlocking
      <4>1. CASE cache[v] # <<>>
        <5>1. ~handling => ~Waiting(v)
          BY <1>4, <2>1, <3>1, DomainOf DEF TypeOK, Nothing, Waiting
        <5> QED
          BY <3>2, <4>1 DEF Due
      <4>2. CASE cache[v] = <<>>
        <5>1. ~handling => ~Waiting(v)
          BY <2>1, <3>1, DomainOf DEF TypeOK, Nothing, Waiting
        <5>2. ~Waiting(v) => clock < fresh[v] + MaxSeparation + PublishPeriod
          BY <1>0, <3>1, <3>2, <4>2 DEF Due
        <5> QED
          BY <1>0, <3>1, <3>2, <4>2, <5>1, <5>2 DEF Due
      <4> QED
        BY <4>1, <4>2
    <3> QED
      BY <1>3, <2>1, <3>1, <3>3 DEF Due
  <2> QED
    BY <2>2, <2>3, <2>4
<1>9. NoOtherGhost'
  BY <1>2, <1>3 DEF NoOtherGhost
<1> QED
  BY <1>4, <1>5, <1>6, <1>7, <1>8, <1>9

(* A tag ends.                                                              *)
LEMMA EndStep ==
  ASSUME IInv, NEW u \in Uid, End(u, "disposed") \/ End(u, "no_writers")
  PROVE  IInv'
<1> USE DEF IInv
<1>1. /\ \/ field' = [field EXCEPT ![u] = "disposed"]
         \/ field' = [field EXCEPT ![u] = "no_writers"]
      /\ Push(u, "end")
      /\ UNCHANGED <<clock, published, table, process, out, history>>
  BY DEF End
<1>2. /\ cache' \in [Uid -> Seq(Sample)]
      /\ \A v \in Uid \ {u} : cache'[v] = cache[v]
      /\ cache'[u] # <<>> /\ ~IsValue(Last(cache'[u])) /\ Queue(cache'[u])
  BY <1>1, PushIsLast DEF Last, IsValue, Sample
<1>3. /\ UNCHANGED <<clock, published, subscriptions, separation_in_force, handling, batch, now,
                     out, written, writes, ghosts, fresh>>
      /\ field'[u] # "alive" /\ \A v \in Uid \ {u} : field'[v] = field[v]
  BY <1>1 DEF TypeOK, table, process, history
<1>4. TypeOK'
  <2>1. \A v \in Uid : Queue(cache'[v]) /\ Queue(batch'[v])
    BY <1>2, <1>3, Queues
  <2>2. field' \in [Uid -> {"absent", "alive", "disposed", "no_writers"}]
    BY <1>1 DEF TypeOK
  <2> QED
    BY <1>2, <1>3, <2>1, <2>2 DEF TypeOK, Nothing, ST!selected, Queue
<1>5. Timely' /\ Emissions' /\ LastTells'
  BY <1>2, <1>3 DEF Timely, Emissions, LastTells, ST!selected
<1>6. NoneStarved'
  BY <1>2, <1>3 DEF NoneStarved, Due, Waiting, ST!selected, TypeOK
<1>7. NoOtherGhost'
  <2>1. \E i \in 1 .. Len(cache'[u]) : ~IsValue(cache'[u][i])
    BY <1>2, DomainOf DEF Last
  <2> QED
    BY <1>2, <1>3, <2>1 DEF NoOtherGhost
<1> QED
  BY <1>4, <1>5, <1>6, <1>7

(* Time passes, unless the field owes a sample.                             *)
LEMMA TickStep == ASSUME IInv, Tick PROVE IInv'
<1> USE DEF IInv
<1>1. /\ clock < MaxTime /\ clock' = clock + 1
      /\ \/ clock - now < MaxBlocking /\ now' = now
         \/ ~handling /\ cache = Nothing /\ now' = clock'
      /\ \A u \in Uid : field[u] = "alive" => clock - published[u] < PublishPeriod
      /\ UNCHANGED <<field, published, cache, subscriptions, separation_in_force, handling,
                     batch, out, written, writes, ghosts, fresh>>
  BY DEF Tick, external, table, history
<1>2. /\ clock \in Nat /\ now \in Nat /\ now <= clock
      /\ \A u \in Uid : published[u] \in Nat /\ fresh[u] \in Nat /\ written[u] \in Int
      /\ {MaxSeparation, PublishPeriod, MaxBlocking, MaxTime} \subseteq Nat
  BY Numbers
<1>0. now <= now' /\ now' \in Nat
  BY <1>1, <1>2
<1>3. TypeOK'
  <2>1. clock' \in 0 .. MaxTime /\ now' \in 0 .. clock'
    BY <1>1, <1>2
  <2>2. \A v \in Uid : Queue(cache'[v]) /\ Queue(batch'[v])
    BY <1>1, Queues
  <2> QED
    BY <1>1, <2>1, <2>2 DEF TypeOK, Nothing, ST!selected, Queue
<1>4. Timely'
  BY <1>1, <1>2 DEF Timely
<1>5. LastTells' /\ NoOtherGhost'
  BY <1>1 DEF LastTells, NoOtherGhost
<1>6. Emissions'
  <2>1. \A v \in ST!selected : subscriptions[v].last_emitted <= now'
    BY <1>0, <1>2, Numbers DEF Emissions
  <2> QED
    BY <1>1, <2>1 DEF Emissions, ST!selected
<1>7. NoneStarved'
  <2>1. \A u \in Uid : published[u] <= now => published[u] <= now'
    BY <1>0, <1>2
  <2>2. CASE now' = now
    BY <1>1, <2>2 DEF NoneStarved, Due, Waiting, ST!selected, TypeOK
  <2>3. CASE ~handling /\ cache = Nothing
    <3>1. ASSUME NEW u \in Uid PROVE cache[u] = <<>> /\ ~Waiting(u)
      <4>1. cache[u] = <<>> /\ batch[u] = <<>>
        BY <2>3, Queues DEF Nothing
      <4> QED
        BY <4>1, DomainOf DEF Waiting
    <3> QED
      BY <1>1, <2>1, <2>3, <3>1 DEF NoneStarved, Due, Waiting, ST!selected, TypeOK
  <2> QED
    BY <1>1, <2>2, <2>3
<1> QED
  BY <1>3, <1>4, <1>5, <1>6, <1>7

(* The requests.                                                            *)
LEMMA AddStep == ASSUME IInv, NEW u \in Uid, Add(u) PROVE IInv'
<1> USE DEF IInv
<1>1. /\ subscriptions' = [v \in ST!selected \cup {u} |->
                             IF v \in ST!selected THEN subscriptions[v] ELSE ST!Fresh]
      /\ fresh' = [fresh EXCEPT ![u] = IF u \in ST!selected THEN @ ELSE clock]
      /\ ~handling
      /\ UNCHANGED <<clock, field, published, cache, separation_in_force, handling, batch, now,
                     out, written, writes, ghosts>>
  BY DEF Add, ST!add, ST!contains, external, process
<1>2. /\ clock \in Nat /\ now \in Nat /\ now <= clock
      /\ \A v \in Uid : published[v] \in Nat /\ fresh[v] \in Nat /\ written[v] \in Int
      /\ {MaxSeparation, PublishPeriod, MaxBlocking, MaxTime} \subseteq Nat /\ MaxSeparation > 0
  BY Numbers
<1>3. /\ ST!selected' = ST!selected \cup {u} /\ ST!selected \subseteq Uid
      /\ \A v \in ST!selected : subscriptions'[v] = subscriptions[v] /\ fresh'[v] = fresh[v]
      /\ u \notin ST!selected => subscriptions'[u] = ST!Fresh /\ fresh'[u] = clock
      /\ \A v \in Uid \ {u} : fresh'[v] = fresh[v]
  BY <1>1 DEF ST!selected, TypeOK
<1>4. TypeOK'
  <2>1. \A v \in Uid : Queue(cache'[v]) /\ Queue(batch'[v])
    BY <1>1, Queues
  <2>2. \A v \in ST!selected' : subscriptions'[v] \in ST!TagState
    <3>1. ST!Fresh \in ST!TagState
      BY DEF ST!Fresh, ST!TagState
    <3>2. \A v \in ST!selected : subscriptions[v] \in ST!TagState
      BY DEF TypeOK
    <3> QED
      BY <1>3, <3>1, <3>2
  <2>3. fresh' \in [Uid -> 0 .. MaxTime] /\ ST!selected' \subseteq Uid
    BY <1>1, <1>3 DEF TypeOK
  <2> QED
    BY <1>1, <2>1, <2>2, <2>3 DEF TypeOK, Nothing, Queue
<1>5. Timely' /\ LastTells' /\ NoOtherGhost'
  <2>1. \A v \in Uid : fresh'[v] <= clock
    BY <1>1, <1>2 DEF Timely, TypeOK
  <2> QED
    BY <1>1, <2>1 DEF Timely, LastTells, NoOtherGhost
<1>6. Emissions'
  BY <1>1, <1>2, <1>3 DEF Emissions, ST!Fresh
<1>7. NoneStarved'
  <2> SUFFICES ASSUME NEW v \in ST!selected', field'[v] = "alive" PROVE Due(v)'
    BY <1>1 DEF NoneStarved
  <2>1. Waiting(v)' <=> Waiting(v)
    BY <1>1 DEF Waiting
  <2>2. CASE v \in ST!selected
    BY <1>1, <1>3, <2>1, <2>2 DEF NoneStarved, Due
  <2>3. CASE v \notin ST!selected
    <3>1. v \in Uid /\ fresh'[v] = clock /\ batch'[v] = <<>> /\ published[v] <= clock
      BY <1>1, <1>3, <2>3, Queues DEF Timely
    <3>2. ~Waiting(v)'
      BY <3>1 DEF Waiting
    <3> QED
      BY <1>1, <1>2, <3>1, <3>2 DEF Due
  <2> QED
    BY <2>2, <2>3
<1> QED
  BY <1>4, <1>5, <1>6, <1>7

(* A tag leaves the table.                                                  *)
LEMMA DeleteStep == ASSUME IInv, NEW u \in Uid, Delete(u) PROVE IInv'
<1> USE DEF IInv
<1>1. /\ subscriptions' = [v \in ST!selected \ {u} |-> subscriptions[v]]
      /\ written' = [written EXCEPT ![u] = Never]
      /\ UNCHANGED <<clock, field, published, cache, separation_in_force, handling, batch, now,
                     out, writes, ghosts, fresh>>
  BY DEF Delete, ST!erase, external, process
<1>2. /\ ST!selected' = ST!selected \ {u} /\ ST!selected \subseteq Uid
      /\ \A v \in ST!selected' : subscriptions'[v] = subscriptions[v]
      /\ written'[u] = Never /\ \A v \in Uid \ {u} : written'[v] = written[v]
  BY <1>1 DEF ST!selected, TypeOK
<1>3. TypeOK'
  <2>1. \A v \in Uid : Queue(cache'[v]) /\ Queue(batch'[v])
    BY <1>1, Queues
  <2>2. written' \in [Uid -> {Never} \cup 0 .. MaxTime]
    BY <1>1 DEF TypeOK
  <2> QED
    BY <1>1, <1>2, <2>1, <2>2 DEF TypeOK, Nothing, Queue
<1>4. Timely' /\ LastTells' /\ NoOtherGhost'
  <2>1. \A v \in Uid : written'[v] <= clock
    BY <1>2, Numbers DEF Timely, Never
  <2> QED
    BY <1>1, <2>1 DEF Timely, LastTells, NoOtherGhost
<1>5. Emissions' /\ NoneStarved'
  BY <1>1, <1>2 DEF Emissions, NoneStarved, Due, Waiting
<1> QED
  BY <1>3, <1>4, <1>5

(* The separation is changed.                                               *)
LEMMA PeriodStep == ASSUME IInv, NEW p \in Period, SetPeriod(p) PROVE IInv'
<1> USE DEF IInv
<1>1. /\ separation_in_force' \in 0 .. MaxSeparation
      /\ UNCHANGED <<clock, field, published, cache, subscriptions, handling, batch, now, out,
                     written, writes, ghosts, fresh>>
  BY DataPathAssumption DEF SetPeriod, ST!set_period, external, process, history
<1>2. TypeOK'
  <2>1. \A v \in Uid : Queue(cache'[v]) /\ Queue(batch'[v])
    BY <1>1, Queues
  <2>2. separation_in_force' \in Nat
    BY <1>1, DataPathAssumption
  <2> QED
    BY <1>1, <2>1, <2>2 DEF TypeOK, Nothing, Queue, ST!selected
<1>3. Timely' /\ LastTells' /\ NoOtherGhost' /\ NoneStarved'
  BY <1>1 DEF Timely, LastTells, NoOtherGhost, NoneStarved, Due, Waiting, ST!selected
<1>4. Emissions'
  BY <1>1, DataPathAssumption DEF Emissions, ST!selected
<1> QED
  BY <1>2, <1>3, <1>4

(* The batch.                                                               *)
LEMMA ProcessStep == ASSUME IInv, Process PROVE IInv'
<1> USE DEF IInv
<1>1. /\ ~handling /\ handling' = TRUE /\ now' = clock /\ cache' = Nothing
      /\ batch' = [u \in Uid |-> [i \in 1 .. Len(cache[u]) |-> As(cache[u][i], field[u])]]
      /\ UNCHANGED <<clock, field, published, subscriptions, separation_in_force, out,
                     written, writes, ghosts, fresh>>
  BY DEF Process, external, table, history
<1>2. \A u \in Uid :
        /\ batch'[u] \in Seq(Taken) /\ cache'[u] = <<>>
        /\ Len(batch'[u]) = Len(cache[u]) /\ DOMAIN batch'[u] = DOMAIN cache[u]
        /\ \A i \in DOMAIN cache[u] : IsValue(batch'[u][i]) <=> IsValue(cache[u][i])
  BY TakenAsIs
<1>3. \A u \in Uid :
        /\ cache[u] \in Seq(Sample) /\ Queue(cache[u]) /\ batch[u] = <<>>
        /\ Len(cache[u]) \in Nat /\ DOMAIN cache[u] = 1 .. Len(cache[u])
        /\ cache[u] # <<>> => Len(cache[u]) \in DOMAIN cache[u]
        /\ cache[u] = <<>> <=> Len(cache[u]) = 0
  BY <1>1, Queues, DomainOf
<1>4. \A u \in Uid : batch'[u] = <<>> <=> cache[u] = <<>>
  BY <1>2, <1>3, DomainOf
<1>5. /\ clock \in Nat /\ now \in Nat /\ now <= clock
      /\ \A v \in Uid : published[v] \in Nat /\ fresh[v] \in Nat /\ written[v] \in Int
      /\ \A v \in ST!selected : subscriptions[v].last_emitted \in Nat
      /\ {MaxSeparation, PublishPeriod, MaxBlocking, MaxTime} \subseteq Nat /\ MaxSeparation > 0
  BY Numbers
<1>6. TypeOK'
  <2>1. \A u \in Uid : Queue(cache'[u])
    BY <1>2, EmptySeq DEF Queue
  <2>2. \A u \in Uid : Queue(batch'[u])
    <3> SUFFICES ASSUME NEW u \in Uid PROVE Queue(batch'[u])
      OBVIOUS
    <3>1. Len(cache[u]) = 2 => 1 \in DOMAIN cache[u] /\ 2 \in DOMAIN cache[u]
      BY <1>3
    <3>2. Len(cache[u]) = 2 => (IsValue(cache[u][1]) # IsValue(cache[u][2]))
      BY <1>3 DEF Queue
    <3> QED
      BY <1>2, <1>3, <3>1, <3>2 DEF Queue, IsValue
  <2>3. cache' \in [Uid -> Seq(Sample)]
    BY <1>1 DEF Nothing
  <2>4. batch' \in [Uid -> Seq(Taken)]
    BY <1>1, <1>2
  <2>5. clock \in 0 .. MaxTime /\ now' \in 0 .. clock
    BY <1>1, <1>5 DEF TypeOK
  <2> QED
    BY <1>1, <2>1, <2>2, <2>3, <2>4, <2>5 DEF TypeOK, Queue, ST!selected
<1>7. Timely' /\ Emissions'
  <2>1. \A v \in ST!selected : subscriptions[v].last_emitted <= now
    BY DEF Emissions
  <2>2. ASSUME NEW v \in ST!selected PROVE subscriptions[v].last_emitted <= clock
    <3>1. subscriptions[v].last_emitted \in Nat /\ subscriptions[v].last_emitted <= now
      BY <1>5, <2>1
    <3> QED
      BY <1>5, <3>1
  <2> QED
    BY <1>1, <1>5, <2>2 DEF Timely, Emissions, ST!selected
<1>8. LastTells'
  <2> SUFFICES ASSUME NEW u \in Uid, batch'[u] # <<>>
               PROVE  IsValue(Last(batch'[u])) <=> field'[u] = "alive"
    BY <1>2 DEF LastTells
  <2>1. cache[u] # <<>> /\ Len(cache[u]) \in DOMAIN cache[u]
    BY <1>3, <1>4
  <2>2. IsValue(Last(batch'[u])) <=> IsValue(Last(cache[u]))
    BY <1>2, <2>1 DEF Last
  <2> QED
    BY <1>1, <2>1, <2>2 DEF LastTells
<1>9. NoneStarved'
  <2>1. \A u \in Uid : published[u] <= clock
    BY DEF Timely
  <2> SUFFICES ASSUME NEW u \in ST!selected', field'[u] = "alive" PROVE Due(u)'
    BY <1>1, <2>1 DEF NoneStarved
  <2>2. u \in ST!selected /\ u \in Uid /\ field[u] = "alive" /\ Due(u) /\ cache'[u] = <<>>
    BY <1>1, <1>2 DEF ST!selected, TypeOK, NoneStarved
  <2>3. ~Waiting(u)
    BY <1>3, <2>2, DomainOf DEF Waiting
  <2>4. CASE cache[u] = <<>>
    <3>1. published[u] < fresh[u] + MaxSeparation
      BY <2>2, <2>3, <2>4 DEF Due
    <3>2. ~Waiting(u)'
      BY <1>3, <1>2, <2>2, <2>4 DEF Waiting
    <3> QED
      BY <1>1, <2>2, <3>1, <3>2 DEF Due
  <2>5. CASE cache[u] # <<>>
    <3>1. IsValue(cache[u][Len(cache[u])]) /\ Len(cache[u]) \in DOMAIN cache[u]
      BY <1>3, <2>2, <2>5 DEF LastTells, Last
    <3>2. Waiting(u)'
      BY <1>2, <2>2, <3>1 DEF Waiting
    <3>3. now < fresh[u] + MaxSeparation + PublishPeriod + MaxBlocking
      BY <1>1, <2>2, <2>5 DEF Due
    <3>4. clock < fresh[u] + MaxSeparation + PublishPeriod + 2 * MaxBlocking
      <4>1. clock - now <= MaxBlocking /\ fresh[u] \in Nat
        BY <1>5, <2>2 DEF Timely
      <4> QED
        BY <1>5, <3>3, <4>1
    <3> QED
      BY <1>1, <2>2, <3>2, <3>4 DEF Due
  <2> QED
    BY <2>4, <2>5
<1>10. NoOtherGhost'
  <2> SUFFICES ASSUME NEW u \in Uid, out'[u] = "alive"
               PROVE  \/ field'[u] = "alive" \/ u \in ghosts'
                      \/ \E i \in 1 .. Len(batch'[u]) : ~IsValue(batch'[u][i])
    BY DEF NoOtherGhost
  <2>1. \/ field[u] = "alive" \/ u \in ghosts
        \/ \E i \in 1 .. Len(cache[u]) : ~IsValue(cache[u][i])
        \/ \E i \in 1 .. Len(batch[u]) : ~IsValue(batch[u][i])
    BY <1>1 DEF NoOtherGhost
  <2>2. ~ \E i \in 1 .. Len(batch[u]) : ~IsValue(batch[u][i])
    BY <1>3, EmptySeq
  <2> QED
    BY <1>1, <1>2, <1>3, <2>1, <2>2
<1> QED
  BY <1>6, <1>7, <1>8, <1>9, <1>10

(* The batch is done.                                                       *)
LEMMA ProcessReturnsStep == ASSUME IInv, ProcessReturns PROVE IInv'
<1> USE DEF IInv
<1>1. /\ handling /\ batch = Nothing /\ handling' = FALSE /\ now' = clock
      /\ UNCHANGED <<clock, field, published, cache, subscriptions, separation_in_force, batch,
                     out, written, writes, ghosts, fresh>>
  BY DEF ProcessReturns, external, table, history
<1>2. \A u \in Uid : batch[u] = <<>>
  BY <1>1 DEF Nothing
<1>3. TypeOK'
  <2>1. \A v \in Uid : Queue(cache'[v]) /\ Queue(batch'[v])
    BY <1>1, Queues
  <2>2. now' \in 0 .. clock'
    BY <1>1, Numbers
  <2> QED
    BY <1>1, <2>1, <2>2 DEF TypeOK, Nothing, Queue, ST!selected
<1>4. Timely' /\ LastTells' /\ NoOtherGhost' /\ Emissions'
  <2>1. \A v \in ST!selected : subscriptions[v].last_emitted <= clock
    BY Numbers DEF Emissions
  <2>2. clock - clock <= MaxBlocking
    BY Numbers
  <2> QED
    BY <1>1, <2>1, <2>2 DEF Timely, LastTells, NoOtherGhost, Emissions, ST!selected
<1>5. NoneStarved'
  <2>0. \A v \in Uid : published[v] <= clock
    BY DEF Timely
  <2> SUFFICES ASSUME NEW u \in ST!selected', field'[u] = "alive" PROVE Due(u)'
    BY <1>1, <2>0 DEF NoneStarved
  <2>1. u \in Uid /\ Due(u)
    BY <1>1 DEF ST!selected, TypeOK, NoneStarved
  <2>2. ~Waiting(u) /\ ~Waiting(u)'
    BY <1>1, <1>2, <2>1, DomainOf DEF Waiting
  <2>3. /\ clock \in Nat /\ now \in Nat /\ clock - now <= MaxBlocking /\ fresh[u] \in Nat
        /\ {MaxSeparation, PublishPeriod, MaxBlocking} \subseteq Nat
    BY <1>1, <2>1, Numbers DEF Timely
  <2>4. cache[u] # <<>> => clock < fresh[u] + MaxSeparation + PublishPeriod + MaxBlocking
    BY <1>1, <2>1, <2>2, <2>3 DEF Due
  <2> QED
    BY <1>1, <2>1, <2>2, <2>4 DEF Due
<1> QED
  BY <1>3, <1>4, <1>5

(* What every step of the batch does to the queues: the samples that are    *)
(* left, and which kind they are.                                           *)
LEMMA Handled ==
  ASSUME IInv, NEW u \in Uid, batch[u] # <<>>, SampleDone(u)
  PROVE  /\ UNCHANGED <<clock, field, published, cache, separation_in_force, handling, now>>
         /\ handling /\ batch' \in [Uid -> Seq(Taken)]
         /\ \A v \in Uid : Queue(cache'[v]) /\ Queue(batch'[v])
         /\ \A v \in Uid \ {u} : batch'[v] = batch[v]
         /\ \A i \in 1 .. Len(batch'[u]) : \E j \in DOMAIN batch[u] : batch'[u][i] = batch[u][j]
         /\ ~IsValue(Head(batch[u])) => (Waiting(u)' <=> Waiting(u))
         /\ IsValue(Head(batch[u])) =>
              /\ (\E i \in 1 .. Len(batch[u]) : ~IsValue(batch[u][i]))
                   => \E i \in 1 .. Len(batch'[u]) : ~IsValue(batch'[u][i])
              /\ cache[u] = <<>> /\ field[u] # "alive"
                   => \E i \in 1 .. Len(batch'[u]) : ~IsValue(batch'[u][i])
         /\ LastTells'
<1> USE DEF IInv
<1>1. /\ batch' \in [Uid -> Seq(Taken)] /\ batch'[u] = Tail(batch[u]) /\ Queue(batch'[u])
      /\ \A v \in Uid \ {u} : batch'[v] = batch[v]
      /\ handling
      /\ UNCHANGED <<clock, field, published, cache, separation_in_force, handling, now>>
  BY DoneIsTail DEF SampleDone, external
<1>2. /\ batch[u] \in Seq(Taken) /\ batch'[u] \in Seq(Taken)
      /\ Len(batch[u]) \in Nat /\ DOMAIN batch[u] = 1 .. Len(batch[u])
      /\ Len(batch'[u]) \in Nat /\ DOMAIN batch'[u] = 1 .. Len(batch'[u])
      /\ Head(batch[u]) = batch[u][1] /\ 1 \in DOMAIN batch[u]
      /\ batch'[u] = <<>> <=> Len(batch'[u]) = 0
  <2>1. batch[u] \in Seq(Taken) /\ batch'[u] \in Seq(Taken)
    BY <1>1 DEF TypeOK
  <2> QED
    BY <2>1, DomainOf
<1>3. /\ Len(batch'[u]) = Len(batch[u]) - 1
      /\ \A i \in DOMAIN batch'[u] : i + 1 \in DOMAIN batch[u] /\ batch'[u][i] = batch[u][i + 1]
      /\ \A i \in DOMAIN batch[u] : i # 1 => i - 1 \in DOMAIN batch'[u] /\ batch'[u][i - 1] = batch[u][i]
      /\ batch'[u] # <<>> => batch'[u][Len(batch'[u])] = batch[u][Len(batch[u])]
      /\ batch'[u] = <<>> => Head(batch[u]) = batch[u][Len(batch[u])] /\ Len(batch[u]) = 1
  BY <1>1, <1>2, TailOf
<1>4. \A v \in Uid : Queue(cache'[v]) /\ Queue(batch'[v])
  BY <1>1, Queues
<1>5. ~IsValue(Head(batch[u])) => (Waiting(u)' <=> Waiting(u))
  BY <1>2, <1>3 DEF Waiting
<1>6. \A i \in 1 .. Len(batch'[u]) : \E j \in DOMAIN batch[u] : batch'[u][i] = batch[u][j]
  BY <1>2, <1>3
<1>7. IsValue(Head(batch[u])) /\ (\E i \in 1 .. Len(batch[u]) : ~IsValue(batch[u][i]))
        => \E i \in 1 .. Len(batch'[u]) : ~IsValue(batch'[u][i])
  BY <1>2, <1>3
<1>8. ASSUME IsValue(Head(batch[u])), cache[u] = <<>>, field[u] # "alive"
      PROVE  \E i \in 1 .. Len(batch'[u]) : ~IsValue(batch'[u][i])
  <2>1. ~IsValue(batch[u][Len(batch[u])])
    BY <1>8 DEF LastTells, Last
  <2>2. batch'[u] # <<>>
    BY <1>3, <1>8, <2>1
  <2>3. Len(batch'[u]) \in 1 .. Len(batch'[u])
    BY <1>2, <2>2
  <2> QED
    BY <1>3, <2>1, <2>2, <2>3
<1>9. LastTells'
  <2> SUFFICES ASSUME NEW v \in Uid, cache'[v] = <<>>, batch'[v] # <<>>
               PROVE  IsValue(Last(batch'[v])) <=> field'[v] = "alive"
    BY <1>1 DEF LastTells
  <2>1. CASE v # u
    BY <1>1, <2>1 DEF LastTells
  <2>2. CASE v = u
    BY <1>1, <1>3, <2>2 DEF LastTells, Last
  <2> QED
    BY <2>1, <2>2
<1> QED
  BY <1>1, <1>4, <1>5, <1>6, <1>7, <1>8, <1>9

(* Writing a value, or losing the write, makes the tag as fresh as can be.  *)
LEMMA ForwardStep == ASSUME IInv, NEW u \in Uid, Forward(u) PROVE IInv'
<1> USE DEF IInv
<1>1. /\ batch[u] # <<>> /\ IsValue(Head(batch[u])) /\ SampleDone(u)
      /\ u \in ST!selected
      /\ subscriptions' = [subscriptions EXCEPT ![u] = ST!Emitted(now)]
      /\ fresh' = [fresh EXCEPT ![u] = clock]
      /\ \/ /\ out' = [out EXCEPT ![u] = "alive"]
            /\ written' = [written EXCEPT ![u] = clock]
            /\ writes' = [writes EXCEPT ![u] = 1 - @]
            /\ ghosts' = ghosts \ {u}
         \/ UNCHANGED <<out, written, writes, ghosts>>
  BY DEF Forward, Take, IsValue, ST!should_forward, ST!contains
<1>2. /\ UNCHANGED <<clock, field, published, cache, separation_in_force, handling, now>>
      /\ handling /\ batch' \in [Uid -> Seq(Taken)]
      /\ \A v \in Uid : Queue(cache'[v]) /\ Queue(batch'[v])
      /\ \A v \in Uid \ {u} : batch'[v] = batch[v]
      /\ (\E i \in 1 .. Len(batch[u]) : ~IsValue(batch[u][i]))
           => \E i \in 1 .. Len(batch'[u]) : ~IsValue(batch'[u][i])
      /\ cache[u] = <<>> /\ field[u] # "alive"
           => \E i \in 1 .. Len(batch'[u]) : ~IsValue(batch'[u][i])
      /\ LastTells'
  BY <1>1, Handled
<1>3. /\ clock \in Nat /\ now \in Nat /\ now <= clock /\ clock <= now + MaxBlocking
      /\ \A v \in Uid : published[v] \in Nat /\ fresh[v] \in Nat /\ written[v] \in Int
      /\ \A v \in ST!selected : subscriptions[v].last_emitted \in Nat
      /\ {MaxSeparation, PublishPeriod, MaxBlocking, MaxTime} \subseteq Nat /\ MaxSeparation > 0
  BY <1>2, Numbers DEF Timely
<1>4. /\ ST!selected' = ST!selected /\ ST!selected \subseteq Uid
      /\ subscriptions'[u] = [has_emitted |-> TRUE, last_emitted |-> now]
      /\ \A v \in ST!selected \ {u} : subscriptions'[v] = subscriptions[v]
      /\ fresh'[u] = clock /\ \A v \in Uid \ {u} : fresh'[v] = fresh[v]
      /\ written'[u] \in {clock, written[u]} /\ \A v \in Uid \ {u} : written'[v] = written[v]
  BY <1>1 DEF ST!selected, ST!Emitted, TypeOK
<1>5. TypeOK'
  <2>1. subscriptions'[u] \in ST!TagState
    BY <1>3, <1>4 DEF ST!TagState
  <2>2. \A v \in ST!selected : subscriptions'[v] \in ST!TagState
    BY <1>4, <2>1 DEF TypeOK
  <2>3. /\ out' \in [Uid -> {"none", "alive", "disposed", "unregistered"}]
        /\ ghosts' \subseteq Uid
    BY <1>1 DEF TypeOK
  <2>4. /\ fresh' \in [Uid -> 0 .. MaxTime]
        /\ written' \in [Uid -> {Never} \cup 0 .. MaxTime] /\ writes' \in [Uid -> {0, 1}]
    <3>1. /\ clock \in 0 .. MaxTime /\ fresh \in [Uid -> 0 .. MaxTime]
          /\ written \in [Uid -> {Never} \cup 0 .. MaxTime] /\ writes \in [Uid -> {0, 1}]
      BY DEF TypeOK
    <3>2. 1 - writes[u] \in {0, 1}
      BY <3>1
    <3>3. writes' \in [Uid -> {0, 1}]
      BY <1>1, <3>1, <3>2
    <3> QED
      BY <1>1, <3>1, <3>3
  <2>5. cache' \in [Uid -> Seq(Sample)] /\ handling' = TRUE
    BY <1>2 DEF TypeOK
  <2> QED
    BY <1>2, <1>4, <2>2, <2>3, <2>4, <2>5 DEF TypeOK, Queue
<1>6. Timely'
  <2>1. \A v \in Uid : written'[v] <= clock /\ fresh'[v] <= clock
    BY <1>3, <1>4 DEF Timely
  <2> QED
    BY <1>2, <1>3, <2>1 DEF Timely
<1>7. Emissions'
  <2>1. \A v \in ST!selected : subscriptions'[v].last_emitted <= now
    BY <1>3, <1>4 DEF Emissions
  <2>2. \A v \in ST!selected :
          subscriptions'[v].has_emitted => subscriptions'[v].last_emitted <= fresh'[v]
    BY <1>3, <1>4 DEF Emissions
  <2>3. ASSUME NEW v \in Uid, written'[v] # Never
        PROVE  /\ v \in ST!selected /\ subscriptions'[v].has_emitted
               /\ written'[v] <= subscriptions'[v].last_emitted + MaxBlocking
    <3>1. CASE v = u
      <4>1. written'[u] <= clock
        BY <1>3, <1>4 DEF Timely
      <4> QED
        BY <1>1, <1>3, <1>4, <3>1, <4>1
    <3>2. CASE v # u
      BY <1>4, <2>3, <3>2 DEF Emissions
    <3> QED
      BY <3>1, <3>2
  <2> QED
    BY <1>2, <1>4, <2>1, <2>2, <2>3 DEF Emissions
<1>8. NoneStarved'
  <2>1. \A v \in Uid : published[v] <= clock
    BY DEF Timely
  <2> SUFFICES ASSUME NEW v \in ST!selected, field[v] = "alive" PROVE Due(v)'
    BY <1>2, <1>4 DEF NoneStarved
  <2>2. CASE v = u
    <3>1. v \in Uid /\ fresh'[v] = clock /\ published[v] <= clock /\ published[v] \in Nat
      BY <1>3, <1>4, <2>1, <2>2
    <3> QED
      BY <1>2, <1>3, <3>1 DEF Due
  <2>3. CASE v # u
    BY <1>2, <1>4, <2>3 DEF NoneStarved, Due, Waiting
  <2> QED
    BY <2>2, <2>3
<1>9. NoOtherGhost'
  <2> SUFFICES ASSUME NEW v \in Uid, out'[v] = "alive"
               PROVE  \/ field[v] = "alive" \/ v \in ghosts'
                      \/ \E i \in 1 .. Len(cache[v]) : ~IsValue(cache[v][i])
                      \/ \E i \in 1 .. Len(batch'[v]) : ~IsValue(batch'[v][i])
    BY <1>2 DEF NoOtherGhost
  <2>1. CASE v # u
    <3>1. out'[v] = out[v] /\ (v \in ghosts => v \in ghosts')
      BY <1>1, <2>1 DEF TypeOK
    <3> QED
      BY <1>2, <2>1, <3>1 DEF NoOtherGhost
  <2>2. CASE v = u /\ cache[u] = <<>> /\ field[u] # "alive"
    BY <1>2, <2>2
  <2>3. CASE v = u /\ cache[u] # <<>> /\ field[u] # "alive"
    <3>1. ~IsValue(Last(cache[u]))
      BY <2>3 DEF LastTells
    <3>2. cache[u] \in Seq(Sample)
      BY DEF TypeOK
    <3>3. Len(cache[u]) \in 1 .. Len(cache[u])
      BY <2>3, <3>2, DomainOf
    <3> QED
      BY <2>3, <3>1, <3>3 DEF Last
  <2> QED
    BY <2>1, <2>2, <2>3
<1> QED
  BY <1>2, <1>5, <1>6, <1>7, <1>8, <1>9

(* A value that is too soon follows a write by less than a separation.      *)
LEMMA DecimateStep == ASSUME IInv, NEW u \in Uid, Decimate(u) PROVE IInv'
<1> USE DEF IInv
<1>1. /\ batch[u] # <<>> /\ IsValue(Head(batch[u])) /\ SampleDone(u)
      /\ u \in ST!selected => ST!TooSoon(u, now)
      /\ UNCHANGED <<subscriptions, out, written, writes, ghosts, fresh>>
  BY DEF Decimate, Take, IsValue, ST!should_forward, ST!contains, history
<1>2. /\ UNCHANGED <<clock, field, published, cache, separation_in_force, handling, now>>
      /\ handling /\ batch' \in [Uid -> Seq(Taken)]
      /\ \A v \in Uid : Queue(cache'[v]) /\ Queue(batch'[v])
      /\ \A v \in Uid \ {u} : batch'[v] = batch[v]
      /\ (\E i \in 1 .. Len(batch[u]) : ~IsValue(batch[u][i]))
           => \E i \in 1 .. Len(batch'[u]) : ~IsValue(batch'[u][i])
      /\ LastTells'
  BY <1>1, Handled
<1>3. TypeOK'
  BY <1>1, <1>2 DEF TypeOK, Queue, ST!selected
<1>4. Timely' /\ Emissions'
  BY <1>1, <1>2 DEF Timely, Emissions, ST!selected
<1>5. NoneStarved'
  <2> SUFFICES ASSUME NEW v \in ST!selected, field[v] = "alive" PROVE Due(v)'
    BY <1>1, <1>2 DEF NoneStarved, ST!selected
  <2>0. v \in Uid
    BY DEF TypeOK
  <2>1. CASE v # u
    BY <1>1, <1>2, <2>0, <2>1 DEF NoneStarved, Due, Waiting
  <2>2. CASE v = u
    <3>1. /\ now - subscriptions[v].last_emitted < separation_in_force
          /\ subscriptions[v].last_emitted <= fresh[v] /\ separation_in_force <= MaxSeparation
      BY <1>1, <2>2 DEF ST!TooSoon, Emissions
    <3>2. /\ subscriptions[v].last_emitted \in Nat /\ separation_in_force \in Nat
          /\ now \in Nat /\ fresh[v] \in Nat /\ published[v] \in Nat
          /\ {MaxSeparation, PublishPeriod, MaxBlocking} \subseteq Nat
      BY <2>0, Numbers
    <3>3. now < fresh[v] + MaxSeparation
      BY <3>1, <3>2
    <3>4. cache[v] = <<>> => published[v] <= now
      BY <2>0 DEF NoneStarved
    <3> QED
      BY <1>1, <1>2, <3>2, <3>3, <3>4 DEF Due
  <2> QED
    BY <2>1, <2>2
<1>6. NoOtherGhost'
  <2> SUFFICES ASSUME NEW v \in Uid, out[v] = "alive"
               PROVE  \/ field[v] = "alive" \/ v \in ghosts
                      \/ \E i \in 1 .. Len(cache[v]) : ~IsValue(cache[v][i])
                      \/ \E i \in 1 .. Len(batch'[v]) : ~IsValue(batch'[v][i])
    BY <1>1, <1>2 DEF NoOtherGhost
  <2> QED
    BY <1>2 DEF NoOtherGhost
<1> QED
  BY <1>2, <1>3, <1>4, <1>5, <1>6

(* An end leaves a value that waits behind it.                              *)
LEMMA EndHandledStep ==
  ASSUME IInv, NEW u \in Uid, ForwardEnd(u) \/ IgnoreEnd(u)
  PROVE  IInv'
<1> USE DEF IInv
<1>1. /\ batch[u] # <<>> /\ ~IsValue(Head(batch[u])) /\ SampleDone(u)
      /\ UNCHANGED <<subscriptions, written, writes, fresh>>
      /\ \/ /\ out'[u] # "alive" /\ \A v \in Uid \ {u} : out'[v] = out[v]
            /\ ghosts' = ghosts \ {u}
            /\ out' \in [Uid -> {"none", "alive", "disposed", "unregistered"}]
         \/ out' = out /\ ghosts' = ghosts \cup {u}
         \/ out' = out /\ out[u] # "alive" /\ ghosts' = ghosts
  BY DEF ForwardEnd, IgnoreEnd, Take, IsValue, Registered, TypeOK
<1>2. /\ UNCHANGED <<clock, field, published, cache, separation_in_force, handling, now>>
      /\ handling /\ batch' \in [Uid -> Seq(Taken)]
      /\ \A v \in Uid : Queue(cache'[v]) /\ Queue(batch'[v])
      /\ \A v \in Uid \ {u} : batch'[v] = batch[v]
      /\ Waiting(u)' <=> Waiting(u)
      /\ LastTells'
  BY <1>1, Handled
<1>3. TypeOK'
  <2>1. /\ out' \in [Uid -> {"none", "alive", "disposed", "unregistered"}]
        /\ ghosts' \subseteq Uid
    BY <1>1 DEF TypeOK
  <2> QED
    BY <1>1, <1>2, <2>1 DEF TypeOK, Queue, ST!selected
<1>4. Timely' /\ Emissions'
  BY <1>1, <1>2 DEF Timely, Emissions, ST!selected
<1>5. NoneStarved'
  <2> SUFFICES ASSUME NEW v \in ST!selected, field[v] = "alive" PROVE Due(v)'
    BY <1>1, <1>2 DEF NoneStarved, ST!selected
  <2>1. v \in Uid /\ (Waiting(v)' <=> Waiting(v))
    BY <1>2 DEF TypeOK, Waiting
  <2> QED
    BY <1>1, <1>2, <2>1 DEF NoneStarved, Due
<1>6. NoOtherGhost'
  <2> SUFFICES ASSUME NEW v \in Uid, out'[v] = "alive"
               PROVE  \/ field[v] = "alive" \/ v \in ghosts'
                      \/ \E i \in 1 .. Len(cache[v]) : ~IsValue(cache[v][i])
                      \/ \E i \in 1 .. Len(batch'[v]) : ~IsValue(batch'[v][i])
    BY <1>2 DEF NoOtherGhost
  <2>1. CASE v = u
    BY <1>1, <2>1
  <2>2. CASE v # u
    BY <1>1, <1>2, <2>2 DEF NoOtherGhost
  <2> QED
    BY <2>1, <2>2
<1> QED
  BY <1>2, <1>3, <1>4, <1>5, <1>6

----------------------------------------------------------------------------
(* The theorems. *)

(* The invariant is inductive.                                              *)
LEMMA NextKeepsInv == IInv /\ [Next]_vars => IInv'
<1> SUFFICES ASSUME IInv, [Next]_vars PROVE IInv'
  OBVIOUS
<1>1. CASE \E u \in Uid : Publish(u) \/ End(u, "disposed") \/ End(u, "no_writers")
  BY <1>1, PublishStep, EndStep
<1>2. CASE Tick
  BY <1>2, TickStep
<1>3. CASE \E u \in Uid : Add(u) \/ Delete(u)
  BY <1>3, AddStep, DeleteStep
<1>4. CASE \E p \in Period : SetPeriod(p)
  BY <1>4, PeriodStep
<1>5. CASE Process \/ ProcessReturns
  BY <1>5, ProcessStep, ProcessReturnsStep
<1>6. CASE \E u \in Uid : Forward(u) \/ Decimate(u) \/ ForwardEnd(u) \/ IgnoreEnd(u)
  BY <1>6, ForwardStep, DecimateStep, EndHandledStep
<1>7. CASE UNCHANGED vars
  BY <1>7 DEF vars, external, table, process, history, IInv, TypeOK, Timely, Emissions, LastTells,
              NoneStarved, Due, Waiting, NoOtherGhost, ST!selected, Nothing
<1> QED
  BY <1>1, <1>2, <1>3, <1>4, <1>5, <1>6, <1>7 DEF Next

(* In every reachable state the invariant holds: queues are short and end   *)
(* with the tag's present state, and every selected live tag is due.        *)
THEOREM Invariant == Spec => []IInv
  BY InitInv, NextKeepsInv, PTL DEF Spec

(* The data plane's state is well typed, and a reader or a batch holds at   *)
(* most one value and one end of a tag.                                     *)
THEOREM TypeCorrect == Spec => []TypeOK
<1>1. IInv => TypeOK
  BY DEF IInv
<1> QED
  BY <1>1, Invariant, PTL

(* No retraction is held back: the writer shows as alive only what is       *)
(* alive, about to be retracted, or known to have missed its retraction.    *)
THEOREM NoRetractionLost == Spec => []NoOtherGhost
<1>1. IInv => NoOtherGhost
  BY DEF IInv
<1> QED
  BY <1>1, Invariant, PTL

(* Decimation starves no tag, whatever separations, requests and blocked    *)
(* writes there are.                                                        *)
THEOREM EveryLiveTagIsWritten == Spec => []NotStarved
<1>1. ASSUME IInv, NEW u \in ST!selected, field[u] = "alive"
      PROVE  clock - fresh[u] < MaxSeparation + PublishPeriod + 3 * MaxBlocking
  <2>1. /\ u \in Uid /\ Due(u) /\ clock - published[u] <= PublishPeriod
        /\ clock - now <= MaxBlocking
    BY <1>1 DEF IInv, TypeOK, NoneStarved, Timely
  <2>2. /\ clock \in Nat /\ now \in Nat /\ fresh[u] \in Nat /\ published[u] \in Nat
        /\ {MaxSeparation, PublishPeriod, MaxBlocking} \subseteq Nat
    BY <1>1, <2>1, Numbers DEF IInv
  <2>3. CASE Waiting(u)
    <3>1. handling
      BY <1>1, <2>1, <2>3, Queues, EmptySeq DEF IInv, Waiting
    <3> QED
      BY <2>1, <2>2, <2>3, <3>1 DEF Due
  <2>4. CASE ~Waiting(u) /\ cache[u] = <<>>
    BY <2>1, <2>2, <2>4 DEF Due
  <2>5. CASE ~Waiting(u) /\ cache[u] # <<>>
    <3>1. /\ handling => now < fresh[u] + MaxSeparation + PublishPeriod
          /\ ~handling => now < fresh[u] + MaxSeparation + PublishPeriod + MaxBlocking
      BY <2>1, <2>5 DEF Due
    <3> QED
      BY <2>1, <2>2, <3>1
  <2> QED
    BY <2>3, <2>4, <2>5
<1>2. IInv => NotStarved
  BY <1>1 DEF NotStarved
<1> QED
  BY <1>2, Invariant, PTL

(* Two writes of a tag are a separation apart, less what the first one's    *)
(* batch was late: whatever happened between them except a DELETE.          *)
THEOREM DecimationHolds == Spec => WritesAreSeparated
<1> DEFINE Apart(u) ==
      writes'[u] # writes[u] /\ written[u] # Never
        => written'[u] - written[u] >= separation_in_force - MaxBlocking
<1>1. ASSUME IInv, Next, NEW u \in Uid PROVE Apart(u)
  <2> SUFFICES ASSUME writes'[u] # writes[u], written[u] # Never
               PROVE  written'[u] - written[u] >= separation_in_force - MaxBlocking
    OBVIOUS
  <2>1. PICK v \in Uid : Forward(v)
    BY <1>1 DEF Next, Publish, End, Tick, Add, Delete, SetPeriod, Process, ProcessReturns,
         Decimate, ForwardEnd, IgnoreEnd, history
  <2>2. writes \in [Uid -> {0, 1}] /\ written \in [Uid -> {Never} \cup 0 .. MaxTime]
    BY <1>1 DEF IInv, TypeOK
  <2>3. v = u /\ written'[u] = clock /\ ST!should_forward(u, now)
    BY <2>1, <2>2 DEF Forward
  <2>4. /\ u \in ST!selected /\ subscriptions[u].has_emitted
        /\ written[u] <= subscriptions[u].last_emitted + MaxBlocking /\ written[u] <= clock
    BY <1>1 DEF IInv, Emissions, Timely
  <2>5. \/ separation_in_force = 0
        \/ ~(now - subscriptions[u].last_emitted < separation_in_force)
    BY <2>3, <2>4 DEF ST!should_forward, ST!TooSoon
  <2>6. /\ clock \in Nat /\ now \in Nat /\ now <= clock /\ written[u] \in Int
        /\ subscriptions[u].last_emitted \in Nat /\ separation_in_force \in Nat
        /\ MaxBlocking \in Nat
    BY <1>1, <2>4, Numbers DEF IInv
  <2> QED
    BY <2>3, <2>4, <2>5, <2>6
<1>2. IInv /\ [Next]_vars => [\A u \in Uid : Apart(u)]_vars
  BY <1>1
<1> QED
  BY <1>2, Invariant, PTL DEF Spec, WritesAreSeparated
============================================================================
