------------------------- MODULE MetaDataPlane_proofs -------------------------
(***************************************************************************)
(* Proofs about MetaDataPlane: for any tags, descriptions and requests,    *)
(* and a reader that may keep a value beside an end, the catalogue ends up *)
(* with what the field last said.                                          *)
(***************************************************************************)
EXTENDS MetaDataPlane, SequenceFacts

Newest(samples) == samples[Len(samples)]

----------------------------------------------------------------------------
(* The reader's samples. *)

(* A new sample is the newest, and the other one, if there is any, is of    *)
(* the other kind.                                                          *)
LEMMA PushIsLast ==
  ASSUME TypeOK, NEW u \in Uid, NEW kind \in {"value", "end"}, NEW r \in 0 .. MaxRevision,
         Push(u, kind, r)
  PROVE  /\ cache' \in [Uid -> Seq(Sample)]
         /\ \A v \in Uid \ {u} : cache'[v] = cache[v]
         /\ cache'[u] # <<>> /\ Len(cache'[u]) <= 2
         /\ Newest(cache'[u]) = [kind |-> kind, revision |-> r, read |-> FALSE]
         /\ Len(cache'[u]) = 2 => IsValue(cache'[u][1]) # IsValue(cache'[u][2])
<1> DEFINE x == [kind |-> kind, revision |-> r, read |-> FALSE]
<1>1. PICK kept \in {<<>>} \cup {<<s>> : s \in {cache[u][i] : i \in DOMAIN cache[u]}} :
        /\ kept # <<>> => KeepsOther /\ kept[1].kind # kind
        /\ cache' = [cache EXCEPT ![u] = Append(kept, x)]
  BY DEF Push
<1>2. /\ x \in Sample /\ x.kind = kind
      /\ cache[u] \in Seq(Sample) /\ cache \in [Uid -> Seq(Sample)]
  BY DEF TypeOK, Sample
<1> HIDE DEF x
<1>3. /\ kept \in Seq(Sample) /\ Len(kept) \in {0, 1}
      /\ Len(kept) = 1 => kept[1] \in Sample /\ kept[1].kind # kind
  <2>1. CASE kept = <<>>
    BY <2>1
  <2>2. ASSUME NEW s \in {cache[u][i] : i \in DOMAIN cache[u]}, kept = <<s>>
        PROVE  <1>3!:
    <3>1. s \in Sample
      BY <1>2, ElementOf
    <3>2. kept \in Seq(Sample) /\ Len(kept) = 1 /\ kept[1] = s /\ kept # <<>>
      BY <2>2, <3>1
    <3> QED
      BY <1>1, <3>1, <3>2
  <2> QED
    BY <1>1, <2>1, <2>2
<1>4. cache'[u] = Append(kept, x)
  BY <1>1, <1>2
<1>5. /\ Append(kept, x) \in Seq(Sample) /\ Append(kept, x) # <<>>
      /\ Len(Append(kept, x)) = Len(kept) + 1
      /\ Append(kept, x)[Len(kept) + 1] = x
      /\ \A i \in DOMAIN kept : Append(kept, x)[i] = kept[i]
  BY <1>2, <1>3, AppendOf
<1>6. CASE Len(kept) = 0
  <2>1. Len(Append(kept, x)) = 1 /\ Append(kept, x)[1] = x
    BY <1>5, <1>6
  <2> QED
    BY <1>1, <1>2, <1>4, <1>5, <2>1 DEF Newest, x
<1>7. CASE Len(kept) = 1
  <2>1. 1 \in DOMAIN kept
    BY <1>3, <1>7, DomainOf
  <2>2. Len(Append(kept, x)) = 2 /\ Append(kept, x)[2] = x /\ Append(kept, x)[1] = kept[1]
    BY <1>5, <1>7, <2>1
  <2>3. IsValue(kept[1]) # IsValue(x)
    BY <1>2, <1>3, <1>7 DEF IsValue, Sample
  <2> QED
    BY <1>1, <1>2, <1>4, <1>5, <2>2, <2>3 DEF Newest, x
<1> QED
  BY <1>3, <1>6, <1>7

(* What is read is a part of the samples that ends with the newest, unless  *)
(* that has been read before.                                               *)
LEMMA UnreadOf ==
  ASSUME NEW q \in Seq(Sample), Len(q) <= 2,
         \A i \in DOMAIN q : Unread(q[i]) => Unread(Newest(q))
  PROVE  /\ UnreadAnyInstance(q) \in Seq(Sample) /\ Len(UnreadAnyInstance(q)) <= 2
         /\ UnreadAnyInstance(q) # <<>> <=> q # <<>> /\ Unread(Newest(q))
         /\ UnreadAnyInstance(q) # <<>> => Newest(UnreadAnyInstance(q)) = Newest(q)
<1> DEFINE unread == {i \in DOMAIN q : Unread(q[i])}
           first == CHOOSE i \in unread : \A j \in unread : i <= j
           n == Len(q)
<1>1. /\ n \in Nat /\ DOMAIN q = 1 .. n /\ (q = <<>> <=> n = 0)
      /\ q # <<>> => n \in DOMAIN q
  BY DomainOf
<1>2. CASE unread = {}
  <2>1. UnreadAnyInstance(q) = <<>>
    BY <1>2 DEF UnreadAnyInstance
  <2>2. ~(q # <<>> /\ Unread(Newest(q)))
    BY <1>1, <1>2 DEF Newest
  <2> QED
    BY <2>1, <2>2, EmptySeq
<1>3. CASE unread # {}
  <2>1. first \in unread
    <3>1. \E i \in unread : \A j \in unread : i <= j
      <4>1. unread \subseteq Nat
        BY <1>1
      <4> HIDE DEF unread
      <4> QED
        BY <1>3, <4>1, LeastOf
    <3> QED
      BY <3>1
  <2>2. UnreadAnyInstance(q) = SubSeq(q, first, n)
    BY <1>3 DEF UnreadAnyInstance
  <2> HIDE DEF first
  <2>3. first \in 1 .. n /\ Unread(Newest(q)) /\ q # <<>>
    BY <1>1, <2>1
  <2>4. first \in 1 .. n + 1 /\ n \in first - 1 .. n /\ first <= n
    BY <1>1, <2>3
  <2>5. /\ SubSeq(q, first, n) \in Seq(Sample)
        /\ Len(SubSeq(q, first, n)) = IF first <= n THEN n - first + 1 ELSE 0
        /\ \A i \in 1 .. n - first + 1 : SubSeq(q, first, n)[i] = q[first + i - 1]
    BY <2>4, SubSeqProperties
  <2>6. /\ n - first + 1 \in 1 .. n - first + 1 /\ first + (n - first + 1) - 1 = n
        /\ n - first + 1 <= n /\ n - first + 1 # 0
    BY <1>1, <2>3
  <2>7. Len(SubSeq(q, first, n)) = n - first + 1 /\ SubSeq(q, first, n)[n - first + 1] = q[n]
    BY <2>4, <2>5, <2>6
  <2>8. SubSeq(q, first, n) # <<>>
    BY <2>6, <2>7, EmptySeq
  <2>9. Len(SubSeq(q, first, n)) <= 2
    BY <1>1, <2>3, <2>7
  <2> QED
    BY <2>2, <2>3, <2>5, <2>7, <2>8, <2>9 DEF Newest
<1> QED
  BY <1>2, <1>3

(* Samples stay what they are when they are read.                           *)
LEMMA ReadOf ==
  ASSUME NEW q \in Seq(Sample)
  PROVE  /\ AllRead(q) \in Seq(Sample) /\ Len(AllRead(q)) = Len(q)
         /\ AllRead(q) = <<>> <=> q = <<>>
         /\ \A i \in DOMAIN q : /\ AllRead(q)[i].kind = q[i].kind
                                /\ AllRead(q)[i].revision = q[i].revision
                                /\ ~Unread(AllRead(q)[i])
<1>1. Len(q) \in Nat /\ DOMAIN q = 1 .. Len(q)
  BY DomainOf
<1>2. \A i \in DOMAIN q : q[i] \in Sample
  BY ElementOf
<1>3. \A i \in DOMAIN q : /\ AllRead(q)[i] = [q[i] EXCEPT !.read = TRUE]
                          /\ AllRead(q)[i] \in Sample
                          /\ AllRead(q)[i].kind = q[i].kind
                          /\ AllRead(q)[i].revision = q[i].revision
                          /\ ~Unread(AllRead(q)[i])
  BY <1>2 DEF AllRead, Sample, Unread
<1>4. AllRead(q) \in [1 .. Len(q) -> Sample]
  BY <1>1, <1>3 DEF AllRead
<1>5. AllRead(q) \in Seq(Sample) /\ Len(AllRead(q)) = Len(q)
  BY <1>1, <1>4
<1>6. AllRead(q) = <<>> <=> q = <<>>
  BY <1>5, EmptySeq
<1> QED
  BY <1>3, <1>5, <1>6

----------------------------------------------------------------------------
(* The inductive invariant.  The newest sample tells the state of its tag;   *)
(* once it has been read, the end of the batch does; and once that has been *)
(* handled, so does the writer.                                             *)

(* Whether sample s is right of a tag the field has in state f at r.        *)
Tells(s, f, r) ==
  /\ IsValue(s) => f = "alive" /\ s.revision = r
  /\ ~IsValue(s) => f \in {"disposed", "no_writers"}

(* Reading takes all there is of a tag, so if any is unread the newest is.  *)
ReaderTrue(u) ==
  /\ Len(cache[u]) = 2 => IsValue(cache[u][1]) # IsValue(cache[u][2])
  /\ cache[u] = <<>> => field[u] = "absent"
  /\ cache[u] # <<>> => Tells(Newest(cache[u]), field[u], revision[u])
  /\ \A i \in DOMAIN cache[u] : Unread(cache[u][i]) => Unread(Newest(cache[u]))

Waits(u) == cache[u] # <<>> /\ Unread(Newest(cache[u]))

BatchTrue(u) == batch[u] # <<>> /\ ~Waits(u) => Tells(Newest(batch[u]), field[u], revision[u])

Follows(u) ==
  \/ batch[u] # <<>> \/ Waits(u) \/ u \in missed \cup swallowed
  \/ field[u] = "absent" /\ out[u] = "none"
  \/ field[u] = "alive" /\ out[u] = "alive" /\ shown[u] = revision[u]
  \/ Ended(u) /\ out[u] # "alive"

IInv == TypeOK /\ \A u \in Uid : ReaderTrue(u) /\ BatchTrue(u) /\ Follows(u)

(* It says what the property says.                                          *)
LEMMA InvImplies == IInv => TypeOK /\ CatalogueFollows
<1> SUFFICES ASSUME IInv, NEW u \in Uid
             PROVE  \/ Pending(u) \/ u \in missed \cup swallowed
                    \/ field[u] = "absent" /\ out[u] = "none"
                    \/ field[u] = "alive" /\ out[u] = "alive" /\ shown[u] = revision[u]
                    \/ Ended(u) /\ out[u] # "alive"
  BY DEF IInv, CatalogueFollows
<1>1. UnreadAnyInstance(cache[u]) # <<>> <=> Waits(u)
  BY UnreadOf DEF IInv, TypeOK, ReaderTrue, Waits
<1> QED
  BY <1>1 DEF IInv, Follows, Pending

(* Nothing has been said of any tag.                                        *)
LEMMA InitInv == Init => IInv
<1> SUFFICES ASSUME Init PROVE IInv
  OBVIOUS
<1>1. <<>> \in Seq(Sample) /\ <<>> \in Seq(Taken) /\ <<>> \in Seq(Uid) /\ Len(<<>>) = 0
      /\ DOMAIN <<>> = {}
  BY EmptySeq
<1>2. 0 \in 0 .. MaxRevision
  BY MetaDataAssumption
<1>3. TypeOK
  BY <1>1, <1>2 DEF Init, TypeOK, Nothing
<1>4. \A u \in Uid : cache[u] = <<>> /\ batch[u] = <<>> /\ field[u] = "absent" /\ out[u] = "none"
  BY DEF Init, Nothing
<1> QED
  BY <1>1, <1>3, <1>4 DEF IInv, ReaderTrue, BatchTrue, Follows

(* A tag that no step touches.                                              *)
LEMMA LeftAlone ==
  ASSUME NEW v \in Uid, ReaderTrue(v), BatchTrue(v), Follows(v),
         cache'[v] = cache[v], batch'[v] = batch[v], field'[v] = field[v],
         revision'[v] = revision[v], out'[v] = out[v], shown'[v] = shown[v],
         v \in missed' <=> v \in missed, v \in swallowed' <=> v \in swallowed
  PROVE  ReaderTrue(v)' /\ BatchTrue(v)' /\ Follows(v)'
BY DEF ReaderTrue, BatchTrue, Follows, Waits, Tells, Ended

(* The field describes a tag or ends it: that is now the newest sample.     *)
LEMMA FieldStep ==
  ASSUME IInv, NEW u \in Uid, Describe(u) \/ End(u, "disposed") \/ End(u, "no_writers")
  PROVE  IInv'
<1> USE DEF IInv
<1> DEFINE Said(kind, r) ==
             /\ Push(u, kind, r)
             /\ field' \in [Uid -> {"absent", "alive", "disposed", "no_writers"}]
             /\ revision' \in [Uid -> 0 .. MaxRevision] /\ r = revision'[u]
             /\ kind = "value" => field'[u] = "alive"
             /\ kind = "end" => field'[u] \in {"disposed", "no_writers"}
             /\ \A v \in Uid \ {u} : field'[v] = field[v] /\ revision'[v] = revision[v]
             /\ UNCHANGED <<requests, batch, writer, history>>
<1>1. PICK kind \in {"value", "end"}, r \in 0 .. MaxRevision : Said(kind, r)
  <2>1. CASE Describe(u)
    <3>1. PICK r \in 0 .. MaxRevision : r = revision[u] + 1
      BY <2>1, MetaDataAssumption DEF Describe, TypeOK
    <3>2. /\ revision' = [revision EXCEPT ![u] = r] /\ field' = [field EXCEPT ![u] = "alive"]
          /\ revision'[u] = r /\ UNCHANGED <<requests, batch, writer, history>>
      BY <2>1, <3>1 DEF Describe, TypeOK
    <3>3. Push(u, "value", r)
      BY <2>1, <3>2 DEF Describe, Push
    <3>4. Said("value", r)
      BY <3>2, <3>3 DEF TypeOK
    <3> QED
      BY <3>4
  <2>2. ASSUME NEW how \in {"disposed", "no_writers"}, End(u, how)
        PROVE  Said("end", revision[u]) /\ revision[u] \in 0 .. MaxRevision
    BY <2>2 DEF End, TypeOK
  <2> QED
    BY <2>1, <2>2
<1>2. UNCHANGED <<requests, batch, out, shown, missed, swallowed>>
  BY <1>1 DEF writer, history
<1>3. /\ cache' \in [Uid -> Seq(Sample)]
      /\ \A v \in Uid \ {u} : cache'[v] = cache[v]
      /\ cache'[u] # <<>> /\ Len(cache'[u]) <= 2
      /\ Newest(cache'[u]) = [kind |-> kind, revision |-> r, read |-> FALSE]
      /\ Len(cache'[u]) = 2 => IsValue(cache'[u][1]) # IsValue(cache'[u][2])
  BY <1>1, PushIsLast
<1>4. TypeOK'
  BY <1>1, <1>2, <1>3 DEF TypeOK
<1>5. ASSUME NEW v \in Uid, v # u PROVE ReaderTrue(v)' /\ BatchTrue(v)' /\ Follows(v)'
  <2>1. /\ cache'[v] = cache[v] /\ batch'[v] = batch[v] /\ field'[v] = field[v]
        /\ revision'[v] = revision[v] /\ out'[v] = out[v] /\ shown'[v] = shown[v]
        /\ missed' = missed /\ swallowed' = swallowed
    BY <1>1, <1>2, <1>3, <1>5
  <2> QED
    BY <2>1, LeftAlone
<1>6. ReaderTrue(u)' /\ BatchTrue(u)' /\ Follows(u)'
  <2> DEFINE x == Newest(cache'[u])
  <2>1. x.kind = kind /\ x.revision = r /\ x.read = FALSE
    BY <1>3
  <2> HIDE DEF x
  <2>2. Unread(x) /\ (IsValue(x) <=> kind = "value")
    BY <2>1 DEF Unread, IsValue
  <2>3. Tells(x, field'[u], revision'[u])
    BY <1>1, <2>1, <2>2 DEF Tells
  <2>4. Waits(u)'
    BY <1>3, <2>2 DEF Waits, x
  <2>5. ReaderTrue(u)'
    BY <1>3, <2>2, <2>3 DEF ReaderTrue, x
  <2> QED
    BY <2>4, <2>5 DEF BatchTrue, Follows
<1> QED
  BY <1>4, <1>5, <1>6

(* A batch is read: what told the state of a tag in the reader now does in  *)
(* the batch.                                                               *)
LEMMA ProcessStep == ASSUME IInv, Process PROVE IInv'
<1> USE DEF IInv
<1>1. /\ batch = Nothing
      /\ batch' = [u \in Uid |->
                    [i \in DOMAIN UnreadAnyInstance(cache[u]) |->
                      As(UnreadAnyInstance(cache[u])[i], field[u])]]
      /\ cache' = [u \in Uid |-> AllRead(cache[u])]
      /\ UNCHANGED <<field, revision, requests, out, shown, missed, swallowed>>
  BY DEF Process, plant, writer, history
<1>2. ASSUME NEW u \in Uid
      PROVE  /\ cache'[u] \in Seq(Sample) /\ Len(cache'[u]) <= 2
             /\ batch'[u] \in Seq(Taken) /\ Len(batch'[u]) <= 2
             /\ ReaderTrue(u)' /\ BatchTrue(u)' /\ Follows(u)'
  <2> DEFINE t == UnreadAnyInstance(cache[u])
  <2>0. /\ cache[u] \in Seq(Sample) /\ Len(cache[u]) <= 2 /\ ReaderTrue(u) /\ Follows(u)
        /\ batch[u] = <<>>
    BY <1>1 DEF TypeOK, Nothing
  <2>1. /\ t \in Seq(Sample) /\ Len(t) <= 2
        /\ t # <<>> <=> Waits(u)
        /\ t # <<>> => Newest(t) = Newest(cache[u])
    BY <2>0, UnreadOf DEF ReaderTrue, Waits
  <2> HIDE DEF t
  <2>2. /\ Len(t) \in Nat /\ DOMAIN t = 1 .. Len(t)
        /\ t = <<>> <=> Len(t) = 0
        /\ t # <<>> => Len(t) \in DOMAIN t
    BY <2>1, DomainOf
  <2>3. \A i \in DOMAIN t : t[i] \in Sample
    BY <2>1, ElementOf
  <2>4. \A s \in Sample : As(s, field[u]) \in Taken
    BY DEF As, Sample, Taken
  <2>5. /\ batch'[u] \in Seq(Taken) /\ Len(batch'[u]) = Len(t)
        /\ \A i \in DOMAIN t : batch'[u][i] = As(t[i], field[u])
    <3>1. batch'[u] = [i \in DOMAIN t |-> As(t[i], field[u])]
      BY <1>1 DEF t
    <3>2. batch'[u] \in [1 .. Len(t) -> Taken]
      BY <2>2, <2>3, <2>4, <3>1
    <3> QED
      BY <2>2, <3>1, <3>2
  <2>6. batch'[u] # <<>> <=> Waits(u)
    BY <2>1, <2>2, <2>5, EmptySeq
  <2>7. /\ cache'[u] = AllRead(cache[u])
        /\ cache'[u] \in Seq(Sample) /\ Len(cache'[u]) = Len(cache[u])
        /\ cache'[u] = <<>> <=> cache[u] = <<>>
        /\ \A i \in DOMAIN cache[u] : /\ cache'[u][i].kind = cache[u][i].kind
                                      /\ cache'[u][i].revision = cache[u][i].revision
                                      /\ ~Unread(cache'[u][i])
    BY <1>1, <2>0, ReadOf
  <2>8. /\ Len(cache[u]) \in Nat /\ DOMAIN cache[u] = 1 .. Len(cache[u])
        /\ cache[u] # <<>> => Len(cache[u]) \in DOMAIN cache[u]
        /\ DOMAIN cache'[u] = DOMAIN cache[u]
        /\ Len(cache[u]) = 2 => 1 \in DOMAIN cache[u] /\ 2 \in DOMAIN cache[u]
    BY <2>0, <2>7, DomainOf
  <2>9. \A a, b, f, r : a.kind = b.kind /\ a.revision = b.revision /\ Tells(a, f, r) => Tells(b, f, r)
    BY DEF Tells, IsValue
  <2>10. ReaderTrue(u)' /\ ~Waits(u)'
    <3>1. cache[u] # <<>> => /\ Tells(cache'[u][Len(cache[u])], field[u], revision[u])
                             /\ ~Unread(cache'[u][Len(cache[u])])
      BY <2>0, <2>7, <2>8, <2>9 DEF ReaderTrue, Newest
    <3>2. Len(cache[u]) = 2 => IsValue(cache'[u][1]) # IsValue(cache'[u][2])
      BY <2>0, <2>7, <2>8 DEF ReaderTrue, IsValue
    <3> QED
      BY <1>1, <2>0, <2>7, <2>8, <3>1, <3>2 DEF ReaderTrue, Waits, Newest
  <2>11. ASSUME Waits(u) PROVE Tells(Newest(batch'[u]), field[u], revision[u])
    <3> DEFINE s == Newest(cache[u])
    <3>1. Newest(batch'[u]) = As(s, field[u])
      BY <2>1, <2>2, <2>5, <2>11 DEF Newest
    <3>2. Tells(s, field[u], revision[u])
      BY <2>0, <2>11 DEF ReaderTrue, Waits
    <3> HIDE DEF s
    <3>3. Tells(As(s, field[u]), field[u], revision[u])
      BY <3>2 DEF Tells, As, IsValue
    <3> QED
      BY <3>1, <3>3
  <2>12. BatchTrue(u)' /\ Follows(u)'
    BY <1>1, <2>0, <2>6, <2>10, <2>11 DEF BatchTrue, Follows, Ended
  <2> QED
    BY <2>0, <2>1, <2>5, <2>7, <2>10, <2>12
<1>3. TypeOK'
  <2>1. cache' \in [Uid -> Seq(Sample)]
    BY <1>1, <1>2
  <2>2. batch' \in [Uid -> Seq(Taken)]
    BY <1>1, <1>2
  <2> QED
    BY <1>1, <1>2, <2>1, <2>2 DEF TypeOK
<1> QED
  BY <1>2, <1>3

(* A sample is handled.  If it was the last of its tag, and nothing newer   *)
(* waits, the writer has the state it tells, or the write timed out.        *)
LEMMA HandleStep == ASSUME IInv, NEW u \in Uid, Handle(u) PROVE IInv'
<1> USE DEF IInv
<1> DEFINE s == Head(batch[u])
<1>1. /\ batch[u] # <<>> /\ batch' = [batch EXCEPT ![u] = Tail(@)]
      /\ IF IsValue(s) THEN Write(u, s.revision) ELSE Retract(u, s.kind)
      /\ swallowed' = swallowed \ {u}
      /\ UNCHANGED <<field, revision, cache, requests>>
  BY DEF Handle, plant
<1>2. /\ batch[u] \in Seq(Taken) /\ Tail(batch[u]) \in Seq(Taken) /\ s \in Taken
      /\ Len(Tail(batch[u])) <= 2
      /\ Tail(batch[u]) # <<>> => Newest(Tail(batch[u])) = Newest(batch[u])
      /\ Tail(batch[u]) = <<>> => s = Newest(batch[u])
  <2>1. batch[u] \in Seq(Taken) /\ Len(batch[u]) <= 2
    BY DEF TypeOK
  <2>2. /\ Tail(batch[u]) \in Seq(Taken) /\ Len(Tail(batch[u])) = Len(batch[u]) - 1
        /\ Tail(batch[u]) # <<>> => Tail(batch[u])[Len(Tail(batch[u]))] = batch[u][Len(batch[u])]
        /\ Tail(batch[u]) = <<>> => Head(batch[u]) = batch[u][Len(batch[u])]
    BY <1>1, <2>1, TailOf
  <2>3. s \in Taken
    BY <1>1, <2>1, HeadTailProperties
  <2>4. Len(Tail(batch[u])) <= 2
    BY <2>1, <2>2, DomainOf
  <2> QED
    BY <2>1, <2>2, <2>3, <2>4 DEF Newest
<1>3. /\ batch' \in [Uid -> Seq(Taken)] /\ batch'[u] = Tail(batch[u])
      /\ \A v \in Uid \ {u} : batch'[v] = batch[v]
  BY <1>1, <1>2 DEF TypeOK
<1> HIDE DEF s
<1>4. /\ out' \in [Uid -> {"none", "alive", "disposed", "unregistered"}]
      /\ shown' \in [Uid -> 0 .. MaxRevision] /\ missed' \subseteq Uid
      /\ \A v \in Uid \ {u} : /\ out'[v] = out[v] /\ shown'[v] = shown[v]
                              /\ v \in missed' <=> v \in missed
      /\ \/ u \in missed'
         \/ IF IsValue(s) THEN out'[u] = "alive" /\ shown'[u] = s.revision ELSE out'[u] # "alive"
  <2>0. /\ out \in [Uid -> {"none", "alive", "disposed", "unregistered"}]
        /\ shown \in [Uid -> 0 .. MaxRevision] /\ missed \subseteq Uid
        /\ s.revision \in 0 .. MaxRevision
    BY <1>2 DEF TypeOK, Taken
  <2>1. CASE IsValue(s)
    <3>1. Write(u, s.revision)
      BY <1>1, <2>1
    <3> QED
      BY <2>0, <2>1, <3>1 DEF Write, writer
  <2>2. CASE ~IsValue(s)
    <3>1. Retract(u, s.kind)
      BY <1>1, <2>2
    <3> QED
      BY <2>0, <2>2, <3>1 DEF Retract, Registered, writer
  <2> QED
    BY <2>1, <2>2
<1>5. TypeOK'
  BY <1>1, <1>2, <1>3, <1>4 DEF TypeOK
<1>6. ASSUME NEW v \in Uid, v # u PROVE ReaderTrue(v)' /\ BatchTrue(v)' /\ Follows(v)'
  <2>1. /\ cache'[v] = cache[v] /\ batch'[v] = batch[v] /\ field'[v] = field[v]
        /\ revision'[v] = revision[v] /\ out'[v] = out[v] /\ shown'[v] = shown[v]
        /\ v \in missed' <=> v \in missed
        /\ v \in swallowed' <=> v \in swallowed
    BY <1>1, <1>3, <1>4, <1>6
  <2> QED
    BY <2>1, LeftAlone
<1>7. ReaderTrue(u)' /\ BatchTrue(u)' /\ Follows(u)'
  <2>1. ReaderTrue(u)' /\ (Waits(u)' <=> Waits(u))
    BY <1>1 DEF ReaderTrue, Waits
  <2>2. CASE Waits(u)
    BY <2>1, <2>2 DEF BatchTrue, Follows
  <2>3. CASE ~Waits(u) /\ Tail(batch[u]) # <<>>
    <3>1. /\ Newest(batch'[u]) = Newest(batch[u]) /\ batch'[u] # <<>>
          /\ Tells(Newest(batch[u]), field[u], revision[u])
      BY <1>1, <1>2, <1>3, <2>3 DEF BatchTrue
    <3>2. BatchTrue(u)'
      BY <1>1, <3>1 DEF BatchTrue
    <3> QED
      BY <2>1, <3>1, <3>2 DEF Follows
  <2>4. CASE ~Waits(u) /\ Tail(batch[u]) = <<>>
    <3>1. Tells(s, field[u], revision[u]) /\ batch'[u] = <<>>
      BY <1>1, <1>2, <1>3, <2>4 DEF BatchTrue
    <3> QED
      BY <1>1, <1>4, <2>1, <3>1 DEF BatchTrue, Follows, Tells, Ended
  <2> QED
    BY <2>2, <2>3, <2>4
<1> QED
  BY <1>5, <1>6, <1>7

(* A METADATA request is handled.  Of a tag that lives it writes the latest *)
(* description; of one that has ended it counts as having got in between,   *)
(* or finds nothing to do.                                                  *)
LEMMA RequestStep == ASSUME IInv, HandleRequest PROVE IInv'
<1> USE DEF IInv
<1>1. batch = Nothing /\ requests # <<>> /\ Head(requests) \in Uid /\ Tail(requests) \in Seq(Uid)
  <2>1. requests \in Seq(Uid) /\ requests # <<>> /\ batch = Nothing
    BY DEF HandleRequest, TypeOK
  <2> QED
    BY <2>1, HeadTailProperties
<1>2. PICK u \in Uid : u = Head(requests)
  BY <1>1
<1>3. /\ requests' \in Seq(Uid)
      /\ cache' = [cache EXCEPT ![u] = AllRead(@)]
      /\ IF ValuesOf(u) = {} THEN UNCHANGED <<out, shown, missed>>
         ELSE \E i \in ValuesOf(u) : Write(u, cache[u][i].revision)
      /\ swallowed' = IF Ended(u) /\ \E i \in DOMAIN cache[u] :
                                        IsValue(cache[u][i]) \/ Unread(cache[u][i])
                        THEN swallowed \cup {u} ELSE swallowed
      /\ UNCHANGED <<field, revision, batch>>
  BY <1>1, <1>2 DEF HandleRequest, plant, writer
<1>4. /\ cache[u] \in Seq(Sample) /\ Len(cache[u]) <= 2 /\ ReaderTrue(u) /\ Follows(u)
      /\ batch[u] = <<>>
      /\ Len(cache[u]) \in Nat /\ DOMAIN cache[u] = 1 .. Len(cache[u])
      /\ cache[u] # <<>> => Len(cache[u]) \in DOMAIN cache[u]
      /\ \A i \in DOMAIN cache[u] : cache[u][i] \in Sample
  <2>1. /\ cache[u] \in Seq(Sample) /\ Len(cache[u]) <= 2 /\ ReaderTrue(u) /\ Follows(u)
        /\ batch[u] = <<>>
    BY <1>1, <1>2, <1>3 DEF TypeOK, Nothing
  <2> QED
    BY <2>1, DomainOf, ElementOf
<1>5. /\ AllRead(cache[u]) \in Seq(Sample) /\ Len(AllRead(cache[u])) = Len(cache[u])
      /\ AllRead(cache[u]) = <<>> <=> cache[u] = <<>>
      /\ \A i \in DOMAIN cache[u] : /\ AllRead(cache[u])[i].kind = cache[u][i].kind
                                    /\ AllRead(cache[u])[i].revision = cache[u][i].revision
                                    /\ ~Unread(AllRead(cache[u])[i])
  BY <1>4, ReadOf
<1>6. /\ cache' \in [Uid -> Seq(Sample)] /\ cache'[u] = AllRead(cache[u])
      /\ \A v \in Uid \ {u} : cache'[v] = cache[v]
  BY <1>2, <1>3, <1>5 DEF TypeOK
<1>7. /\ out' \in [Uid -> {"none", "alive", "disposed", "unregistered"}]
      /\ shown' \in [Uid -> 0 .. MaxRevision] /\ missed' \subseteq Uid
      /\ \A v \in Uid \ {u} : /\ out'[v] = out[v] /\ shown'[v] = shown[v]
                              /\ v \in missed' <=> v \in missed
      /\ \/ ValuesOf(u) = {} /\ UNCHANGED <<out, shown, missed>>
         \/ u \in missed'
         \/ \E i \in ValuesOf(u) : out'[u] = "alive" /\ shown'[u] = cache[u][i].revision
  <2>0. /\ out \in [Uid -> {"none", "alive", "disposed", "unregistered"}]
        /\ shown \in [Uid -> 0 .. MaxRevision] /\ missed \subseteq Uid
    BY DEF TypeOK
  <2>1. CASE ValuesOf(u) = {}
    BY <1>1, <1>3, <2>0, <2>1 DEF writer
  <2>2. ASSUME NEW i \in ValuesOf(u), Write(u, cache[u][i].revision) PROVE <1>7!:
    <3>1. cache[u][i].revision \in 0 .. MaxRevision
      BY <1>4 DEF ValuesOf, Sample
    <3> QED
      BY <1>2, <2>0, <2>2, <3>1 DEF Write, writer
  <2> QED
    BY <1>1, <1>3, <2>1, <2>2
<1>8. TypeOK'
  <2>1. swallowed' \subseteq Uid
    BY <1>1, <1>2, <1>3 DEF TypeOK
  <2>2. \A v \in Uid : Len(cache'[v]) <= 2 /\ Len(batch'[v]) <= 2
    BY <1>1, <1>3, <1>4, <1>5, <1>6 DEF TypeOK
  <2> QED
    BY <1>1, <1>2, <1>3, <1>6, <1>7, <2>1, <2>2 DEF TypeOK
<1>9. ASSUME NEW v \in Uid, v # u PROVE ReaderTrue(v)' /\ BatchTrue(v)' /\ Follows(v)'
  <2>1. /\ cache'[v] = cache[v] /\ batch'[v] = batch[v] /\ field'[v] = field[v]
        /\ revision'[v] = revision[v] /\ out'[v] = out[v] /\ shown'[v] = shown[v]
        /\ v \in missed' <=> v \in missed
        /\ v \in swallowed' <=> v \in swallowed
    BY <1>1, <1>3, <1>6, <1>7, <1>9
  <2> QED
    BY <2>1, LeftAlone
<1>10. ReaderTrue(u)' /\ BatchTrue(u)' /\ Follows(u)'
  <2>1. PICK n \in Nat : n = Len(cache[u])
    BY <1>4
  <2>2. /\ DOMAIN cache'[u] = DOMAIN cache[u] /\ Len(cache'[u]) = n
        /\ n = 2 => 1 \in DOMAIN cache[u] /\ 2 \in DOMAIN cache[u]
    <3>1. DOMAIN AllRead(cache[u]) = 1 .. Len(AllRead(cache[u]))
      BY <1>5, DomainOf
    <3>2. n = 2 => 1 \in 1 .. n /\ 2 \in 1 .. n
      OBVIOUS
    <3> QED
      BY <1>4, <1>5, <1>6, <2>1, <3>1, <3>2
  <2>3. cache[u] # <<>> => /\ Tells(cache[u][n], field[u], revision[u])
                           /\ Tells(cache'[u][n], field[u], revision[u])
                           /\ ~Unread(cache'[u][n])
    <3> SUFFICES ASSUME cache[u] # <<>> PROVE <2>3!2
      OBVIOUS
    <3>1. n \in DOMAIN cache[u] /\ Tells(cache[u][n], field[u], revision[u])
      BY <1>4, <2>1 DEF ReaderTrue, Newest
    <3>2. /\ cache'[u][n].kind = cache[u][n].kind
          /\ cache'[u][n].revision = cache[u][n].revision
          /\ ~Unread(cache'[u][n])
      BY <1>5, <1>6, <3>1
    <3> QED
      BY <3>1, <3>2 DEF Tells, IsValue
  <2>4. n = 2 => IsValue(cache'[u][1]) # IsValue(cache'[u][2])
    BY <1>4, <1>5, <1>6, <2>1, <2>2 DEF ReaderTrue, IsValue
  <2>5. ReaderTrue(u)' /\ BatchTrue(u)'
    BY <1>1, <1>3, <1>4, <1>5, <1>6, <2>1, <2>2, <2>3, <2>4 DEF ReaderTrue, BatchTrue, Newest
  <2>6. CASE Ended(u)
    <3>1. CASE \E i \in DOMAIN cache[u] : IsValue(cache[u][i]) \/ Unread(cache[u][i])
      <4>1. u \in swallowed'
        BY <1>3, <2>6, <3>1
      <4> QED
        BY <2>5, <4>1 DEF Follows
    <3>2. CASE ~\E i \in DOMAIN cache[u] : IsValue(cache[u][i]) \/ Unread(cache[u][i])
      <4>1. /\ ValuesOf(u) = {} /\ ~Waits(u) /\ swallowed' = swallowed
            /\ UNCHANGED <<out, shown, missed>>
        BY <1>1, <1>3, <1>4, <3>2 DEF ValuesOf, Waits, Newest, writer
      <4> QED
        BY <1>3, <1>4, <2>5, <2>6, <4>1 DEF Follows, Ended
    <3> QED
      BY <3>1, <3>2
  <2>7. CASE field[u] = "alive"
    <3>1. cache[u] # <<>> /\ IsValue(cache[u][n]) /\ cache[u][n].revision = revision[u]
      BY <1>4, <2>1, <2>3, <2>7 DEF ReaderTrue, Tells, Ended
    <3>2. n \in ValuesOf(u)
      BY <1>4, <2>1, <3>1 DEF ValuesOf
    <3>3. \A i \in ValuesOf(u) : i = n
      <4> SUFFICES ASSUME NEW i \in ValuesOf(u), i # n PROVE FALSE
        OBVIOUS
      <4>1. i \in 1 .. n /\ n <= 2 /\ n \in Nat /\ IsValue(cache[u][i])
        BY <1>4, <2>1 DEF ValuesOf
      <4> HIDE DEF ValuesOf
      <4>2. i = 1 /\ n = 2
        BY <4>1
      <4> QED
        <5>1. IsValue(cache[u][1]) /\ IsValue(cache[u][2]) /\ Len(cache[u]) = 2
          BY <2>1, <3>1, <4>1, <4>2
        <5> QED
          BY <1>4, <5>1 DEF ReaderTrue, IsValue
    <3>4. u \in missed' \/ (out'[u] = "alive" /\ shown'[u] = revision[u])
      BY <1>7, <3>1, <3>2, <3>3
    <3> QED
      BY <1>1, <1>3, <2>5, <2>7, <3>4 DEF Follows
  <2>8. CASE field[u] = "absent"
    <3>1. cache[u] = <<>>
      BY <2>3, <2>8 DEF Tells, Ended
    <3>2. ValuesOf(u) = {} /\ ~Waits(u) /\ swallowed' = swallowed
      BY <1>1, <1>3, <1>4, <2>8, <3>1 DEF ValuesOf, Waits, Ended
    <3>3. UNCHANGED <<out, shown, missed>>
      BY <1>1, <1>3, <3>2 DEF writer
    <3> QED
      BY <1>1, <1>3, <1>4, <2>5, <2>8, <3>2, <3>3 DEF Follows, Ended
  <2>9. field[u] \in {"absent", "alive", "disposed", "no_writers"}
    BY <1>2 DEF TypeOK
  <2> QED
    BY <2>5, <2>6, <2>7, <2>8, <2>9 DEF Ended
<1> QED
  BY <1>8, <1>9, <1>10

----------------------------------------------------------------------------
(* Every step keeps the invariant.                                          *)
LEMMA NextKeepsInv == IInv /\ [Next]_vars => IInv'
<1> SUFFICES ASSUME IInv, [Next]_vars PROVE IInv'
  OBVIOUS
<1>1. ASSUME NEW u \in Uid, Describe(u) \/ End(u, "disposed") \/ End(u, "no_writers") PROVE IInv'
  BY <1>1, FieldStep
<1>2. ASSUME NEW u \in Uid, Handle(u) PROVE IInv'
  BY <1>2, HandleStep
<1>3. CASE Process
  BY <1>3, ProcessStep
<1>4. CASE HandleRequest
  BY <1>4, RequestStep
<1>5. CASE \/ \E u \in Uid : Request(u)
           \/ UNCHANGED vars
  <2>1. UNCHANGED <<field, revision, cache, batch, out, shown, missed, swallowed>>
    BY <1>5 DEF Request, vars, plant, writer, history
  <2>2. requests' \in Seq(Uid)
    <3>1. requests \in Seq(Uid)
      BY DEF IInv, TypeOK
    <3>2. ASSUME NEW u \in Uid PROVE Append(requests, u) \in Seq(Uid)
      BY <3>1, AppendOf
    <3> QED
      BY <1>5, <3>1, <3>2 DEF Request, vars
  <2>3. TypeOK'
    BY <2>1, <2>2 DEF IInv, TypeOK
  <2>4. ASSUME NEW v \in Uid PROVE ReaderTrue(v)' /\ BatchTrue(v)' /\ Follows(v)'
    BY <2>1, LeftAlone DEF IInv
  <2> QED
    BY <2>3, <2>4 DEF IInv
<1> QED
  BY <1>1, <1>2, <1>3, <1>4, <1>5 DEF Next

(* In every reachable state what is read, pending or written of a tag is    *)
(* what the field last said, in that order.                                 *)
THEOREM Invariant == Spec => []IInv
BY InitInv, NextKeepsInv, PTL DEF Spec

(* The types; the reader and a batch hold two samples of a tag at most.     *)
THEOREM TypeCorrect == Spec => []TypeOK
<1>1. IInv => TypeOK
  BY InvImplies
<1> QED
  BY <1>1, Invariant, PTL

(* No order of descriptions, ends, batches and requests leaves an older     *)
(* entry in the catalogue.                                                  *)
THEOREM CatalogueIsCurrent == Spec => []CatalogueFollows
<1>1. IInv => CatalogueFollows
  BY InvImplies
<1> QED
  BY <1>1, Invariant, PTL

----------------------------------------------------------------------------
(* scada_web sends no METADATA, and another writer need not.  Without such  *)
(* requests nothing is swallowed.                                           *)
NothingSwallowed == requests = <<>> /\ swallowed = {}

(* Every step keeps it.                                                     *)
LEMMA NothingSwallowedStep ==
  ASSUME MaxRequests = 0, NothingSwallowed, [Next]_vars PROVE NothingSwallowed'
<1>1. Len(requests) = 0
  BY EmptySeq DEF NothingSwallowed
<1>2. ASSUME NEW u \in Uid PROVE ~Request(u)
  BY <1>1 DEF Request
<1>3. ~HandleRequest
  BY DEF HandleRequest, NothingSwallowed
<1>4. ASSUME NEW u \in Uid, Describe(u) \/ End(u, "disposed") \/ End(u, "no_writers") \/ Handle(u)
      PROVE  NothingSwallowed'
  BY <1>4 DEF Describe, End, Handle, history, NothingSwallowed
<1>5. CASE Process \/ UNCHANGED vars
  BY <1>5 DEF Process, vars, history, NothingSwallowed
<1> QED
  BY <1>2, <1>3, <1>4, <1>5 DEF Next

(* Then only a write or a retraction that timed out can leave the catalogue *)
(* behind the field.                                                        *)
THEOREM CatalogueIsTheField ==
  ASSUME MaxRequests = 0
  PROVE  Spec => [](\A u \in Uid :
                      \/ Pending(u) \/ u \in missed
                      \/ field[u] = "absent" /\ out[u] = "none"
                      \/ field[u] = "alive" /\ out[u] = "alive" /\ shown[u] = revision[u]
                      \/ Ended(u) /\ out[u] # "alive")
<1> DEFINE Current == \A u \in Uid :
              \/ Pending(u) \/ u \in missed
              \/ field[u] = "absent" /\ out[u] = "none"
              \/ field[u] = "alive" /\ out[u] = "alive" /\ shown[u] = revision[u]
              \/ Ended(u) /\ out[u] # "alive"
<1>1. Init => NothingSwallowed
  BY DEF Init, NothingSwallowed
<1>2. NothingSwallowed /\ [Next]_vars => NothingSwallowed'
  BY NothingSwallowedStep
<1>3. CatalogueFollows /\ NothingSwallowed => Current
  BY DEF CatalogueFollows, NothingSwallowed
<1> QED
  BY <1>1, <1>2, <1>3, CatalogueIsCurrent, PTL DEF Spec
=============================================================================
