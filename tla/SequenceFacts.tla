--------------------------- MODULE SequenceFacts ---------------------------
(***************************************************************************)
(* What the proofs about queues need to know of Append, Tail and the       *)
(* elements of a sequence, in terms of its DOMAIN; and which of two values *)
(* a sequence holds last.                                                  *)
(***************************************************************************)
EXTENDS Integers, Sequences, SequenceTheorems, WellFoundedInduction, TLAPS

(* What a sequence of elements of S holds is in S.                           *)
LEMMA ElementOf == ASSUME NEW S, NEW s \in Seq(S), NEW i \in DOMAIN s PROVE s[i] \in S
  OBVIOUS

(* The indices of a sequence, and what makes it empty.                      *)
LEMMA DomainOf ==
  ASSUME NEW S, NEW s \in Seq(S)
  PROVE  /\ Len(s) \in Nat /\ DOMAIN s = 1 .. Len(s)
         /\ s = <<>> <=> Len(s) = 0
         /\ s # <<>> => 1 \in DOMAIN s /\ Len(s) \in DOMAIN s /\ Head(s) = s[1]
<1>1. Len(s) \in Nat /\ DOMAIN s = 1 .. Len(s)
  OBVIOUS
<1>2. s = <<>> => Len(s) = 0
  BY EmptySeq
<1>3. s # <<>> => Len(s) \in Nat \ {0}
  BY EmptySeq
<1>4. s # <<>> => Head(s) = s[1]
  OBVIOUS
<1>5. ASSUME Len(s) \in Nat \ {0} PROVE 1 \in 1 .. Len(s) /\ Len(s) \in 1 .. Len(s)
  BY <1>5
<1> QED
  BY <1>1, <1>2, <1>3, <1>4, <1>5

(* A sequence and one element more.                                         *)
LEMMA AppendOf ==
  ASSUME NEW S, NEW s \in Seq(S), NEW x \in S
  PROVE  /\ Append(s, x) \in Seq(S) /\ Append(s, x) # <<>>
         /\ Len(Append(s, x)) = Len(s) + 1
         /\ DOMAIN Append(s, x) = DOMAIN s \cup {Len(s) + 1}
         /\ \A i \in DOMAIN s : i < Len(s) + 1 /\ Append(s, x)[i] = s[i]
         /\ Append(s, x)[Len(s) + 1] = x
<1>1. /\ Append(s, x) \in Seq(S) /\ Append(s, x) # <<>>
      /\ Len(Append(s, x)) = Len(s) + 1
      /\ \A i \in 1 .. Len(s) : Append(s, x)[i] = s[i]
      /\ Append(s, x)[Len(s) + 1] = x
  BY AppendProperties
<1>2. /\ Len(s) \in Nat /\ DOMAIN s = 1 .. Len(s)
      /\ DOMAIN Append(s, x) = 1 .. Len(Append(s, x))
  BY <1>1
<1>3. 1 .. Len(s) + 1 = (1 .. Len(s)) \cup {Len(s) + 1}
  BY <1>2
<1> QED
  BY <1>1, <1>2, <1>3

(* Concatenating one element is appending it.                               *)
LEMMA ConcatOfOne ==
  ASSUME NEW S, NEW s \in Seq(S), NEW x \in S
  PROVE  s \o <<x>> = Append(s, x)
<1>0. <<x>> \in Seq(S) /\ Len(<<x>>) = 1 /\ <<x>>[1] = x
  OBVIOUS
<1>1. PICK y : y \in Seq(S) /\ Len(y) = 1 /\ y[1] = x /\ y = <<x>>
  BY <1>0
<1>2. /\ s \o y \in Seq(S) /\ Len(s \o y) = Len(s) + 1
      /\ \A i \in 1 .. Len(s) + 1 : (s \o y)[i] = IF i <= Len(s) THEN s[i] ELSE y[i - Len(s)]
  BY <1>1, ConcatProperties
<1>3. /\ Append(s, x) \in Seq(S) /\ Len(Append(s, x)) = Len(s) + 1
      /\ \A i \in 1 .. Len(s) : Append(s, x)[i] = s[i]
      /\ Append(s, x)[Len(s) + 1] = x
  BY AppendProperties
<1>4. Len(s) \in Nat
  BY DomainOf
<1>5. \A i \in 1 .. Len(s) + 1 : (s \o y)[i] = Append(s, x)[i]
  BY <1>1, <1>2, <1>3, <1>4
<1>6. s \o y = Append(s, x)
  BY <1>2, <1>3, <1>5, SeqEqual
<1> QED
  BY <1>1, <1>6

(* Without its head a sequence has the same elements and the same end.      *)
LEMMA TailOf ==
  ASSUME NEW S, NEW s \in Seq(S), s # <<>>
  PROVE  /\ Tail(s) \in Seq(S) /\ Len(Tail(s)) = Len(s) - 1
         /\ \A i \in DOMAIN Tail(s) : i + 1 \in DOMAIN s /\ Tail(s)[i] = s[i + 1]
         /\ \A i \in DOMAIN s : i # 1 => i - 1 \in DOMAIN Tail(s) /\ Tail(s)[i - 1] = s[i]
         /\ Tail(s) # <<>> => Tail(s)[Len(Tail(s))] = s[Len(s)]
         /\ Tail(s) = <<>> => Head(s) = s[Len(s)] /\ Len(s) = 1
<1>1. /\ Tail(s) \in Seq(S) /\ Len(Tail(s)) = Len(s) - 1
      /\ \A i \in 1 .. Len(Tail(s)) : Tail(s)[i] = s[i + 1]
  BY HeadTailProperties
<1>2. /\ Len(s) \in Nat /\ DOMAIN s = 1 .. Len(s)
      /\ Len(Tail(s)) \in Nat /\ DOMAIN Tail(s) = 1 .. Len(Tail(s))
  BY <1>1
<1>3. \A i \in DOMAIN Tail(s) : i + 1 \in DOMAIN s /\ Tail(s)[i] = s[i + 1]
  BY <1>1, <1>2
<1>4. \A i \in DOMAIN s : i # 1 => i - 1 \in DOMAIN Tail(s) /\ Tail(s)[i - 1] = s[i]
  <2> SUFFICES ASSUME NEW i \in DOMAIN s, i # 1
               PROVE  i - 1 \in DOMAIN Tail(s) /\ Tail(s)[i - 1] = s[i]
    OBVIOUS
  <2>1. i - 1 \in 1 .. Len(Tail(s)) /\ (i - 1) + 1 = i
    BY <1>1, <1>2
  <2> QED
    BY <1>1, <1>2, <2>1
<1>5. ASSUME Tail(s) # <<>> PROVE Tail(s)[Len(Tail(s))] = s[Len(s)]
  <2>1. Len(Tail(s)) # 0
    BY <1>1, <1>5, EmptySeq
  <2>2. Len(Tail(s)) \in 1 .. Len(Tail(s)) /\ Len(Tail(s)) + 1 = Len(s)
    BY <1>1, <1>2, <2>1
  <2> QED
    BY <1>1, <2>2
<1>6. ASSUME Tail(s) = <<>> PROVE Head(s) = s[Len(s)] /\ Len(s) = 1
  <2>1. Len(s) \in Nat /\ Len(s) - 1 = 0
    BY <1>1, <1>2, <1>6, EmptySeq
  <2>2. \A n \in Nat : n - 1 = 0 => n = 1
    OBVIOUS
  <2>3. Len(s) = 1
    BY <2>1, <2>2
  <2> QED
    BY <2>3
<1> QED
  BY <1>1, <1>3, <1>4, <1>5, <1>6

----------------------------------------------------------------------------
(* The least-number principle, for sets, and what it says of sets of        *)
(* indices.                                                                 *)
LEMMA LeastOf ==
  ASSUME NEW T, T \subseteq Nat, T # {}
  PROVE  \E n \in T : \A m \in T : n <= m
<1> DEFINE R == OpToRel(<, Nat)
<1>1. IsWellFoundedOn(R, Nat)
  BY NatLessThanWellFounded
<1>2. PICK x \in T : \A y \in T : ~ (<<y, x>> \in R)
  <2> HIDE DEF R
  <2> QED
    BY <1>1, WFMin
<1>3. \A y \in T : ~(y < x)
  BY <1>2 DEF OpToRel
<1> QED
  BY <1>3

(* A set of indices that is not empty has a greatest one.                   *)
LEMMA GreatestOf ==
  ASSUME NEW n \in Nat, NEW T, T \subseteq 1 .. n, T # {}
  PROVE  \E i \in T : \A j \in T : j <= i
<1> DEFINE Below == {n - i : i \in T}
<1>0. n \in Int /\ \A i \in T : i \in Int /\ n - i \in Nat
  <2>1. \A i \in 1 .. n : i \in Int /\ n - i \in Nat
    OBVIOUS
  <2> QED
    BY <2>1
<1>1. Below \subseteq Nat /\ Below # {}
  BY <1>0
<1>2. PICK d \in Below : \A e \in Below : d <= e
  <2> HIDE DEF Below
  <2> QED
    BY <1>1, LeastOf
<1>3. PICK i \in T : d = n - i
  OBVIOUS
<1>4. \A j \in T : n - i <= n - j
  BY <1>2, <1>3
<1>5. ASSUME NEW j \in T PROVE j <= i
  <2>1. n - i <= n - j /\ i \in Int /\ j \in Int /\ n \in Int
    BY <1>0, <1>4
  <2> HIDE DEF Below
  <2> QED
    BY <2>1
<1> QED
  BY <1>5

----------------------------------------------------------------------------
(* Of the elements of A and B, the last one s holds is in A. *)
LastIn(s, A, B) ==
  \E i \in 1 .. Len(s) : s[i] \in A /\ \A j \in i + 1 .. Len(s) : s[j] \notin A \cup B

(* An element appended is the last one, if it is any of them.               *)
LEMMA LastOfAppend ==
  ASSUME NEW S, NEW s \in Seq(S), NEW r \in S, NEW A, NEW B
  PROVE  LastIn(Append(s, r), A, B) <=> r \in A \/ (r \notin A \cup B /\ LastIn(s, A, B))
<1> DEFINE t == Append(s, r)
           n == Len(s)
<1>1. /\ n \in Nat /\ Len(t) = n + 1 /\ t[n + 1] = r
      /\ \A i \in 1 .. n : t[i] = s[i]
  BY AppendOf, DomainOf
<1> HIDE DEF t
<1>2. ASSUME r \in A PROVE LastIn(t, A, B)
  <2>1. n + 1 \in 1 .. Len(t) /\ \A j \in (n + 1) + 1 .. Len(t) : FALSE
    BY <1>1
  <2> QED
    BY <1>1, <1>2, <2>1 DEF LastIn
<1>3. ASSUME r \notin A \cup B, LastIn(s, A, B) PROVE LastIn(t, A, B)
  <2>1. PICK i \in 1 .. n : s[i] \in A /\ \A j \in i + 1 .. n : s[j] \notin A \cup B
    BY <1>3 DEF LastIn
  <2>2. i \in 1 .. Len(t) /\ t[i] \in A
    BY <1>1, <2>1
  <2>3. ASSUME NEW j \in i + 1 .. Len(t) PROVE t[j] \notin A \cup B
    BY <1>1, <1>3, <2>1
  <2> QED
    BY <2>2, <2>3 DEF LastIn
<1>4. ASSUME LastIn(t, A, B), r \notin A PROVE r \notin B /\ LastIn(s, A, B)
  <2>1. PICK i \in 1 .. Len(t) : t[i] \in A /\ \A j \in i + 1 .. Len(t) : t[j] \notin A \cup B
    BY <1>4 DEF LastIn
  <2>2. i \in 1 .. n /\ s[i] \in A /\ n + 1 \in i + 1 .. Len(t)
    BY <1>1, <1>4, <2>1
  <2>3. \A j \in i + 1 .. n : s[j] \notin A \cup B
    BY <1>1, <2>1
  <2> QED
    BY <1>1, <2>1, <2>2, <2>3 DEF LastIn
<1> QED
  BY <1>2, <1>3, <1>4 DEF t

(* The head is the last one only if none follows it.                        *)
LEMMA LastOfTail ==
  ASSUME NEW S, NEW s \in Seq(S), s # <<>>, NEW A, NEW B
  PROVE  LastIn(s, A, B) <=>
           \/ LastIn(Tail(s), A, B)
           \/ Head(s) \in A /\ \A j \in 1 .. Len(Tail(s)) : Tail(s)[j] \notin A \cup B
<1> DEFINE t == Tail(s)
           n == Len(t)
<1>1. /\ n \in Nat /\ Len(s) = n + 1 /\ s[1] = Head(s)
      /\ \A i \in 1 .. n : t[i] = s[i + 1]
  <2>1. t \in Seq(S) /\ Len(t) = Len(s) - 1 /\ \A i \in DOMAIN t : t[i] = s[i + 1]
    BY TailOf
  <2>2. n \in Nat /\ DOMAIN t = 1 .. n /\ Len(s) \in Nat /\ s[1] = Head(s)
    BY <2>1, DomainOf
  <2> QED
    BY <2>1, <2>2
<1> HIDE DEF t
<1>2. ASSUME LastIn(t, A, B) PROVE LastIn(s, A, B)
  <2>1. PICK i \in 1 .. n : t[i] \in A /\ \A j \in i + 1 .. n : t[j] \notin A \cup B
    BY <1>2 DEF LastIn
  <2>2. i + 1 \in 1 .. Len(s) /\ s[i + 1] \in A
    BY <1>1, <2>1
  <2>3. ASSUME NEW j \in (i + 1) + 1 .. Len(s) PROVE s[j] \notin A \cup B
    <3>1. j - 1 \in i + 1 .. n /\ (j - 1) + 1 = j /\ j - 1 \in 1 .. n
      BY <1>1
    <3> QED
      BY <1>1, <2>1, <3>1
  <2> QED
    BY <2>2, <2>3 DEF LastIn
<1>3. ASSUME Head(s) \in A, \A j \in 1 .. n : t[j] \notin A \cup B PROVE LastIn(s, A, B)
  <2>1. ASSUME NEW j \in 1 + 1 .. Len(s) PROVE s[j] \notin A \cup B
    <3>1. j - 1 \in 1 .. n /\ (j - 1) + 1 = j
      BY <1>1
    <3> QED
      BY <1>1, <1>3, <3>1
  <2>2. 1 \in 1 .. Len(s)
    BY <1>1
  <2> QED
    BY <1>1, <1>3, <2>1, <2>2 DEF LastIn
<1>4. ASSUME LastIn(s, A, B)
      PROVE  LastIn(t, A, B) \/ (Head(s) \in A /\ \A j \in 1 .. n : t[j] \notin A \cup B)
  <2>1. PICK i \in 1 .. Len(s) : s[i] \in A /\ \A j \in i + 1 .. Len(s) : s[j] \notin A \cup B
    BY <1>4 DEF LastIn
  <2>2. CASE i = 1
    <3>1. \A j \in 1 .. n : j + 1 \in i + 1 .. Len(s)
      BY <1>1, <2>2
    <3> QED
      BY <1>1, <2>1, <2>2, <3>1
  <2>3. CASE i # 1
    <3>1. i - 1 \in 1 .. n /\ (i - 1) + 1 = i
      BY <1>1, <2>3
    <3>2. \A j \in (i - 1) + 1 .. n : j + 1 \in i + 1 .. Len(s) /\ j \in 1 .. n
      BY <1>1, <2>3
    <3> QED
      BY <1>1, <2>1, <3>1, <3>2 DEF LastIn
  <2> QED
    BY <2>2, <2>3
<1> QED
  BY <1>2, <1>3, <1>4 DEF t

(* If s holds any of them at all, one is last.                              *)
LEMMA OneIsLast ==
  ASSUME NEW S, NEW s \in Seq(S), NEW A, NEW B, NEW k \in 1 .. Len(s), s[k] \in A \cup B
  PROVE  LastIn(s, A, B) \/ LastIn(s, B, A)
<1> DEFINE T == {i \in 1 .. Len(s) : s[i] \in A \cup B}
<1>1. Len(s) \in Nat
  BY DomainOf
<1>2. PICK i \in T : \A j \in T : j <= i
  BY <1>1, GreatestOf
<1>3. \A j \in i + 1 .. Len(s) : s[j] \notin A \cup B
  BY <1>1, <1>2
<1> QED
  BY <1>3 DEF LastIn

(* It is in one set only, if these have nothing in common.                  *)
LEMMA OnlyOneIsLast ==
  ASSUME NEW S, NEW s \in Seq(S), NEW A, NEW B, A \cap B = {}, LastIn(s, A, B)
  PROVE  ~LastIn(s, B, A)
<1> SUFFICES ASSUME LastIn(s, B, A) PROVE FALSE
  OBVIOUS
<1>1. PICK i \in 1 .. Len(s) : s[i] \in A /\ \A j \in i + 1 .. Len(s) : s[j] \notin A \cup B
  BY DEF LastIn
<1>2. PICK k \in 1 .. Len(s) : s[k] \in B /\ \A j \in k + 1 .. Len(s) : s[j] \notin A \cup B
  BY DEF LastIn
<1>3. Len(s) \in Nat
  BY DomainOf
<1>4. i # k /\ ~(k \in i + 1 .. Len(s)) /\ ~(i \in k + 1 .. Len(s))
  BY <1>1, <1>2
<1> QED
  BY <1>3, <1>4

----------------------------------------------------------------------------
(* What a sequence of commands makes of x \in X: those of A make it true,   *)
(* those of B false, the others leave it.                                   *)
Outcome(s, A, B, x, X) == LastIn(s, A, B) \/ (x \in X /\ ~LastIn(s, B, A))

(* No command leaves x as it is.                                            *)
LEMMA OutcomeOfEmpty ==
  ASSUME NEW A, NEW B, NEW x, NEW X
  PROVE  Outcome(<<>>, A, B, x, X) <=> x \in X
<1>1. \A i \in 1 .. Len(<<>>) : FALSE
  BY EmptySeq
<1> QED
  BY <1>1 DEF Outcome, LastIn

(* The command appended decides, if it is any of them.                      *)
LEMMA OutcomeOfAppend ==
  ASSUME NEW S, NEW s \in Seq(S), NEW r \in S, NEW A, NEW B, A \cap B = {},
         NEW x, NEW X
  PROVE  Outcome(Append(s, r), A, B, x, X) <=>
           r \in A \/ (r \notin B /\ Outcome(s, A, B, x, X))
<1>1. /\ LastIn(Append(s, r), A, B) <=> r \in A \/ (r \notin A \cup B /\ LastIn(s, A, B))
      /\ LastIn(Append(s, r), B, A) <=> r \in B \/ (r \notin A \cup B /\ LastIn(s, B, A))
  <2>1. A \cup B = B \cup A
    OBVIOUS
  <2> QED
    BY <2>1, LastOfAppend
<1> QED
  BY <1>1 DEF Outcome

(* The first command may be obeyed before the others are looked at.         *)
LEMMA OutcomeOfTail ==
  ASSUME NEW S, NEW s \in Seq(S), s # <<>>, NEW A, NEW B, A \cap B = {},
         NEW x, NEW X, NEW y, NEW Y,
         y \in Y <=> Head(s) \in A \/ (Head(s) \notin B /\ x \in X)
  PROVE  Outcome(s, A, B, x, X) <=> Outcome(Tail(s), A, B, y, Y)
<1> DEFINE t == Tail(s)
           None == \A j \in 1 .. Len(t) : t[j] \notin A \cup B
<1>1. /\ LastIn(s, A, B) <=> LastIn(t, A, B) \/ (Head(s) \in A /\ None)
      /\ LastIn(s, B, A) <=> LastIn(t, B, A) \/ (Head(s) \in B /\ None)
  <2>1. A \cup B = B \cup A
    OBVIOUS
  <2> QED
    BY <2>1, LastOfTail
<1>2. t \in Seq(S)
  BY TailOf
<1>3. ~None => LastIn(t, A, B) \/ LastIn(t, B, A)
  BY <1>2, OneIsLast
<1>4. None => ~LastIn(t, A, B) /\ ~LastIn(t, B, A)
  BY DEF LastIn
<1>5. LastIn(t, A, B) => ~LastIn(t, B, A)
  BY <1>2, OnlyOneIsLast
<1> HIDE DEF t, None
<1>6. CASE None
  BY <1>1, <1>4, <1>6 DEF Outcome, t
<1>7. CASE LastIn(t, A, B)
  BY <1>1, <1>5, <1>7 DEF Outcome, t
<1>8. CASE ~None /\ LastIn(t, B, A)
  <2>1. ~LastIn(t, A, B)
    BY <1>2, <1>5, <1>8
  <2> QED
    BY <1>1, <1>8, <2>1 DEF Outcome, t
<1> QED
  BY <1>3, <1>6, <1>7, <1>8

(* What comes out true was true before, or made so by some command.         *)
LEMMA OutcomeHasCause ==
  ASSUME NEW s, NEW A, NEW B, NEW x, NEW X, Outcome(s, A, B, x, X)
  PROVE  x \in X \/ \E i \in 1 .. Len(s) : s[i] \in A
BY DEF Outcome, LastIn
============================================================================
