-------------------------- MODULE EventQueue_proofs --------------------------
(***************************************************************************)
(* Lemmas about the methods of the event queue, for any number of channels *)
(* and events and any limits: what a method returns is a queue, it holds   *)
(* no event twice, and it holds no event that it did not hold or was not   *)
(* given.                                                                  *)
(***************************************************************************)
EXTENDS EventQueue, FiniteSetTheorems, SequenceTheorems, WellFoundedInduction, TLAPS

-----------------------------------------------------------------------------
(* Sequences of events *)

\* No event is in s twice.
Distinct(s) == \A i, j \in DOMAIN s : s[i] = s[j] => i = j

\* A nonempty set of naturals has a least element.
LEMMA Least ==
  ASSUME NEW T \in SUBSET Nat, T # {}
  PROVE  \E x \in T : \A y \in T : x <= y
<1>1. PICK x \in T : \A y \in T : ~ (<<y, x>> \in OpToRel(<, Nat))
  BY NatLessThanWellFounded, WFMin
<1>2. \A y \in T : ~ (y < x)
  BY <1>1 DEF OpToRel
<1> QED BY <1>2

\* A sequence has its domain and elements.
LEMMA SeqElems ==
  ASSUME NEW S, NEW s \in Seq(S)
  PROVE  /\ Len(s) \in Nat /\ DOMAIN s = 1..Len(s) /\ Elems(s) \subseteq S
         /\ \A i \in 1..Len(s) : s[i] \in S /\ s[i] \in Elems(s)
         /\ \A e \in Elems(s) : \E i \in 1..Len(s) : s[i] = e
         /\ s # <<>> <=> Elems(s) # {}
         /\ s # <<>> <=> Len(s) > 0
BY DEF Elems

\* What a concatenation holds.
LEMMA ConcatElems ==
  ASSUME NEW S, NEW s \in Seq(S), NEW t \in Seq(S)
  PROVE  /\ s \o t \in Seq(S) /\ Elems(s \o t) = Elems(s) \cup Elems(t)
         /\ Len(s \o t) = Len(s) + Len(t)
         /\ Distinct(s) /\ Distinct(t) /\ Elems(s) \cap Elems(t) = {} => Distinct(s \o t)
<1> DEFINE u == s \o t
<1>1. /\ u \in Seq(S) /\ Len(u) = Len(s) + Len(t) /\ Len(s) \in Nat /\ Len(t) \in Nat
      /\ \A i \in 1..Len(s) : u[i] = s[i]
      /\ \A i \in (Len(s) + 1)..(Len(s) + Len(t)) : u[i] = t[i - Len(s)]
      /\ \A i \in 1..Len(t) : u[i + Len(s)] = t[i]
  BY ConcatProperties
<1> HIDE DEF u
<1>2. DOMAIN u = 1..(Len(s) + Len(t)) /\ DOMAIN s = 1..Len(s) /\ DOMAIN t = 1..Len(t)
  BY <1>1
<1>3. Elems(u) \subseteq Elems(s) \cup Elems(t)
  <2> SUFFICES ASSUME NEW e \in Elems(u) PROVE e \in Elems(s) \cup Elems(t)
    OBVIOUS
  <2>1. PICK i \in 1..(Len(s) + Len(t)) : u[i] = e
    BY <1>2 DEF Elems
  <2>2. CASE i <= Len(s)
    <3>1. i \in DOMAIN s /\ s[i] = e
      BY <1>1, <1>2, <2>1, <2>2
    <3> QED BY <3>1 DEF Elems
  <2>3. CASE i > Len(s)
    <3>1. i - Len(s) \in DOMAIN t /\ t[i - Len(s)] = e
      BY <1>1, <1>2, <2>1, <2>3
    <3> QED BY <3>1 DEF Elems
  <2> QED BY <1>1, <2>1, <2>2, <2>3
<1>4. Elems(s) \subseteq Elems(u)
  BY <1>1, <1>2 DEF Elems
<1>5. Elems(t) \subseteq Elems(u)
  <2> SUFFICES ASSUME NEW e \in Elems(t) PROVE e \in Elems(u)
    OBVIOUS
  <2>1. PICK i \in 1..Len(t) : t[i] = e
    BY <1>2 DEF Elems
  <2>2. i + Len(s) \in DOMAIN u /\ u[i + Len(s)] = e
    BY <1>1, <1>2, <2>1
  <2> QED BY <2>2 DEF Elems
<1>6. ASSUME Distinct(s), Distinct(t), Elems(s) \cap Elems(t) = {} PROVE Distinct(u)
  <2> SUFFICES ASSUME NEW i \in DOMAIN u, NEW j \in DOMAIN u, u[i] = u[j], i < j PROVE FALSE
    BY <1>1, <1>2 DEF Distinct
  <2>1. CASE j <= Len(s)
    BY <1>1, <1>2, <1>6, <2>1 DEF Distinct
  <2>2. CASE i > Len(s)
    <3>1. i - Len(s) \in DOMAIN t /\ j - Len(s) \in DOMAIN t /\ t[i - Len(s)] = t[j - Len(s)]
      BY <1>1, <1>2, <2>2
    <3> QED BY <1>1, <1>2, <1>6, <3>1 DEF Distinct
  <2>3. CASE i <= Len(s) /\ j > Len(s)
    <3>1. i \in DOMAIN s /\ j - Len(s) \in DOMAIN t /\ s[i] = t[j - Len(s)]
      BY <1>1, <1>2, <2>3
    <3> QED BY <1>6, <3>1 DEF Elems
  <2> QED BY <1>1, <1>2, <2>1, <2>2, <2>3
<1> QED BY <1>1, <1>3, <1>4, <1>5, <1>6 DEF u

\* What a part of a sequence holds.
LEMMA PartElems ==
  ASSUME NEW S, NEW s \in Seq(S), NEW m \in 1..(Len(s) + 1), NEW n \in 0..Len(s)
  PROVE  /\ SubSeq(s, m, n) \in Seq(S)
         /\ Elems(SubSeq(s, m, n)) = {s[i] : i \in m..n}
         /\ Distinct(s) => Distinct(SubSeq(s, m, n))
<1> DEFINE u == SubSeq(s, m, n)
<1>1. /\ u \in Seq(S) /\ Len(u) = IF m <= n THEN n - m + 1 ELSE 0
      /\ \A i \in 1..(n - m + 1) : u[i] = s[m + i - 1]
      /\ Len(s) \in Nat /\ DOMAIN s = 1..Len(s)
  BY SubSeqProperties
<1> HIDE DEF u
<1>2. DOMAIN u = 1..(n - m + 1)
  BY <1>1
<1>3. Elems(u) \subseteq {s[i] : i \in m..n}
  BY <1>1, <1>2 DEF Elems
<1>4. {s[i] : i \in m..n} \subseteq Elems(u)
  <2> SUFFICES ASSUME NEW i \in m..n PROVE s[i] \in Elems(u)
    OBVIOUS
  <2>1. i - m + 1 \in DOMAIN u /\ u[i - m + 1] = s[i]
    BY <1>1, <1>2
  <2> QED BY <2>1 DEF Elems
<1>5. ASSUME Distinct(s) PROVE Distinct(u)
  <2> SUFFICES ASSUME NEW i \in DOMAIN u, NEW j \in DOMAIN u, u[i] = u[j] PROVE i = j
    BY DEF Distinct
  <2>0. i \in 1..(n - m + 1) /\ j \in 1..(n - m + 1)
    BY <1>2
  <2>1. s[m + i - 1] = s[m + j - 1]
    BY <1>1, <2>0
  <2>2. m + i - 1 \in DOMAIN s /\ m + j - 1 \in DOMAIN s
    <3>1. m \in Nat \ {0} /\ n \in Nat /\ n <= Len(s) /\ Len(s) \in Nat /\ DOMAIN s = 1..Len(s)
      BY <1>1
    <3>2. ASSUME NEW k \in 1..(n - m + 1) PROVE m + k - 1 \in 1..Len(s)
      BY ONLY <3>1
    <3> QED BY ONLY <2>0, <3>1, <3>2
  <2>3. m + i - 1 = m + j - 1
    BY <1>5, <2>1, <2>2 DEF Distinct
  <2> QED BY <1>1, <1>2, <2>3
<1> QED BY <1>1, <1>3, <1>4, <1>5 DEF u

\* The depth cap keeps the front of a sequence; it takes nothing from one that
\* is short enough, and leaves one of the length of the cap.
LEMMA TrimElems ==
  ASSUME NEW s \in Seq(Events)
  PROVE  /\ Trim(s) \in Seq(Events) /\ Elems(Trim(s)) \subseteq Elems(s)
         /\ Distinct(s) => Distinct(Trim(s))
         /\ Elems(Trim(s)) = Elems(s) \/ Len(Trim(s)) = MaxPending
<1> DEFINE n == IF Len(s) > MaxPending THEN MaxPending ELSE Len(s)
<1>1. n \in 0..Len(s) /\ Len(s) \in Nat /\ DOMAIN s = 1..Len(s)
  BY QueueAssumption
<1>2. Trim(s) = SubSeq(s, 1, n) /\ 1 \in 1..(Len(s) + 1)
  BY <1>1 DEF Trim
<1>3. n = Len(s) \/ n = MaxPending
  BY <1>1
<1> HIDE DEF n
<1>4. /\ Trim(s) \in Seq(Events) /\ Elems(Trim(s)) = {s[i] : i \in 1..n}
      /\ Distinct(s) => Distinct(Trim(s))
  BY <1>1, <1>2, PartElems
<1>5. \A i \in 1..n : i \in DOMAIN s
  BY <1>1
<1>6. Elems(Trim(s)) \subseteq Elems(s) /\ (n = Len(s) => Elems(Trim(s)) = Elems(s))
  <2> DEFINE E == Elems(Trim(s))
  <2>1. E = {s[i] : i \in 1..n}
    BY <1>4
  <2> HIDE DEF E
  <2>2. E \subseteq Elems(s) /\ (n = Len(s) => E = Elems(s))
    BY <1>1, <1>5, <2>1 DEF Elems
  <2> QED BY <2>2 DEF E
<1>7. Len(Trim(s)) = n
  BY <1>1, <1>2, SubSeqProperties
<1> QED BY <1>3, <1>4, <1>6, <1>7

\* An event taken out of a sequence is gone, and all others are still there.
LEMMA WithoutElems ==
  ASSUME NEW s \in Seq(Events), NEW e, Distinct(s)
  PROVE  /\ Without(s, e) \in Seq(Events) /\ Distinct(Without(s, e))
         /\ Elems(Without(s, e)) = Elems(s) \ {e}
<1>1. CASE e \notin Elems(s)
  BY <1>1 DEF Without
<1>2. CASE e \in Elems(s)
  <2>1. PICK i : i = CHOOSE j \in DOMAIN s : s[j] = e
    OBVIOUS
  <2>2. i \in DOMAIN s /\ s[i] = e
    BY <1>2, <2>1 DEF Elems
  <2> DEFINE u == SubSeq(s, 1, i - 1)
             v == SubSeq(s, i + 1, Len(s))
  <2>3. Without(s, e) = u \o v
    BY <1>2, <2>1 DEF Without
  <2>4. /\ Len(s) \in Nat /\ DOMAIN s = 1..Len(s) /\ 1 \in 1..(Len(s) + 1) /\ i - 1 \in 0..Len(s)
        /\ i + 1 \in 1..(Len(s) + 1) /\ Len(s) \in 0..Len(s)
    BY <2>2
  <2>5. u \in Seq(Events) /\ Elems(u) = {s[j] : j \in 1..(i - 1)} /\ Distinct(u)
    BY <2>4, PartElems
  <2>6. v \in Seq(Events) /\ Elems(v) = {s[j] : j \in (i + 1)..Len(s)} /\ Distinct(v)
    BY <2>4, PartElems
  <2> HIDE DEF u, v
  <2>7. Elems(u) \cap Elems(v) = {}
    <3> SUFFICES ASSUME NEW x \in Elems(u), x \in Elems(v) PROVE FALSE
      OBVIOUS
    <3>1. PICK j \in 1..(i - 1), k \in (i + 1)..Len(s) : x = s[j] /\ x = s[k]
      BY <2>5, <2>6
    <3>2. j \in DOMAIN s /\ k \in DOMAIN s /\ j # k
      BY <2>2, <2>4, <3>1
    <3> QED BY <3>1, <3>2 DEF Distinct
  <2>8. Elems(u) \cup Elems(v) = Elems(s) \ {e}
    <3>1. ASSUME NEW x \in Elems(u) \cup Elems(v) PROVE x \in Elems(s) \ {e}
      <4>1. PICK j \in 1..(i - 1) \cup (i + 1)..Len(s) : x = s[j]
        BY <2>5, <2>6
      <4>2. j \in DOMAIN s /\ j # i
        BY <2>4, <4>1
      <4> QED BY <2>2, <4>1, <4>2 DEF Distinct, Elems
    <3>2. ASSUME NEW x \in Elems(s) \ {e} PROVE x \in Elems(u) \cup Elems(v)
      <4>1. PICK j \in DOMAIN s : s[j] = x
        BY DEF Elems
      <4>2. j # i
        BY <2>2, <4>1
      <4>3. j \in 1..(i - 1) \/ j \in (i + 1)..Len(s)
        BY <2>2, <2>4, <4>2
      <4> QED BY <2>5, <2>6, <4>1, <4>3
    <3> QED BY <3>1, <3>2
  <2>9. u \o v \in Seq(Events) /\ Elems(u \o v) = Elems(u) \cup Elems(v) /\ Distinct(u \o v)
    <3>1. u \in Seq(Events) /\ v \in Seq(Events) /\ Distinct(u) /\ Distinct(v)
      BY <2>5, <2>6
    <3> QED BY ONLY <2>7, <3>1, ConcatElems
  <2> QED BY <2>3, <2>8, <2>9
<1> QED BY <1>1, <1>2

\* An event put in front of or behind the others.
LEMMA OneMore ==
  ASSUME NEW s \in Seq(Events), NEW e \in Events, Distinct(s), e \notin Elems(s)
  PROVE  /\ Append(s, e) \in Seq(Events) /\ Distinct(Append(s, e)) /\ Elems(Append(s, e)) = Elems(s) \cup {e}
         /\ <<e>> \o s \in Seq(Events) /\ Distinct(<<e>> \o s) /\ Elems(<<e>> \o s) = Elems(s) \cup {e}
<1>1. <<e>> \in Seq(Events) /\ Len(<<e>>) = 1 /\ <<e>>[1] = e /\ DOMAIN <<e>> = 1..1
  OBVIOUS
<1>2. PICK o : o = <<e>>
  OBVIOUS
<1>3. o \in Seq(Events) /\ Elems(o) = {e} /\ Distinct(o)
  BY <1>1, <1>2 DEF Elems, Distinct
<1>4. Append(s, e) = s \o o
  BY <1>2, AppendIsConcat
<1>5. s \o o \in Seq(Events) /\ Distinct(s \o o) /\ Elems(s \o o) = Elems(s) \cup {e}
  BY <1>3, ConcatElems
<1>6. o \o s \in Seq(Events) /\ Distinct(o \o s) /\ Elems(o \o s) = Elems(s) \cup {e}
  BY <1>3, ConcatElems
<1> QED BY <1>2, <1>4, <1>5, <1>6

-----------------------------------------------------------------------------
(* Batches *)

\* The longest prefix exists: it ends before the first event that is not in S.
LEMMA PrefixIn ==
  ASSUME NEW s \in Seq(Events), NEW n \in Nat, NEW S
  PROVE  LET k == Prefix(s, n, S)
         IN  k \in 0..Len(s) /\ k <= n /\ \A i \in 1..k : s[i] \in S
<1> DEFINE P(k) == /\ k <= n
                   /\ \A i \in 1..k : s[i] \in S
                   /\ k = Len(s) \/ k = n \/ s[k + 1] \notin S
           T == {k \in 0..Len(s) : k <= n /\ (k = Len(s) \/ k = n \/ s[k + 1] \notin S)}
<1>1. Len(s) \in Nat
  OBVIOUS
<1>2. T \in SUBSET Nat /\ T # {}
  <2>1. CASE n <= Len(s)
    BY <1>1, <2>1
  <2>2. CASE n > Len(s)
    BY <1>1, <2>2
  <2> QED BY <1>1, <2>1, <2>2
<1> HIDE DEF T
<1>3. PICK k \in T : \A y \in T : k <= y
  BY <1>2, Least
<1>4. k \in 0..Len(s) /\ k <= n /\ (k = Len(s) \/ k = n \/ s[k + 1] \notin S)
  BY <1>3 DEF T
<1>5. ASSUME NEW i \in 1..k PROVE s[i] \in S
  <2>1. i - 1 \notin T /\ i - 1 \in 0..Len(s) /\ i - 1 <= n /\ i - 1 # Len(s) /\ i - 1 # n /\ (i - 1) + 1 = i
    BY <1>1, <1>3, <1>4
  <2> QED BY <2>1 DEF T
<1>6. \E m \in 0..Len(s) : P(m)
  BY <1>4, <1>5
<1>7. Prefix(s, n, S) \in 0..Len(s) /\ P(Prefix(s, n, S))
  BY <1>6 DEF Prefix
<1> QED BY <1>7

\* A batch takes at least one event, and in the parent runtime only events of
\* the thread of the first one.
LEMMA Drained ==
  ASSUME NEW s \in Seq(Events), s # <<>>, NEW isolated \in BOOLEAN
  PROVE  /\ DrainCount(s, isolated) \in 1..Len(s)
         /\ isolated => \A i \in 1..DrainCount(s, isolated) : ThreadOf[s[i]] = ThreadOf[s[1]]
<1>0. PICK S : S = IF isolated THEN {e \in Events : ThreadOf[e] = ThreadOf[s[1]]} ELSE Events
  OBVIOUS
<1>1. PICK n : n = Prefix(s, MaxBatch, S)
  OBVIOUS
<1>2. PICK k : k = Prefix(s, n, Events \ Kickoffs)
  OBVIOUS
<1>3. Len(s) \in Nat /\ Len(s) > 0 /\ MaxBatch \in Nat
  BY QueueAssumption
<1>4. n \in 0..Len(s) /\ \A i \in 1..n : s[i] \in S
  BY <1>1, <1>3, PrefixIn
<1>5. k \in 0..Len(s) /\ k <= n
  BY <1>2, <1>4, PrefixIn
<1>6. DrainCount(s, isolated) = IF k = 0 THEN 1 ELSE k
  BY <1>0, <1>1, <1>2 DEF DrainCount
<1>7. isolated => \A i \in 1..k : ThreadOf[s[i]] = ThreadOf[s[1]]
  BY <1>0, <1>4, <1>5
<1>8. CASE k = 0
  BY <1>3, <1>6, <1>8
<1>9. CASE k # 0
  BY <1>3, <1>5, <1>6, <1>7, <1>9
<1> QED BY <1>8, <1>9

\* In a sorted sequence s[i] stays in front of s[j].
Precedes(s, i, j) ==
  CreatedAt[s[i]] < CreatedAt[s[j]] \/ (CreatedAt[s[i]] = CreatedAt[s[j]] /\ i <= j)

\* The place of each event in the order of created_at is a permutation.
LEMMA Ranks ==
  ASSUME NEW s \in Seq(Events)
  PROVE  /\ \A i \in DOMAIN s : Before(s, i) \in DOMAIN s
         /\ \A i, j \in DOMAIN s : Precedes(s, i, j) /\ i # j => Before(s, i) < Before(s, j)
         /\ \A i, j \in DOMAIN s : Before(s, i) = Before(s, j) => i = j
         /\ \A k \in DOMAIN s : \E i \in DOMAIN s : Before(s, i) = k
<1> DEFINE B(i) == {j \in DOMAIN s : Precedes(s, j, i)}
           n == Len(s)
<1>1. n \in Nat /\ DOMAIN s = 1..n /\ \A i \in DOMAIN s : CreatedAt[s[i]] \in Nat
  <2>1. CreatedAt \in [Events -> Nat]
    BY QueueAssumption
  <2>2. n \in Nat /\ DOMAIN s = 1..n /\ \A i \in DOMAIN s : s[i] \in Events
    OBVIOUS
  <2> QED BY <2>1, <2>2
<1>2. \A i \in DOMAIN s : Before(s, i) = Cardinality(B(i))
  BY DEF Before, Precedes
<1>3. IsFiniteSet(1..n) /\ Cardinality(1..n) = n
  BY <1>1, FS_Interval
<1> HIDE DEF n
<1>4. \A i \in DOMAIN s : /\ B(i) \in SUBSET (1..n) /\ i \in B(i)
                         /\ \A j : j \in B(i) <=> j \in DOMAIN s /\ Precedes(s, j, i)
  BY <1>1 DEF Precedes
<1> HIDE DEF B
<1>5. \A i, j, k \in DOMAIN s : Precedes(s, i, j) /\ Precedes(s, j, k) => Precedes(s, i, k)
  BY <1>1 DEF Precedes
<1>6. \A i, j \in DOMAIN s : i # j => (Precedes(s, i, j) <=> ~ Precedes(s, j, i))
  BY <1>1 DEF Precedes
<1>7. \A i \in DOMAIN s : IsFiniteSet(B(i)) /\ Cardinality(B(i)) \in Nat /\ Cardinality(B(i)) <= n
  BY <1>3, <1>4, FS_Subset, FS_CardinalityType
<1>8. \A i, j \in DOMAIN s : Precedes(s, i, j) /\ i # j => Cardinality(B(i)) < Cardinality(B(j))
  <2> SUFFICES ASSUME NEW i \in DOMAIN s, NEW j \in DOMAIN s, Precedes(s, i, j), i # j
               PROVE  Cardinality(B(i)) < Cardinality(B(j))
    OBVIOUS
  <2>1. B(i) \in SUBSET B(j)
    BY <1>4, <1>5
  <2>2. j \in B(j) /\ j \notin B(i)
    BY <1>4, <1>6
  <2>3. PICK X, Y : X = B(i) /\ Y = B(j)
    OBVIOUS
  <2>4. Cardinality(X) <= Cardinality(Y) /\ Cardinality(X) # Cardinality(Y)
    <3>1. X \in SUBSET Y /\ X # Y /\ IsFiniteSet(Y)
      BY <1>7, <2>1, <2>2, <2>3
    <3> QED BY ONLY <3>1, FS_Subset
  <2>5. Cardinality(X) \in Nat /\ Cardinality(Y) \in Nat
    BY <1>7, <2>3
  <2> QED BY <2>3, <2>4, <2>5
<1>9. \A i \in DOMAIN s : Cardinality(B(i)) >= 1
  <2> SUFFICES ASSUME NEW i \in DOMAIN s PROVE Cardinality(B(i)) # 0
    BY <1>7
  <2>1. PICK X : X = B(i)
    OBVIOUS
  <2>2. IsFiniteSet(X) /\ X # {}
    BY <1>4, <1>7, <2>1
  <2>3. Cardinality(X) # 0
    BY <2>2, FS_EmptySet
  <2> QED BY <2>1, <2>3
<1>10. \A i \in DOMAIN s : Before(s, i) \in DOMAIN s
  BY <1>1, <1>2, <1>7, <1>9
<1>11. \A i, j \in DOMAIN s : Precedes(s, i, j) /\ i # j => Before(s, i) < Before(s, j)
  BY <1>2, <1>8
<1>12. \A i, j \in DOMAIN s : Before(s, i) = Before(s, j) => i = j
  <2> SUFFICES ASSUME NEW i \in DOMAIN s, NEW j \in DOMAIN s, Before(s, i) = Before(s, j), i # j
               PROVE  FALSE
    OBVIOUS
  <2>1. Before(s, i) \in Nat /\ Before(s, j) \in Nat
    BY <1>1, <1>10
  <2> QED BY <1>6, <1>11, <2>1
<1>13. \A k \in DOMAIN s : \E i \in DOMAIN s : Before(s, i) = k
  <2>1. PICK f : f = [i \in 1..n |-> Before(s, i)]
    OBVIOUS
  <2>2. f \in Injection(1..n, 1..n)
    BY <1>1, <1>10, <1>12, <2>1 DEF Injection, IsInjective
  <2>3. f \in Surjection(1..n, 1..n)
    BY <1>3, <2>2, FS_Injection
  <2> QED BY <1>1, <2>1, <2>3 DEF Surjection
<1> QED BY <1>10, <1>11, <1>12, <1>13

\* The sort of a batch by created_at: a permutation of its events, in the order
\* of created_at, and of their arrival where that is the same.
THEOREM SortIsStable ==
  ASSUME NEW s \in Seq(Events)
  PROVE  LET u == SortByCreatedAt(s)
         IN  /\ u \in Seq(Events) /\ Len(u) = Len(s) /\ Elems(u) = Elems(s)
             /\ Distinct(s) => Distinct(u)
             /\ \E p \in Bijection(DOMAIN s, DOMAIN s) :
                    /\ \A k \in DOMAIN s : u[k] = s[p[k]]
                    /\ \A k, m \in DOMAIN s : k < m => Precedes(s, p[k], p[m])
<1>1. PICK p : p = [k \in DOMAIN s |-> CHOOSE i \in DOMAIN s : Before(s, i) = k]
  OBVIOUS
<1>2. \A k \in DOMAIN s : p[k] \in DOMAIN s /\ Before(s, p[k]) = k
  BY <1>1, Ranks
<1>3. \A i \in DOMAIN s : Before(s, i) \in DOMAIN s /\ p[Before(s, i)] = i
  BY <1>2, Ranks
<1>4. p \in Bijection(DOMAIN s, DOMAIN s)
  <2>1. p \in [DOMAIN s -> DOMAIN s]
    BY <1>1, <1>2
  <2>2. \A k, m \in DOMAIN s : p[k] = p[m] => k = m
    BY <1>2
  <2>3. \A i \in DOMAIN s : \E k \in DOMAIN s : p[k] = i
    BY <1>3
  <2> QED BY <2>1, <2>2, <2>3 DEF Bijection, Injection, Surjection, IsInjective
<1>5. \A k, m \in DOMAIN s : k < m => Precedes(s, p[k], p[m])
  <2> SUFFICES ASSUME NEW k \in DOMAIN s, NEW m \in DOMAIN s, k < m, ~ Precedes(s, p[k], p[m]) PROVE FALSE
    OBVIOUS
  <2>1. p[k] \in DOMAIN s /\ p[m] \in DOMAIN s /\ k \in Nat /\ m \in Nat
    <3>1. DOMAIN s = 1..Len(s) /\ Len(s) \in Nat
      OBVIOUS
    <3>2. \A j \in DOMAIN s : j \in Nat
      BY <3>1
    <3> QED BY <1>2, <3>2
  <2>2. Precedes(s, p[m], p[k]) /\ p[m] # p[k]
    <3>1. CreatedAt[s[p[k]]] \in Nat /\ CreatedAt[s[p[m]]] \in Nat /\ p[k] \in Nat /\ p[m] \in Nat
      <4>1. \A i \in DOMAIN s : i \in Nat /\ s[i] \in Events
        OBVIOUS
      <4> QED BY <2>1, <4>1, QueueAssumption
    <3> QED BY <3>1 DEF Precedes
  <2>3. Before(s, p[m]) < Before(s, p[k])
    BY <2>1, <2>2, Ranks
  <2> QED BY <1>2, <2>1, <2>3
<1>6. PICK u : u = SortByCreatedAt(s)
  OBVIOUS
<1>7. u = [k \in DOMAIN s |-> s[p[k]]]
  BY <1>1, <1>6 DEF SortByCreatedAt
<1>8. Len(s) \in Nat /\ DOMAIN s = 1..Len(s) /\ \A i \in DOMAIN s : s[i] \in Events
  OBVIOUS
<1>9. u \in Seq(Events) /\ Len(u) = Len(s) /\ DOMAIN u = DOMAIN s
  <2>1. \A k \in 1..Len(s) : s[p[k]] \in Events
    BY <1>2, <1>8
  <2>2. u = [k \in 1..Len(s) |-> s[p[k]]]
    BY <1>7, <1>8
  <2> QED BY <1>8, <2>1, <2>2
<1>10. Elems(u) = Elems(s)
  BY <1>2, <1>3, <1>7, <1>9 DEF Elems
<1>11. Distinct(s) => Distinct(u)
  BY <1>2, <1>7, <1>9 DEF Distinct
<1> QED BY <1>4, <1>5, <1>6, <1>7, <1>9, <1>10, <1>11

-----------------------------------------------------------------------------
(* Queues *)

\* No event is held twice for channel c.
Tidy(p, c) ==
  /\ Distinct(p.queues[c]) /\ Distinct(p.withheld[c]) /\ Distinct(p.cancelled[c])
  /\ Elems(p.queues[c]) \cap Elems(p.withheld[c]) = {}
  /\ Elems(p.queues[c]) \cap Elems(p.cancelled[c]) = {}
  /\ Elems(p.withheld[c]) \cap Elems(p.cancelled[c]) = {}

\* p and r hold the same for channel c.
Same(p, r, c) ==
  r.queues[c] = p.queues[c] /\ r.withheld[c] = p.withheld[c] /\ r.cancelled[c] = p.cancelled[c]

\* H is what the depth cap leaves of X.
Fits(H, X) == H \subseteq X /\ (H = X \/ Cardinality(X) > MaxPending)

\* The events of a sequence that holds none twice, counted.
LEMMA CountDistinct ==
  ASSUME NEW s \in Seq(Events)
  PROVE  /\ IsFiniteSet(Elems(s))
         /\ Distinct(s) <=> Cardinality(Elems(s)) = Len(s)
<1>1. Len(s) \in Nat /\ DOMAIN s = 1..Len(s) /\ s = [i \in 1..Len(s) |-> s[i]]
  OBVIOUS
<1>2. IsFiniteSet(1..Len(s)) /\ Cardinality(1..Len(s)) = Len(s)
  <2>1. PICK n \in Nat : n = Len(s)
    BY <1>1
  <2>2. IsFiniteSet(1..n) /\ Cardinality(1..n) = n
    BY FS_Interval
  <2> QED BY <2>1, <2>2
<1>3. s \in Surjection(1..Len(s), Elems(s))
  BY <1>1 DEF Surjection, Elems
<1>4. /\ IsFiniteSet(Elems(s))
      /\ Cardinality(Elems(s)) = Cardinality(1..Len(s)) <=> s \in Injection(1..Len(s), Elems(s))
  BY <1>2, <1>3, FS_Surjection
<1>5. s \in Injection(1..Len(s), Elems(s)) <=> Distinct(s)
  BY <1>1, <1>3 DEF Injection, Surjection, IsInjective, Distinct
<1> QED BY <1>2, <1>4, <1>5

\* Channels hold finitely many events.
LEMMA HeldFinite ==
  ASSUME NEW p \in Queues, NEW c \in Channels
  PROVE  /\ p.queues[c] \in Seq(Events) /\ p.withheld[c] \in Seq(Events) /\ p.cancelled[c] \in Seq(Events)
         /\ HeldFor(p, c) \in SUBSET Events /\ IsFiniteSet(HeldFor(p, c))
<1>1. p.queues[c] \in Seq(Events) /\ p.withheld[c] \in Seq(Events) /\ p.cancelled[c] \in Seq(Events)
  BY DEF Queues
<1>2. IsFiniteSet(Elems(p.queues[c])) /\ IsFiniteSet(Elems(p.withheld[c])) /\ IsFiniteSet(Elems(p.cancelled[c]))
  BY <1>1, CountDistinct
<1>3. IsFiniteSet(HeldFor(p, c))
  BY <1>2, FS_Union DEF HeldFor
<1> QED BY <1>1, <1>3, SeqElems DEF HeldFor

\* A set that holds more events than the cap.
LEMMA Overfull ==
  ASSUME NEW X, IsFiniteSet(X), NEW Y \in SUBSET X, Cardinality(Y) > MaxPending
  PROVE  Cardinality(X) > MaxPending
<1>1. IsFiniteSet(Y) /\ Cardinality(Y) <= Cardinality(X)
  BY FS_Subset
<1>2. Cardinality(X) \in Nat /\ Cardinality(Y) \in Nat
  BY <1>1, FS_CardinalityType
<1> QED BY <1>1, <1>2, QueueAssumption

\* Events put back in front of a channel: the newest give way, beyond the cap.
LEMMA InFront ==
  ASSUME NEW u \in Seq(Events), NEW s \in Seq(Events), Distinct(u), Distinct(s), Elems(u) \cap Elems(s) = {}
  PROVE  /\ Trim(u \o s) \in Seq(Events) /\ Distinct(Trim(u \o s))
         /\ Fits(Elems(Trim(u \o s)), Elems(u) \cup Elems(s))
<1>1. PICK v : v = u \o s
  OBVIOUS
<1>2. v \in Seq(Events) /\ Elems(v) = Elems(u) \cup Elems(s) /\ Distinct(v)
  BY <1>1, ConcatElems
<1>3. Trim(v) \in Seq(Events) /\ Elems(Trim(v)) \subseteq Elems(v) /\ Distinct(Trim(v))
  BY <1>2, TrimElems
<1>4. CASE Len(v) > MaxPending
  <2>1. Cardinality(Elems(v)) = Len(v)
    BY <1>2, CountDistinct
  <2> QED BY <1>1, <1>2, <1>3, <1>4, <2>1 DEF Fits
<1>5. CASE ~ (Len(v) > MaxPending)
  <2>1. Trim(v) = SubSeq(v, 1, Len(v)) /\ Len(v) \in Nat
    BY <1>2, <1>5 DEF Trim
  <2>2. Trim(v) = v
    BY <1>2, <2>1, SubSeqFull
  <2> QED BY <1>1, <1>2, <1>3, <2>2 DEF Fits
<1> QED BY <1>4, <1>5

\* Parts of what a channel holds that each fit, make a whole that fits.
LEMMA FitsWith ==
  ASSUME NEW H, NEW X, NEW Y, IsFiniteSet(X \cup Y), Fits(H, X)
  PROVE  Fits(H \cup Y, X \cup Y)
BY Overfull DEF Fits

\* The cap applied twice.
LEMMA FitsTwice ==
  ASSUME NEW H, NEW X, NEW Y, IsFiniteSet(Y), Fits(H, X), Fits(X, Y)
  PROVE  Fits(H, Y)
BY Overfull DEF Fits

\* push: the event is the newest of its channel; the oldest one gives way.
LEMMA PushHolds ==
  ASSUME NEW p \in Queues, NEW c \in Channels, NEW e \in Events, Tidy(p, c), e \notin HeldFor(p, c),
         NEW r, r = Push(p, c, e)
  PROVE  /\ r \in Queues /\ r.inFlight = p.inFlight /\ r.overdue = p.overdue
         /\ Tidy(r, c) /\ Fits(HeldFor(r, c), HeldFor(p, c) \cup {e})
         /\ \A d \in Channels : d # c => Same(p, r, d)
         /\ e \in Elems(r.queues[c])
<1>1. PICK s : s = p.queues[c]
  OBVIOUS
<1>2. PICK kept : kept = IF Len(s) >= MaxPending THEN Tail(s) ELSE s
  OBVIOUS
<1>3. s \in Seq(Events) /\ Distinct(s) /\ Len(s) \in Nat /\ DOMAIN s = 1..Len(s) /\ e \notin Elems(s)
  <2>1. s \in Seq(Events)
    BY <1>1, HeldFinite
  <2> QED BY <1>1, <2>1 DEF Tidy, HeldFor
<1>4. kept \in Seq(Events) /\ Distinct(kept) /\ Elems(kept) \subseteq Elems(s)
  <2>1. CASE Len(s) >= MaxPending
    <3>1. Len(s) >= 1 /\ s # <<>>
      BY <1>3, <2>1, QueueAssumption
    <3>2. kept = SubSeq(s, 2, Len(s)) /\ 2 \in 1..(Len(s) + 1) /\ Len(s) \in 0..Len(s)
      BY <1>2, <1>3, <2>1, <3>1, TailIsSubSeq
    <3>3. kept \in Seq(Events) /\ Elems(kept) = {s[i] : i \in 2..Len(s)} /\ Distinct(kept)
      BY <1>3, <3>2, PartElems
    <3> QED BY <1>3, <3>3, SeqElems
  <2>2. CASE ~ (Len(s) >= MaxPending)
    BY <1>2, <1>3, <2>2
  <2> QED BY <2>1, <2>2
<1>5. PICK t : t = Append(kept, e)
  OBVIOUS
<1>6. t \in Seq(Events) /\ Distinct(t) /\ Elems(t) = Elems(kept) \cup {e}
  BY <1>3, <1>4, <1>5, OneMore
<1>7. r = [p EXCEPT !.queues[c] = t]
  BY <1>1, <1>2, <1>5 DEF Push
<1>8. /\ r \in Queues /\ r.inFlight = p.inFlight /\ r.overdue = p.overdue
      /\ r.queues = [p.queues EXCEPT ![c] = t] /\ r.withheld = p.withheld /\ r.cancelled = p.cancelled
  <2>1. PICK z : z = [p.queues EXCEPT ![c] = t]
    OBVIOUS
  <2>2. z \in [Channels -> Seq(Events)]
    <3>1. p.queues \in [Channels -> Seq(Events)]
      BY DEF Queues
    <3> QED BY <1>6, <2>1, <3>1
  <2>3. r = [p EXCEPT !.queues = z]
    BY <1>7, <2>1
  <2> QED BY <2>1, <2>2, <2>3 DEF Queues
<1>9. /\ r.queues[c] = t /\ r.withheld[c] = p.withheld[c] /\ r.cancelled[c] = p.cancelled[c]
      /\ \A d \in Channels : d # c => Same(p, r, d)
  BY <1>8 DEF Same, Queues
<1>10. Tidy(r, c)
  BY <1>1, <1>4, <1>6, <1>9 DEF Tidy, HeldFor
<1>11. HeldFor(r, c) \subseteq HeldFor(p, c) \cup {e}
  BY <1>1, <1>4, <1>6, <1>9 DEF HeldFor
<1>12. HeldFor(r, c) = HeldFor(p, c) \cup {e} \/ Cardinality(HeldFor(p, c) \cup {e}) > MaxPending
  <2>1. CASE Len(s) >= MaxPending
    <3>1. IsFiniteSet(HeldFor(p, c)) /\ IsFiniteSet(HeldFor(p, c) \cup {e})
      BY HeldFinite, FS_AddElement
    <3>2. IsFiniteSet(Elems(s)) /\ Cardinality(Elems(s)) = Len(s)
      BY <1>3, CountDistinct
    <3>3. Cardinality(Elems(s) \cup {e}) = Len(s) + 1
      BY <1>3, <3>2, FS_AddElement
    <3>4. (Elems(s) \cup {e}) \in SUBSET (HeldFor(p, c) \cup {e}) /\ Cardinality(Elems(s) \cup {e}) > MaxPending
      BY <1>1, <1>3, <2>1, <3>3, QueueAssumption DEF HeldFor
    <3> QED BY <3>1, <3>4, Overfull
  <2>2. CASE ~ (Len(s) >= MaxPending)
    BY <1>1, <1>2, <1>6, <1>9, <2>2 DEF HeldFor
  <2> QED BY <2>1, <2>2
<1> QED BY <1>6, <1>8, <1>9, <1>10, <1>11, <1>12 DEF Fits

\* recover_withheld_for_expired_channel and the backstop: what was withheld goes
\* back to the front of its channel, which is no longer in flight.
LEMMA ExpireHolds ==
  ASSUME NEW p \in Queues, \A c \in Channels : Tidy(p, c), NEW r, r = ExpireOverdue(p)
  PROVE  /\ r \in Queues /\ r.inFlight = p.inFlight \ p.overdue /\ r.overdue = {}
         /\ r.cancelled = p.cancelled /\ r.flat = p.flat /\ r.paused = p.paused
         /\ \A c \in Channels : Tidy(r, c) /\ Fits(HeldFor(r, c), HeldFor(p, c))
<1> DEFINE E == p.overdue
           Back(c) == Trim(p.withheld[c] \o p.queues[c])
<1>1. r = [p EXCEPT !.queues = [c \in Channels |-> IF c \in E /\ p.withheld[c] # <<>> THEN Back(c) ELSE p.queues[c]],
                    !.withheld = [c \in Channels |-> IF c \in E THEN <<>> ELSE p.withheld[c]],
                    !.inFlight = p.inFlight \ E, !.overdue = {}]
  BY DEF ExpireOverdue, RecoverWithheld, Queues
<1>2. \A c \in Channels : /\ Back(c) \in Seq(Events) /\ Distinct(Back(c))
                          /\ Fits(Elems(Back(c)), Elems(p.withheld[c]) \cup Elems(p.queues[c]))
  BY HeldFinite, InFront DEF Tidy
<1> HIDE DEF Back
<1>3. /\ r.queues = [c \in Channels |-> IF c \in E /\ p.withheld[c] # <<>> THEN Back(c) ELSE p.queues[c]]
      /\ r.withheld = [c \in Channels |-> IF c \in E THEN <<>> ELSE p.withheld[c]]
      /\ r.inFlight = p.inFlight \ p.overdue /\ r.overdue = {}
      /\ r.cancelled = p.cancelled /\ r.flat = p.flat /\ r.paused = p.paused
  BY <1>1 DEF Queues
<1>4. r.queues \in [Channels -> Seq(Events)] /\ r.withheld \in [Channels -> Seq(Events)]
  <2>1. \A c \in Channels : p.queues[c] \in Seq(Events) /\ p.withheld[c] \in Seq(Events) /\ Back(c) \in Seq(Events)
    BY <1>2, HeldFinite
  <2>2. <<>> \in Seq(Events)
    OBVIOUS
  <2> QED BY <1>3, <2>1, <2>2
<1>5. r \in Queues
  BY <1>1, <1>3, <1>4 DEF Queues
<1>6. ASSUME NEW c \in Channels PROVE Tidy(r, c) /\ Fits(HeldFor(r, c), HeldFor(p, c))
  <2>1. Elems(<<>>) = {} /\ Distinct(<<>>)
    BY DEF Elems, Distinct
  <2>2. p.withheld[c] = <<>> => Elems(p.withheld[c]) = {}
    BY <2>1
  <2>3. CASE c \in E /\ p.withheld[c] # <<>>
    <3>1. r.queues[c] = Back(c) /\ r.withheld[c] = <<>> /\ r.cancelled[c] = p.cancelled[c]
      BY <1>3, <2>3
    <3>2. Tidy(r, c)
      BY <1>2, <2>1, <3>1 DEF Tidy, Fits
    <3>3. /\ HeldFor(r, c) = Elems(Back(c)) \cup Elems(p.cancelled[c])
          /\ HeldFor(p, c) = (Elems(p.withheld[c]) \cup Elems(p.queues[c])) \cup Elems(p.cancelled[c])
      BY <2>1, <3>1 DEF HeldFor
    <3>4. PICK H, X, Y : /\ H = Elems(Back(c)) /\ X = Elems(p.withheld[c]) \cup Elems(p.queues[c])
                         /\ Y = Elems(p.cancelled[c])
      OBVIOUS
    <3>5. Fits(H, X) /\ IsFiniteSet(X \cup Y)
      BY <1>2, <3>3, <3>4, HeldFinite
    <3>6. Fits(H \cup Y, X \cup Y)
      BY <3>5, FitsWith
    <3> QED BY <3>2, <3>3, <3>4, <3>6
  <2>4. CASE ~ (c \in E /\ p.withheld[c] # <<>>)
    <3>1. r.queues[c] = p.queues[c] /\ r.withheld[c] = p.withheld[c] /\ r.cancelled[c] = p.cancelled[c]
      BY <1>3, <2>4
    <3> QED BY <3>1 DEF Tidy, Fits, HeldFor
  <2> QED BY <2>3, <2>4
<1> QED BY <1>3, <1>5, <1>6

\* Parent runtime: what was interrupted goes back to the front, all of it.
LEMMA ReuniteHolds ==
  ASSUME NEW p \in Queues, \A c \in Channels : Tidy(p, c), NEW r, r = Reunite(p)
  PROVE  /\ r \in Queues /\ r.inFlight = p.inFlight /\ r.overdue = p.overdue /\ r.flat = p.flat /\ r.paused = p.paused
         /\ \A c \in Channels : Tidy(r, c) /\ HeldFor(r, c) = HeldFor(p, c) /\ r.cancelled[c] = <<>>
<1>1. r = [p EXCEPT !.queues = [c \in Channels |-> p.cancelled[c] \o p.queues[c]],
                    !.cancelled = [c \in Channels |-> <<>>]]
  BY DEF Reunite
<1>2. \A c \in Channels : /\ p.cancelled[c] \o p.queues[c] \in Seq(Events)
                          /\ Distinct(p.cancelled[c] \o p.queues[c])
                          /\ Elems(p.cancelled[c] \o p.queues[c]) = Elems(p.cancelled[c]) \cup Elems(p.queues[c])
  <2> TAKE c \in Channels
  <2>1. PICK u, v : u = p.cancelled[c] /\ v = p.queues[c]
    OBVIOUS
  <2>2. u \in Seq(Events) /\ v \in Seq(Events) /\ Distinct(u) /\ Distinct(v) /\ Elems(u) \cap Elems(v) = {}
    BY <2>1, HeldFinite DEF Tidy
  <2>3. u \o v \in Seq(Events) /\ Distinct(u \o v) /\ Elems(u \o v) = Elems(u) \cup Elems(v)
    BY ONLY <2>2, ConcatElems
  <2> QED BY <2>1, <2>3
<1>3. /\ r.queues = [c \in Channels |-> p.cancelled[c] \o p.queues[c]] /\ r.withheld = p.withheld
      /\ r.cancelled = [c \in Channels |-> <<>>] /\ r.inFlight = p.inFlight /\ r.overdue = p.overdue
      /\ r.flat = p.flat /\ r.paused = p.paused
  BY <1>1 DEF Queues
<1>4. r.queues \in [Channels -> Seq(Events)] /\ r.cancelled \in [Channels -> Seq(Events)]
  BY <1>2, <1>3
<1>5. r \in Queues
  BY <1>1, <1>3, <1>4 DEF Queues
<1>6. Elems(<<>>) = {} /\ Distinct(<<>>)
  BY DEF Elems, Distinct
<1>7. ASSUME NEW c \in Channels PROVE Tidy(r, c) /\ HeldFor(r, c) = HeldFor(p, c) /\ r.cancelled[c] = <<>>
  <2>1. /\ r.queues[c] = p.cancelled[c] \o p.queues[c] /\ r.withheld[c] = p.withheld[c] /\ r.cancelled[c] = <<>>
    BY <1>3
  <2> QED BY <1>2, <1>6, <2>1 DEF Tidy, HeldFor
<1> QED BY <1>3, <1>5, <1>7

\* flush_next chooses a channel that is not in flight and has something to flush:
\* there is one whose head has waited longest.
LEMMA FlushChoice ==
  ASSUME NEW p \in Queues, NEW c \in Flushable(p)
  PROVE  /\ c \in Channels /\ c \notin p.inFlight
         /\ c \in Pending(p) => p.queues[c] # <<>>
         /\ c \notin Pending(p) => p.cancelled[c] # <<>>
<1>1. CASE Pending(p) # {}
  <2>1. \A d \in Pending(p) : d \in Channels /\ Head(p.queues[d]) \in Nat
    <3> TAKE d \in Pending(p)
    <3>1. d \in Channels /\ p.queues[d] # <<>>
      BY DEF Pending
    <3>2. p.queues[d] \in Seq(Events)
      BY <3>1, HeldFinite
    <3>3. Head(p.queues[d]) \in Events
      BY <3>1, <3>2
    <3> QED BY <3>1, <3>3, QueueAssumption
  <2>2. PICK T : T = {Head(p.queues[d]) : d \in Pending(p)}
    OBVIOUS
  <2>3. T \in SUBSET Nat /\ T # {}
    BY <1>1, <2>1, <2>2
  <2>4. PICK x \in T : \A y \in T : x <= y
    BY <2>3, Least
  <2>5. \E d \in Pending(p) : \A g \in Pending(p) : Head(p.queues[d]) <= Head(p.queues[g])
    BY <2>2, <2>4
  <2>6. Oldest(p) \in Pending(p)
    BY <2>5 DEF Oldest
  <2>7. c = Oldest(p)
    BY <1>1 DEF Flushable
  <2> QED BY <2>6, <2>7 DEF Pending
<1>2. CASE Pending(p) = {}
  BY <1>2 DEF Flushable, Interrupted
<1> QED BY <1>1, <1>2

\* What flush_next drains from its channel and what it leaves there.
LEMMA FlushHolds ==
  ASSUME NEW p \in Queues, NEW c \in Flushable(p), NEW isolated \in BOOLEAN, Tidy(p, c),
         NEW b, b = FlushBatch(p, c, isolated), NEW r, r = Flushed(p, c, isolated)
  PROVE  /\ r \in Queues /\ r.inFlight = p.inFlight \cup {c} /\ r.overdue = p.overdue
         /\ Tidy(r, c) /\ \A d \in Channels : d # c => Same(p, r, d)
         /\ b \in [channel : Channels, events : Seq(Events), cancelled : Seq(Events)] /\ b.channel = c
         /\ Distinct(b.events) /\ Distinct(b.cancelled) /\ Elems(b.events) \cap Elems(b.cancelled) = {}
         /\ HeldFor(p, c) = HeldFor(r, c) \cup Elems(b.events) \cup Elems(b.cancelled)
         /\ HeldFor(r, c) \cap (Elems(b.events) \cup Elems(b.cancelled)) = {}
         /\ isolated /\ p.cancelled[c] = <<>> =>
               \A e, f \in Elems(b.events) \cup Elems(b.cancelled) : ThreadOf[e] = ThreadOf[f]
<1>1. /\ c \in Channels
      /\ c \in Pending(p) => p.queues[c] # <<>>
      /\ c \notin Pending(p) => p.cancelled[c] # <<>>
  BY FlushChoice
<1>2. PICK s, k, n : s = p.queues[c] /\ k = p.cancelled[c] /\ n = DrainCount(s, isolated)
  OBVIOUS
<1>3. s \in Seq(Events) /\ k \in Seq(Events) /\ p.withheld[c] \in Seq(Events)
  BY <1>1, <1>2, HeldFinite
<1>4. Len(s) \in Nat /\ Elems(<<>>) = {} /\ Distinct(<<>>) /\ <<>> \in Seq(Events)
  BY <1>3 DEF Elems, Distinct
<1>5. PICK u, t, m : /\ u = IF c \in Pending(p) THEN SortByCreatedAt(SubSeq(s, 1, n)) ELSE k
                     /\ m = IF c \in Pending(p) THEN k ELSE <<>>
                     /\ t = IF c \in Pending(p) THEN SubSeq(s, n + 1, Len(s)) ELSE s
  OBVIOUS
<1>6. b = [channel |-> c, events |-> u, cancelled |-> m]
  BY <1>2, <1>5 DEF FlushBatch
<1>7. /\ u \in Seq(Events) /\ m \in Seq(Events) /\ t \in Seq(Events)
      /\ Distinct(u) /\ Distinct(m) /\ Distinct(t)
      /\ Elems(u) \cup Elems(m) \cup Elems(t) = Elems(s) \cup Elems(k)
      /\ Elems(u) \cap Elems(m) = {} /\ Elems(u) \cap Elems(t) = {} /\ Elems(m) \cap Elems(t) = {}
      /\ isolated /\ k = <<>> => \A e, f \in Elems(u) \cup Elems(m) : ThreadOf[e] = ThreadOf[f]
  <2>1. Distinct(s) /\ Distinct(k) /\ Elems(s) \cap Elems(k) = {}
    BY <1>2 DEF Tidy
  <2>2. CASE c \in Pending(p)
    <3>1. n \in 1..Len(s) /\ (isolated => \A i \in 1..n : ThreadOf[s[i]] = ThreadOf[s[1]])
      BY <1>1, <1>2, <1>3, <2>2, Drained
    <3>2. n \in 0..Len(s) /\ n + 1 \in 1..(Len(s) + 1) /\ 1 \in 1..(Len(s) + 1) /\ Len(s) \in 0..Len(s)
      BY <1>4, <3>1
    <3>3. PICK v : v = SubSeq(s, 1, n)
      OBVIOUS
    <3>4. v \in Seq(Events) /\ Elems(v) = {s[i] : i \in 1..n} /\ Distinct(v)
      BY <1>3, <2>1, <3>2, <3>3, PartElems
    <3>5. PICK z \in Nat : z = n + 1
      BY <3>1
    <3>6. t = SubSeq(s, z, Len(s)) /\ z \in 1..(Len(s) + 1)
      BY <1>5, <2>2, <3>2, <3>5
    <3>7. t \in Seq(Events) /\ Elems(t) = {s[i] : i \in z..Len(s)} /\ Distinct(t)
      BY <1>3, <2>1, <3>2, <3>6, PartElems
    <3>8. u = SortByCreatedAt(v) /\ m = k
      BY <1>5, <2>2, <3>3
    <3>9. u \in Seq(Events) /\ Elems(u) = Elems(v) /\ Distinct(u)
      BY <3>4, <3>8, SortIsStable
    <3>10. Elems(s) = {s[i] : i \in 1..Len(s)}
      BY <1>3 DEF Elems
    <3>11. Elems(v) \cup Elems(t) = Elems(s)
      <4>1. \A i \in 1..Len(s) : i \in 1..n \/ i \in z..Len(s)
        BY <1>4, <3>1, <3>5
      <4>2. (\A i \in 1..n : i \in 1..Len(s)) /\ (\A i \in z..Len(s) : i \in 1..Len(s))
        BY <1>4, <3>1, <3>5
      <4> QED BY <3>4, <3>7, <3>10, <4>1, <4>2
    <3>12. Elems(v) \cap Elems(t) = {}
      <4>1. \A i \in 1..n, j \in z..Len(s) : i # j /\ i \in DOMAIN s /\ j \in DOMAIN s
        BY <1>3, <1>4, <3>1, <3>5
      <4>2. \A i \in 1..n, j \in z..Len(s) : s[i] # s[j]
        BY <2>1, <4>1 DEF Distinct
      <4> QED BY <3>4, <3>7, <4>2
    <3>13. isolated => \A e, f \in Elems(v) : ThreadOf[e] = ThreadOf[f]
      BY <3>1, <3>4
    <3>14. k = <<>> => Elems(k) = {}
      BY <1>4
    <3> QED BY <1>3, <2>1, <3>7, <3>8, <3>9, <3>11, <3>12, <3>13, <3>14
  <2>3. CASE c \notin Pending(p)
    BY <1>1, <1>2, <1>3, <1>4, <1>5, <2>1, <2>3
  <2> QED BY <2>2, <2>3
<1>8. r = [p EXCEPT !.queues[c] = t, !.cancelled[c] = <<>>, !.inFlight = p.inFlight \cup {c}]
  BY <1>2, <1>5 DEF Flushed
<1>9. PICK y, z, F : y = [p.queues EXCEPT ![c] = t] /\ z = [p.cancelled EXCEPT ![c] = <<>>] /\ F = p.inFlight \cup {c}
  OBVIOUS
<1>10. r = [p EXCEPT !.queues = y, !.cancelled = z, !.inFlight = F]
  BY <1>8, <1>9
<1>11. y \in [Channels -> Seq(Events)] /\ z \in [Channels -> Seq(Events)] /\ F \in SUBSET Channels
  <2>1. p.queues \in [Channels -> Seq(Events)] /\ p.cancelled \in [Channels -> Seq(Events)] /\ p.inFlight \in SUBSET Channels
    BY DEF Queues
  <2> QED BY <1>1, <1>4, <1>7, <1>9, <2>1
<1>12. /\ r \in Queues /\ r.inFlight = F /\ r.overdue = p.overdue
       /\ r.queues = y /\ r.withheld = p.withheld /\ r.cancelled = z
  BY <1>10, <1>11 DEF Queues
<1>13. /\ r.queues[c] = t /\ r.withheld[c] = p.withheld[c] /\ r.cancelled[c] = <<>>
       /\ \A d \in Channels : d # c => Same(p, r, d)
  BY <1>1, <1>9, <1>12 DEF Same, Queues
<1>14. Tidy(r, c)
  BY <1>2, <1>4, <1>7, <1>13 DEF Tidy
<1>15. /\ HeldFor(r, c) = Elems(t) \cup Elems(p.withheld[c])
       /\ HeldFor(p, c) = Elems(s) \cup Elems(p.withheld[c]) \cup Elems(k)
       /\ Elems(p.withheld[c]) \cap (Elems(s) \cup Elems(k)) = {}
  BY <1>2, <1>4, <1>13 DEF HeldFor, Tidy
<1>16. b.events = u /\ b.cancelled = m /\ b.channel = c
  BY <1>6
<1>17. b \in [channel : Channels, events : Seq(Events), cancelled : Seq(Events)]
  BY <1>1, <1>6, <1>7
<1>18. /\ HeldFor(p, c) = HeldFor(r, c) \cup Elems(u) \cup Elems(m)
       /\ HeldFor(r, c) \cap (Elems(u) \cup Elems(m)) = {}
  BY <1>7, <1>15
<1> QED BY <1>2, <1>7, <1>9, <1>12, <1>13, <1>14, <1>16, <1>17, <1>18

\* r holds for channel c what fits of X, and for the other channels what p holds.
Puts(p, r, c, X) ==
  /\ r \in Queues /\ r.inFlight = p.inFlight /\ r.overdue = p.overdue
  /\ Tidy(r, c) /\ Fits(HeldFor(r, c), X)
  /\ \A d \in Channels : d # c => Same(p, r, d)

\* A method that rewrites what is held for one channel.
LEMMA Rewrites ==
  ASSUME NEW p \in Queues, NEW c \in Channels, NEW r, NEW X,
         NEW t \in Seq(Events), NEW w \in Seq(Events), NEW k \in Seq(Events),
         NEW T \in SUBSET Channels, NEW R \in [Channels -> 0..MaxRetries],
         r = [p EXCEPT !.queues[c] = t, !.withheld[c] = w, !.cancelled[c] = k, !.throttled = T, !.retries = R],
         Distinct(t), Distinct(w), Distinct(k), Elems(t) \cap Elems(w) = {}, Elems(t) \cap Elems(k) = {},
         Elems(w) \cap Elems(k) = {}, Fits(Elems(t) \cup Elems(w) \cup Elems(k), X)
  PROVE  Puts(p, r, c, X)
<1>1. PICK x, y, z : /\ x = [p.queues EXCEPT ![c] = t] /\ y = [p.withheld EXCEPT ![c] = w]
                     /\ z = [p.cancelled EXCEPT ![c] = k]
  OBVIOUS
<1>2. x \in [Channels -> Seq(Events)] /\ y \in [Channels -> Seq(Events)] /\ z \in [Channels -> Seq(Events)]
  <2>1. p.queues \in [Channels -> Seq(Events)] /\ p.withheld \in [Channels -> Seq(Events)]
        /\ p.cancelled \in [Channels -> Seq(Events)]
    BY DEF Queues
  <2> QED BY <1>1, <2>1
<1>3. r = [p EXCEPT !.queues = x, !.withheld = y, !.cancelled = z, !.throttled = T, !.retries = R]
  BY <1>1
<1>4. /\ r \in Queues /\ r.inFlight = p.inFlight /\ r.overdue = p.overdue
      /\ r.queues = x /\ r.withheld = y /\ r.cancelled = z
  BY <1>2, <1>3 DEF Queues
<1>5. r.queues[c] = t /\ r.withheld[c] = w /\ r.cancelled[c] = k
  BY <1>1, <1>4 DEF Queues
<1>6. \A d \in Channels : d # c => Same(p, r, d)
  BY <1>1, <1>4 DEF Same, Queues
<1> QED BY <1>4, <1>5, <1>6 DEF Puts, Tidy, HeldFor

\* The parts of a queue that a method leaves alone.
LEMMA Untouched ==
  ASSUME NEW p \in Queues, NEW c \in Channels
  PROVE  /\ p.queues = [p.queues EXCEPT ![c] = p.queues[c]]
         /\ p.withheld = [p.withheld EXCEPT ![c] = p.withheld[c]]
         /\ p.cancelled = [p.cancelled EXCEPT ![c] = p.cancelled[c]]
         /\ p.throttled \in SUBSET Channels /\ p.retries \in [Channels -> 0..MaxRetries]
         /\ \A n \in 0..MaxRetries : [p.retries EXCEPT ![c] = n] \in [Channels -> 0..MaxRetries]
         /\ p.inFlight \in SUBSET Channels /\ p.overdue \in SUBSET Channels
BY DEF Queues

\* requeue_preserve_timestamps and the parts of requeue and defer that requeue:
\* the events go to the front of their channel.
LEMMA RequeueHolds ==
  ASSUME NEW p \in Queues, NEW c \in Channels, NEW u \in Seq(Events), Distinct(u), Tidy(p, c),
         Elems(u) \cap HeldFor(p, c) = {}, NEW T \in SUBSET Channels, NEW R \in [Channels -> 0..MaxRetries],
         NEW r, r = [p EXCEPT !.queues[c] = Trim(u \o p.queues[c]), !.throttled = T, !.retries = R]
  PROVE  Puts(p, r, c, HeldFor(p, c) \cup Elems(u))
<1>1. PICK s, w, k, t : s = p.queues[c] /\ w = p.withheld[c] /\ k = p.cancelled[c] /\ t = Trim(u \o s)
  OBVIOUS
<1>2. /\ s \in Seq(Events) /\ w \in Seq(Events) /\ k \in Seq(Events) /\ Distinct(s) /\ Distinct(w) /\ Distinct(k)
      /\ Elems(s) \cap Elems(w) = {} /\ Elems(s) \cap Elems(k) = {} /\ Elems(w) \cap Elems(k) = {}
      /\ HeldFor(p, c) = Elems(s) \cup Elems(w) \cup Elems(k)
  BY <1>1, HeldFinite DEF Tidy, HeldFor
<1>3. t \in Seq(Events) /\ Distinct(t) /\ Fits(Elems(t), Elems(u) \cup Elems(s))
  BY <1>1, <1>2, InFront
<1>4. PICK X, Y, H : X = Elems(u) \cup Elems(s) /\ Y = Elems(w) \cup Elems(k) /\ H = Elems(t)
  OBVIOUS
<1>5. X \cup Y = HeldFor(p, c) \cup Elems(u) /\ IsFiniteSet(X \cup Y)
  <2>1. IsFiniteSet(HeldFor(p, c)) /\ IsFiniteSet(Elems(u))
    BY HeldFinite, CountDistinct
  <2>2. IsFiniteSet(HeldFor(p, c) \cup Elems(u))
    BY <2>1, FS_Union
  <2> QED BY <1>2, <1>4, <2>2
<1>6. Fits(H \cup Y, X \cup Y)
  BY <1>3, <1>4, <1>5, FitsWith
<1>7. Elems(t) \cap Elems(w) = {} /\ Elems(t) \cap Elems(k) = {}
  BY <1>2, <1>3 DEF Fits
<1>8. r = [p EXCEPT !.queues[c] = t, !.withheld[c] = w, !.cancelled[c] = k, !.throttled = T, !.retries = R]
  <2>1. PICK x, y, z : /\ x = [p.queues EXCEPT ![c] = t] /\ y = [p.withheld EXCEPT ![c] = w]
                       /\ z = [p.cancelled EXCEPT ![c] = k]
    OBVIOUS
  <2>2. y = p.withheld /\ z = p.cancelled
    BY <1>1, <2>1, Untouched
  <2>3. r = [p EXCEPT !.queues = x, !.throttled = T, !.retries = R]
    BY <1>1, <2>1
  <2>4. r = [p EXCEPT !.queues = x, !.withheld = y, !.cancelled = z, !.throttled = T, !.retries = R]
    BY <2>2, <2>3 DEF Queues
  <2> QED BY <2>1, <2>4
<1>9. Fits(Elems(t) \cup Elems(w) \cup Elems(k), HeldFor(p, c) \cup Elems(u))
  <2>1. H \cup Y = Elems(t) \cup Elems(w) \cup Elems(k)
    BY <1>4
  <2> QED BY <1>5, <1>6, <2>1
<1> QED BY ONLY <1>2, <1>3, <1>7, <1>8, <1>9, Rewrites

\* r holds what p holds.
Leaves(p, r) ==
  r \in Queues /\ r.queues = p.queues /\ r.withheld = p.withheld /\ r.cancelled = p.cancelled

\* What such methods leave in each channel.
LEMMA LeavesHolds ==
  ASSUME NEW p \in Queues, NEW r, Leaves(p, r), NEW c \in Channels
  PROVE  /\ Tidy(p, c) => Tidy(r, c)
         /\ HeldFor(r, c) = HeldFor(p, c) /\ Same(p, r, c)
BY DEF Leaves, Tidy, HeldFor, Same

\* mark_complete, extend_in_flight_deadline and compact_expired_state leave every
\* event where it is.
LEMMA CompleteHolds ==
  ASSUME NEW p \in Queues, NEW c \in Channels
  PROVE  /\ Leaves(p, mark_complete(p, c))
         /\ mark_complete(p, c).inFlight = p.inFlight \ {c} /\ mark_complete(p, c).overdue = p.overdue \ {c}
         /\ Leaves(p, extend_in_flight_deadline(p, c))
         /\ extend_in_flight_deadline(p, c).inFlight = p.inFlight
         /\ extend_in_flight_deadline(p, c).overdue = p.overdue \ {c}
         /\ Leaves(p, compact_expired_state(p))
         /\ compact_expired_state(p).inFlight = p.inFlight /\ compact_expired_state(p).overdue = p.overdue
<1>1. 0 \in 0..MaxRetries /\ p.retries \in [Channels -> 0..MaxRetries]
  BY QueueAssumption DEF Queues
<1>2. PICK R, S : /\ R = [p.retries EXCEPT ![c] = IF c \in p.throttled THEN p.retries[c] ELSE 0]
                  /\ S = [d \in Channels |-> IF d \in p.throttled \/ p.queues[d] # <<>> \/ d \in p.inFlight
                                             THEN p.retries[d] ELSE 0]
  OBVIOUS
<1>3. R \in [Channels -> 0..MaxRetries] /\ S \in [Channels -> 0..MaxRetries]
  BY <1>1, <1>2
<1>4. /\ mark_complete(p, c) = [p EXCEPT !.inFlight = p.inFlight \ {c}, !.overdue = p.overdue \ {c}, !.retries = R]
      /\ compact_expired_state(p) = [p EXCEPT !.retries = S]
  BY <1>2 DEF mark_complete, compact_expired_state
<1>5. p.inFlight \ {c} \in SUBSET Channels /\ p.overdue \ {c} \in SUBSET Channels
  BY Untouched
<1>6. /\ Leaves(p, mark_complete(p, c))
      /\ mark_complete(p, c).inFlight = p.inFlight \ {c} /\ mark_complete(p, c).overdue = p.overdue \ {c}
  <2> HIDE DEF mark_complete
  <2> QED BY <1>3, <1>4, <1>5 DEF Leaves, Queues
<1>7. /\ Leaves(p, compact_expired_state(p))
      /\ compact_expired_state(p).inFlight = p.inFlight /\ compact_expired_state(p).overdue = p.overdue
  BY <1>3, <1>4 DEF Leaves, Queues
<1>8. /\ Leaves(p, extend_in_flight_deadline(p, c))
      /\ extend_in_flight_deadline(p, c).inFlight = p.inFlight
      /\ extend_in_flight_deadline(p, c).overdue = p.overdue \ {c}
  <2>1. extend_in_flight_deadline(p, c) = [p EXCEPT !.overdue = p.overdue \ {c}]
    BY DEF extend_in_flight_deadline
  <2> QED BY <1>5, <2>1 DEF Leaves, Queues
<1> QED BY <1>6, <1>7, <1>8

\* A batch that is put back: its events go to the front of the channel.
LEMMA PreserveHolds ==
  ASSUME NEW p \in Queues, NEW b \in [channel : Channels, events : Seq(Events), cancelled : Seq(Events)],
         Tidy(p, b.channel), Distinct(b.events), Elems(b.events) \cap HeldFor(p, b.channel) = {}
  PROVE  Puts(p, requeue_preserve_timestamps(p, b), b.channel, HeldFor(p, b.channel) \cup Elems(b.events))
<1>1. PICK c, u, t, r : /\ c = b.channel /\ u = b.events /\ t = Trim(u \o p.queues[c])
                        /\ r = requeue_preserve_timestamps(p, b)
  OBVIOUS
<1>2. c \in Channels /\ u \in Seq(Events)
  BY <1>1
<1>3. r = [p EXCEPT !.queues[c] = t]
  BY <1>1 DEF requeue_preserve_timestamps
<1>4. r = [p EXCEPT !.queues[c] = Trim(u \o p.queues[c]), !.throttled = p.throttled, !.retries = p.retries]
  <2>1. PICK x : x = [p.queues EXCEPT ![c] = t]
    OBVIOUS
  <2>2. r = [p EXCEPT !.queues = x]
    BY <1>3, <2>1
  <2>3. r = [p EXCEPT !.queues = x, !.throttled = p.throttled, !.retries = p.retries]
    BY <2>2 DEF Queues
  <2> QED BY <1>1, <2>1, <2>3
<1>5. p.throttled \in SUBSET Channels /\ p.retries \in [Channels -> 0..MaxRetries]
  BY <1>2, Untouched
<1>6. PICK T, R : T = p.throttled /\ R = p.retries
  OBVIOUS
<1>7. Puts(p, r, c, HeldFor(p, c) \cup Elems(u))
  BY <1>1, <1>2, <1>4, <1>5, <1>6, RequeueHolds
<1> QED BY <1>1, <1>7

\* requeue: the batch is put back, or its retries are used up.
LEMMA RetryHolds ==
  ASSUME NEW p \in Queues, NEW b \in [channel : Channels, events : Seq(Events), cancelled : Seq(Events)],
         Tidy(p, b.channel), Distinct(b.events), Elems(b.events) \cap HeldFor(p, b.channel) = {}
  PROVE  /\ requeue(p, b).inFlight = p.inFlight /\ requeue(p, b).overdue = p.overdue
         /\ Exhausted(p, b.channel) => Leaves(p, requeue(p, b))
         /\ ~ Exhausted(p, b.channel) =>
               Puts(p, requeue(p, b), b.channel, HeldFor(p, b.channel) \cup Elems(b.events))
<1>1. PICK c, u, t, r : /\ c = b.channel /\ u = b.events /\ t = Trim(u \o p.queues[c]) /\ r = requeue(p, b)
  OBVIOUS
<1>2. c \in Channels /\ u \in Seq(Events) /\ Tidy(p, c) /\ Distinct(u) /\ Elems(u) \cap HeldFor(p, c) = {}
  BY <1>1
<1>3. p.retries[c] \in 0..MaxRetries /\ MaxRetries \in Nat /\ p.throttled \in SUBSET Channels
  BY <1>2, QueueAssumption DEF Queues
<1>4. CASE Exhausted(p, c)
  <2>1. PICK R, T : R = [p.retries EXCEPT ![c] = 0] /\ T = p.throttled \ {c}
    OBVIOUS
  <2>2. R \in [Channels -> 0..MaxRetries] /\ T \in SUBSET Channels
    <3>1. 0 \in 0..MaxRetries
      BY <1>3
    <3> QED BY <1>2, <1>3, <2>1, <3>1, Untouched
  <2>3. r = [p EXCEPT !.retries = R, !.throttled = T]
    BY <1>1, <1>4, <2>1 DEF requeue
  <2>4. Leaves(p, r) /\ r.inFlight = p.inFlight /\ r.overdue = p.overdue
    BY <2>2, <2>3 DEF Leaves, Queues
  <2> QED BY <1>1, <1>4, <2>4
<1>5. CASE ~ Exhausted(p, c)
  <2>1. PICK R, T, x : /\ R = [p.retries EXCEPT ![c] = p.retries[c] + 1] /\ T = p.throttled \cup {c}
                       /\ x = [p.queues EXCEPT ![c] = t]
    OBVIOUS
  <2>2. p.retries[c] + 1 \in 0..MaxRetries
    BY <1>3, <1>5 DEF Exhausted
  <2>3. R \in [Channels -> 0..MaxRetries] /\ T \in SUBSET Channels
    BY <1>2, <1>3, <2>1, <2>2, Untouched
  <2>4. PICK v : v = requeue_preserve_timestamps(p, b)
    OBVIOUS
  <2>5. v = [p EXCEPT !.queues = x]
    BY <1>1, <2>1, <2>4 DEF requeue_preserve_timestamps
  <2>6. r = [v EXCEPT !.retries[c] = p.retries[c] + 1, !.throttled = T]
    BY <1>1, <1>5, <2>1, <2>4 DEF requeue
  <2>7. v.retries = p.retries
    BY <2>5 DEF Queues
  <2>8. r = [v EXCEPT !.retries = R, !.throttled = T]
    BY <2>1, <2>6, <2>7
  <2>9. r = [p EXCEPT !.queues = x, !.throttled = T, !.retries = R]
    BY <2>5, <2>8 DEF Queues
  <2>10. r = [p EXCEPT !.queues[c] = Trim(u \o p.queues[c]), !.throttled = T, !.retries = R]
    BY <1>1, <2>1, <2>9
  <2>11. Puts(p, r, c, HeldFor(p, c) \cup Elems(u))
    BY <1>2, <2>3, <2>10, RequeueHolds
  <2> QED BY <1>1, <1>5, <2>11 DEF Puts
<1> QED BY <1>1, <1>4, <1>5

\* defer: the whole batch is put back.
LEMMA DeferHolds ==
  ASSUME NEW p \in Queues, NEW b \in [channel : Channels, events : Seq(Events), cancelled : Seq(Events)],
         Tidy(p, b.channel), Distinct(b.events), Distinct(b.cancelled), Elems(b.events) \cap Elems(b.cancelled) = {},
         (Elems(b.events) \cup Elems(b.cancelled)) \cap HeldFor(p, b.channel) = {}
  PROVE  Puts(p, defer(p, b), b.channel, HeldFor(p, b.channel) \cup Elems(b.events) \cup Elems(b.cancelled))
<1>1. PICK c, u, t, r : /\ c = b.channel /\ u = b.cancelled \o b.events /\ t = Trim(u \o p.queues[c]) /\ r = defer(p, b)
  OBVIOUS
<1>2. c \in Channels /\ b.events \in Seq(Events) /\ b.cancelled \in Seq(Events)
  BY <1>1
<1>3. u \in Seq(Events) /\ Distinct(u) /\ Elems(u) = Elems(b.events) \cup Elems(b.cancelled)
  <2>1. PICK m, n : m = b.cancelled /\ n = b.events
    OBVIOUS
  <2>2. m \in Seq(Events) /\ n \in Seq(Events) /\ Distinct(m) /\ Distinct(n) /\ Elems(m) \cap Elems(n) = {}
    BY <1>2, <2>1
  <2>3. m \o n \in Seq(Events) /\ Distinct(m \o n) /\ Elems(m \o n) = Elems(m) \cup Elems(n)
    BY ONLY <2>2, ConcatElems
  <2> QED BY <1>1, <2>1, <2>3
<1>4. PICK T, R, x : T = p.throttled \cup {c} /\ R = p.retries /\ x = [p.queues EXCEPT ![c] = t]
  OBVIOUS
<1>5. T \in SUBSET Channels /\ R \in [Channels -> 0..MaxRetries]
  BY <1>2, <1>4, Untouched
<1>6. PICK d : d = [b EXCEPT !.events = u]
  BY <1>1
<1>7. d.channel = c /\ d.events = u
  BY <1>1, <1>6
<1>8. PICK v : v = requeue_preserve_timestamps(p, d)
  OBVIOUS
<1>9. v = [p EXCEPT !.queues = x]
  BY <1>1, <1>4, <1>7, <1>8 DEF requeue_preserve_timestamps
<1>10. r = [v EXCEPT !.throttled = T]
  BY <1>1, <1>4, <1>6, <1>8 DEF defer
<1>11. r = [p EXCEPT !.queues = x, !.throttled = T, !.retries = R]
  BY <1>4, <1>9, <1>10 DEF Queues
<1>12. r = [p EXCEPT !.queues[c] = Trim(u \o p.queues[c]), !.throttled = T, !.retries = R]
  BY <1>1, <1>4, <1>11
<1>13. Tidy(p, c) /\ Elems(u) \cap HeldFor(p, c) = {}
  BY <1>1, <1>3
<1>14. Puts(p, r, c, HeldFor(p, c) \cup Elems(u))
  BY <1>2, <1>3, <1>5, <1>12, <1>13, RequeueHolds
<1>15. HeldFor(p, c) \cup Elems(u) = HeldFor(p, c) \cup Elems(b.events) \cup Elems(b.cancelled)
  BY <1>3
<1> QED BY <1>1, <1>14, <1>15

\* requeue_as_cancelled: the whole batch waits among the interrupted ones.
LEMMA InterruptHolds ==
  ASSUME NEW p \in Queues, NEW b \in [channel : Channels, events : Seq(Events), cancelled : Seq(Events)],
         Tidy(p, b.channel), Distinct(b.events), Distinct(b.cancelled), Elems(b.events) \cap Elems(b.cancelled) = {},
         (Elems(b.events) \cup Elems(b.cancelled)) \cap HeldFor(p, b.channel) = {}
  PROVE  Puts(p, requeue_as_cancelled(p, b), b.channel, HeldFor(p, b.channel) \cup Elems(b.events) \cup Elems(b.cancelled))
<1>1. PICK c, s, w, k, m, n, r : /\ c = b.channel /\ s = p.queues[c] /\ w = p.withheld[c] /\ k = p.cancelled[c]
                                 /\ m = b.cancelled /\ n = b.events /\ r = requeue_as_cancelled(p, b)
  OBVIOUS
<1>2. c \in Channels /\ m \in Seq(Events) /\ n \in Seq(Events)
  BY <1>1
<1>3. /\ s \in Seq(Events) /\ w \in Seq(Events) /\ k \in Seq(Events) /\ Distinct(s) /\ Distinct(w) /\ Distinct(k)
      /\ Elems(s) \cap Elems(w) = {} /\ Elems(s) \cap Elems(k) = {} /\ Elems(w) \cap Elems(k) = {}
      /\ HeldFor(p, c) = Elems(s) \cup Elems(w) \cup Elems(k)
  BY <1>1, <1>2, HeldFinite DEF Tidy, HeldFor
<1>4. Distinct(m) /\ Distinct(n) /\ Elems(m) \cap Elems(n) = {} /\ (Elems(m) \cup Elems(n)) \cap HeldFor(p, c) = {}
  BY <1>1
<1>5. k \o m \in Seq(Events) /\ Distinct(k \o m) /\ Elems(k \o m) = Elems(k) \cup Elems(m)
  <2>1. Elems(k) \cap Elems(m) = {}
    BY <1>3, <1>4
  <2> QED BY ONLY <1>2, <1>3, <1>4, <2>1, ConcatElems
<1>6. PICK u : u = k \o m
  OBVIOUS
<1>7. u \o n \in Seq(Events) /\ Distinct(u \o n) /\ Elems(u \o n) = Elems(u) \cup Elems(n)
  <2>1. u \in Seq(Events) /\ Distinct(u) /\ Elems(u) \cap Elems(n) = {}
    BY <1>3, <1>4, <1>5, <1>6
  <2> QED BY ONLY <1>2, <1>4, <2>1, ConcatElems
<1>8. PICK t : t = u \o n
  OBVIOUS
<1>9. /\ t \in Seq(Events) /\ Distinct(t) /\ Elems(t) = Elems(k) \cup Elems(m) \cup Elems(n)
      /\ Elems(s) \cap Elems(t) = {} /\ Elems(w) \cap Elems(t) = {}
  BY <1>3, <1>4, <1>5, <1>6, <1>7, <1>8
<1>10. PICK x, y, z, T, R : /\ x = [p.queues EXCEPT ![c] = s] /\ y = [p.withheld EXCEPT ![c] = w]
                            /\ z = [p.cancelled EXCEPT ![c] = t] /\ T = p.throttled /\ R = p.retries
  OBVIOUS
<1>11. x = p.queues /\ y = p.withheld /\ T \in SUBSET Channels /\ R \in [Channels -> 0..MaxRetries]
  BY <1>1, <1>2, <1>10, Untouched
<1>12. r = [p EXCEPT !.cancelled = z]
  BY <1>1, <1>6, <1>8, <1>10 DEF requeue_as_cancelled
<1>13. r = [p EXCEPT !.queues = x, !.withheld = y, !.cancelled = z, !.throttled = T, !.retries = R]
  BY <1>10, <1>11, <1>12 DEF Queues
<1>14. r = [p EXCEPT !.queues[c] = s, !.withheld[c] = w, !.cancelled[c] = t, !.throttled = T, !.retries = R]
  BY <1>10, <1>13
<1>15. PICK X : X = HeldFor(p, c) \cup Elems(n) \cup Elems(m)
  OBVIOUS
<1>16. Fits(Elems(s) \cup Elems(w) \cup Elems(t), X)
  BY <1>3, <1>9, <1>15 DEF Fits
<1>17. Puts(p, r, c, X)
  BY ONLY <1>2, <1>3, <1>9, <1>11, <1>14, <1>16, Rewrites
<1> QED BY <1>1, <1>15, <1>17

\* A method that rewrites the pending and the withheld events of one channel.
LEMMA Shifts ==
  ASSUME NEW p \in Queues, NEW c \in Channels, NEW r, NEW X, Tidy(p, c),
         NEW t \in Seq(Events), NEW w \in Seq(Events), r = [p EXCEPT !.withheld[c] = w, !.queues[c] = t],
         Distinct(t), Distinct(w), Elems(t) \cap Elems(w) = {},
         Elems(t) \cup Elems(w) \in SUBSET (Elems(p.queues[c]) \cup Elems(p.withheld[c])),
         Fits(Elems(t) \cup Elems(w) \cup Elems(p.cancelled[c]), X)
  PROVE  Puts(p, r, c, X)
<1>1. PICK k, x, y, z, T, R : /\ k = p.cancelled[c] /\ x = [p.queues EXCEPT ![c] = t] /\ y = [p.withheld EXCEPT ![c] = w]
                              /\ z = [p.cancelled EXCEPT ![c] = k] /\ T = p.throttled /\ R = p.retries
  OBVIOUS
<1>2. z = p.cancelled /\ T \in SUBSET Channels /\ R \in [Channels -> 0..MaxRetries] /\ k \in Seq(Events)
  BY <1>1, Untouched, HeldFinite
<1>3. r = [p EXCEPT !.queues = x, !.withheld = y]
  BY <1>1
<1>4. r = [p EXCEPT !.queues = x, !.withheld = y, !.cancelled = z, !.throttled = T, !.retries = R]
  BY <1>1, <1>2, <1>3 DEF Queues
<1>5. r = [p EXCEPT !.queues[c] = t, !.withheld[c] = w, !.cancelled[c] = k, !.throttled = T, !.retries = R]
  BY <1>1, <1>4
<1>6. Distinct(k) /\ Elems(t) \cap Elems(k) = {} /\ Elems(w) \cap Elems(k) = {}
  BY <1>1 DEF Tidy
<1>7. Fits(Elems(t) \cup Elems(w) \cup Elems(k), X)
  BY <1>1
<1> QED BY ONLY <1>2, <1>5, <1>6, <1>7, Distinct(t), Distinct(w), Elems(t) \cap Elems(w) = {}, Rewrites

\* mark_native_steer_pending: the event is withheld, not copied.
LEMMA WithholdHolds ==
  ASSUME NEW p \in Queues, NEW c \in Channels, NEW e \in Events, Tidy(p, c)
  PROVE  /\ Puts(p, mark_native_steer_pending(p, c, e), c, HeldFor(p, c))
         /\ HeldFor(mark_native_steer_pending(p, c, e), c) = HeldFor(p, c)
<1>1. PICK s, w, k, r : s = p.queues[c] /\ w = p.withheld[c] /\ k = p.cancelled[c] /\ r = mark_native_steer_pending(p, c, e)
  OBVIOUS
<1>2. /\ s \in Seq(Events) /\ w \in Seq(Events) /\ k \in Seq(Events) /\ Distinct(s) /\ Distinct(w) /\ Distinct(k)
      /\ Elems(s) \cap Elems(w) = {} /\ HeldFor(p, c) = Elems(s) \cup Elems(w) \cup Elems(k)
  BY <1>1, HeldFinite DEF Tidy, HeldFor
<1>3. CASE e \in Elems(s)
  <2>1. PICK t, v : t = Without(s, e) /\ v = Append(w, e)
    OBVIOUS
  <2>2. t \in Seq(Events) /\ Distinct(t) /\ Elems(t) = Elems(s) \ {e}
    BY <1>2, <2>1, WithoutElems
  <2>3. v \in Seq(Events) /\ Distinct(v) /\ Elems(v) = Elems(w) \cup {e}
    BY <1>2, <1>3, <2>1, OneMore
  <2>4. r = [p EXCEPT !.withheld[c] = v, !.queues[c] = t]
    <3>1. PICK x, y : x = [p.queues EXCEPT ![c] = t] /\ y = [p.withheld EXCEPT ![c] = v]
      OBVIOUS
    <3>2. r = [p EXCEPT !.queues = x, !.withheld = y]
      BY <1>1, <1>3, <2>1, <3>1 DEF mark_native_steer_pending
    <3>3. r = [p EXCEPT !.withheld = y, !.queues = x]
      BY <3>2 DEF Queues
    <3> QED BY <3>1, <3>3
  <2>5. /\ Elems(t) \cap Elems(v) = {} /\ Elems(t) \cup Elems(v) \in SUBSET (Elems(p.queues[c]) \cup Elems(p.withheld[c]))
        /\ Fits(Elems(t) \cup Elems(v) \cup Elems(p.cancelled[c]), HeldFor(p, c))
    BY <1>1, <1>2, <1>3, <2>2, <2>3 DEF Fits
  <2>6. HeldFor(r, c) = HeldFor(p, c)
    <3>1. r.queues[c] = t /\ r.withheld[c] = v /\ r.cancelled[c] = p.cancelled[c]
      BY <2>4 DEF Queues
    <3>2. HeldFor(r, c) = Elems(t) \cup Elems(v) \cup Elems(k)
      BY <1>1, <3>1 DEF HeldFor
    <3> QED BY <1>2, <1>3, <2>2, <2>3, <3>2
  <2> QED BY <1>1, <2>2, <2>3, <2>4, <2>5, <2>6, Shifts
<1>4. CASE e \notin Elems(s)
  <2>1. r = p
    BY <1>1, <1>4 DEF mark_native_steer_pending
  <2> QED BY <1>1, <2>1 DEF Puts, Fits, Same
<1> QED BY <1>3, <1>4

\* release_native_steer: a withheld event goes back to the front of its channel.
LEMMA ReleaseHolds ==
  ASSUME NEW p \in Queues, NEW c \in Channels, NEW e \in Events, Tidy(p, c)
  PROVE  Puts(p, release_native_steer(p, c, e), c, HeldFor(p, c))
<1>1. PICK s, w, k, r : s = p.queues[c] /\ w = p.withheld[c] /\ k = p.cancelled[c] /\ r = release_native_steer(p, c, e)
  OBVIOUS
<1>2. /\ s \in Seq(Events) /\ w \in Seq(Events) /\ k \in Seq(Events) /\ Distinct(s) /\ Distinct(w) /\ Distinct(k)
      /\ Elems(s) \cap Elems(w) = {} /\ HeldFor(p, c) = Elems(s) \cup Elems(w) \cup Elems(k)
  BY <1>1, HeldFinite DEF Tidy, HeldFor
<1>3. CASE e \in Elems(w)
  <2>1. PICK u, t, v : u = <<e>> /\ t = Trim(u \o s) /\ v = Without(w, e)
    OBVIOUS
  <2>2. v \in Seq(Events) /\ Distinct(v) /\ Elems(v) = Elems(w) \ {e}
    BY <1>2, <2>1, WithoutElems
  <2>3. u \in Seq(Events) /\ Distinct(u) /\ Elems(u) = {e}
    BY <2>1 DEF Distinct, Elems
  <2>4. Elems(u) \cap Elems(s) = {}
    BY <1>2, <1>3, <2>3
  <2>5. t \in Seq(Events) /\ Distinct(t) /\ Fits(Elems(t), Elems(u) \cup Elems(s))
    BY <1>2, <2>1, <2>3, <2>4, InFront
  <2>6. r = [p EXCEPT !.withheld[c] = v, !.queues[c] = t]
    BY <1>1, <1>3, <2>1 DEF release_native_steer
  <2>7. PICK H, X, Y : H = Elems(t) /\ X = Elems(u) \cup Elems(s) /\ Y = Elems(v) \cup Elems(k)
    OBVIOUS
  <2>8. X \cup Y = HeldFor(p, c) /\ IsFiniteSet(X \cup Y)
    <3>1. X \cup Y = HeldFor(p, c)
      BY <1>2, <1>3, <2>2, <2>3, <2>7
    <3>2. IsFiniteSet(HeldFor(p, c))
      BY HeldFinite
    <3> QED BY <3>1, <3>2
  <2>9. Fits(H \cup Y, X \cup Y)
    BY <2>5, <2>7, <2>8, FitsWith
  <2>10. H \cup Y = Elems(t) \cup Elems(v) \cup Elems(p.cancelled[c])
    BY <1>1, <2>7
  <2>11. Fits(Elems(t) \cup Elems(v) \cup Elems(p.cancelled[c]), HeldFor(p, c))
    BY <2>8, <2>9, <2>10
  <2>12. Elems(t) \cap Elems(v) = {} /\ Elems(t) \cup Elems(v) \in SUBSET (Elems(p.queues[c]) \cup Elems(p.withheld[c]))
    BY <1>1, <1>2, <1>3, <2>2, <2>3, <2>5 DEF Fits
  <2> QED BY <1>1, <2>2, <2>5, <2>6, <2>11, <2>12, Shifts
<1>4. CASE e \notin Elems(w)
  <2>1. r = p
    BY <1>1, <1>4 DEF release_native_steer
  <2> QED BY <1>1, <2>1 DEF Puts, Fits, Same
<1> QED BY <1>3, <1>4

\* remove_event: the event is gone, whether it was still withheld or not.
LEMMA RemoveHolds ==
  ASSUME NEW p \in Queues, NEW c \in Channels, NEW e \in Events, Tidy(p, c)
  PROVE  /\ Puts(p, remove_event(p, c, e), c, HeldFor(remove_event(p, c, e), c))
         /\ HeldFor(remove_event(p, c, e), c) \subseteq HeldFor(p, c)
         /\ HeldFor(p, c) \subseteq HeldFor(remove_event(p, c, e), c) \cup {e}
<1>1. PICK s, w, k, r, t, v : /\ s = p.queues[c] /\ w = p.withheld[c] /\ k = p.cancelled[c] /\ r = remove_event(p, c, e)
                              /\ t = Without(s, e) /\ v = Without(w, e)
  OBVIOUS
<1>2. /\ s \in Seq(Events) /\ w \in Seq(Events) /\ k \in Seq(Events) /\ Distinct(s) /\ Distinct(w) /\ Distinct(k)
      /\ Elems(s) \cap Elems(w) = {} /\ HeldFor(p, c) = Elems(s) \cup Elems(w) \cup Elems(k)
  BY <1>1, HeldFinite DEF Tidy, HeldFor
<1>3. t \in Seq(Events) /\ Distinct(t) /\ Elems(t) = Elems(s) \ {e}
  BY <1>1, <1>2, WithoutElems
<1>4. v \in Seq(Events) /\ Distinct(v) /\ Elems(v) = Elems(w) \ {e}
  BY <1>1, <1>2, WithoutElems
<1>5. r = [p EXCEPT !.withheld[c] = v, !.queues[c] = t]
  BY <1>1 DEF remove_event
<1>6. PICK X : X = Elems(t) \cup Elems(v) \cup Elems(p.cancelled[c])
  OBVIOUS
<1>7. /\ Fits(Elems(t) \cup Elems(v) \cup Elems(p.cancelled[c]), X) /\ Elems(t) \cap Elems(v) = {}
      /\ Elems(t) \cup Elems(v) \in SUBSET (Elems(p.queues[c]) \cup Elems(p.withheld[c]))
  BY <1>1, <1>2, <1>3, <1>4, <1>6 DEF Fits
<1>8. Puts(p, r, c, X)
  BY <1>3, <1>4, <1>5, <1>7, Shifts
<1>9. HeldFor(r, c) = X
  <2>1. r.queues[c] = t /\ r.withheld[c] = v /\ r.cancelled[c] = p.cancelled[c]
    BY <1>5 DEF Queues
  <2> QED BY <1>6, <2>1 DEF HeldFor
<1>10. X \subseteq HeldFor(p, c) /\ HeldFor(p, c) \subseteq X \cup {e}
  BY <1>1, <1>2, <1>3, <1>4, <1>6
<1> QED BY <1>1, <1>8, <1>9, <1>10

\* drain_channel: nothing is held for the channel.
LEMMA DrainHolds ==
  ASSUME NEW p \in Queues, NEW c \in Channels
  PROVE  Puts(p, drain_channel(p, c), c, {}) /\ HeldFor(drain_channel(p, c), c) = {}
<1>1. PICK r, x, y, z, T, R : /\ r = drain_channel(p, c) /\ x = [p.queues EXCEPT ![c] = <<>>]
                              /\ y = [p.withheld EXCEPT ![c] = <<>>] /\ z = [p.cancelled EXCEPT ![c] = <<>>]
                              /\ T = p.throttled \ {c} /\ R = [p.retries EXCEPT ![c] = 0]
  OBVIOUS
<1>2. Elems(<<>>) = {} /\ Distinct(<<>>) /\ <<>> \in Seq(Events) /\ 0 \in 0..MaxRetries
  BY QueueAssumption DEF Elems, Distinct
<1>3. T \in SUBSET Channels /\ R \in [Channels -> 0..MaxRetries]
  BY <1>1, <1>2, Untouched
<1>4. r = [p EXCEPT !.queues = x, !.withheld = y, !.cancelled = z, !.throttled = T, !.retries = R]
  BY <1>1 DEF drain_channel, Queues
<1>5. PICK t : t = <<>>
  OBVIOUS
<1>6. r = [p EXCEPT !.queues[c] = t, !.withheld[c] = t, !.cancelled[c] = t, !.throttled = T, !.retries = R]
  BY <1>1, <1>4, <1>5
<1>7. PICK X : X = {}
  OBVIOUS
<1>8. t \in Seq(Events) /\ Distinct(t) /\ Elems(t) \cap Elems(t) = {} /\ Fits(Elems(t) \cup Elems(t) \cup Elems(t), X)
  BY <1>2, <1>5, <1>7 DEF Fits
<1>9. Puts(p, r, c, X)
  BY ONLY <1>3, <1>6, <1>8, Rewrites
<1>10. HeldFor(r, c) = {}
  BY <1>7, <1>9, QueueAssumption, FS_EmptySet DEF Puts, Fits
<1> QED BY <1>1, <1>7, <1>9, <1>10

=============================================================================
