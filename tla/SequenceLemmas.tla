---------------------------- MODULE SequenceLemmas ----------------------------
(***************************************************************************)
(* Facts the proofs about dedup_check.py and rate_limit_check.py rest on.  *)
(* The LRU of the one and the window of the other are tails of a history,  *)
(* from which loops remove the oldest entries and to which checks append.  *)
(***************************************************************************)
EXTENDS Integers, FiniteSetTheorems, SequenceTheorems, TLAPS

(***************************************************************************)
(* A non-empty set of natural numbers has a least element.  It is the      *)
(* minimal interval 0..m of the well-founded strict subset ordering.       *)
(***************************************************************************)
LEMMA LeastNatural ==
    ASSUME NEW S \in SUBSET Nat, S # {}
    PROVE  \E m \in S : \A k \in S : m <= k
<1> DEFINE T == {0..k : k \in S}
<1>1. IsWellFoundedOn(StrictSubsetOrdering(Nat), FiniteSubsetsOf(Nat))
  BY FS_StrictSubsetOrderingWellFounded
<1>2. \A k \in Nat : (0..k) \in FiniteSubsetsOf(Nat)
  BY FS_Interval DEF FiniteSubsetsOf
<1>3. T \subseteq FiniteSubsetsOf(Nat) /\ T # {}
  BY <1>2
<1>4. PICK x \in T : \A y \in T : <<y, x>> \notin StrictSubsetOrdering(Nat)
  <2> HIDE DEF T
  <2> QED BY <1>1, <1>3, WFMin
<1>5. PICK m \in S : x = 0..m
  BY <1>4
<1>6. ASSUME NEW k \in S PROVE m <= k
  <2>1. <<0..k, 0..m>> \notin StrictSubsetOrdering(Nat)
    BY <1>4, <1>5
  <2>2. (0..k) \in SUBSET Nat /\ (0..m) \in SUBSET Nat
    OBVIOUS
  <2>3. ~ ((0..k) \subseteq (0..m) /\ 0..k # 0..m)
    BY <2>1, <2>2 DEF StrictSubsetOrdering
  <2>4. CASE k < m
    <3>1. (0..k) \subseteq (0..m) /\ m \in 0..m /\ m \notin 0..k
      BY <2>4
    <3> QED BY <3>1, <2>3
  <2> QED BY <2>4
<1> QED BY <1>6

(***************************************************************************)
(* A loop that leaves a position k only when S no longer holds of it, and  *)
(* certainly leaves n, has a first position where it stops.                *)
(***************************************************************************)
LEMMA FirstStop ==
    ASSUME NEW n \in Nat, NEW Stop \in SUBSET (0..n), n \in Stop
    PROVE  \E k \in Stop : \A j \in 0..(k - 1) : j \notin Stop
<1>1. PICK m \in Stop : \A k \in Stop : m <= k
  BY LeastNatural
<1> QED BY <1>1
-----------------------------------------------------------------------------
\* s without its first m elements.
From(s, m) == SubSeq(s, m + 1, Len(s))

LEMMA FromProperties ==
    ASSUME NEW S, NEW s \in Seq(S), NEW m \in 0..Len(s)
    PROVE  /\ From(s, m) \in Seq(S)
           /\ Len(From(s, m)) = Len(s) - m
           /\ \A i \in 1..(Len(s) - m) : From(s, m)[i] = s[m + i]
<1> DEFINE n == Len(s)
           t == SubSeq(s, m + 1, n)
<1>1. n \in Nat /\ m \in 0..n /\ m + 1 \in Int /\ n \in Int
  BY LenProperties
<1>2. \A i \in 1..n : s[i] \in S
  BY ElementOfSeq
<1>3. From(s, m) = t
  BY DEF From
<1> HIDE DEF n
<1>4. \A i \in (m + 1)..n : s[i] \in S
  BY <1>1, <1>2
<1>5. /\ t \in Seq(S)
      /\ Len(t) = IF m + 1 <= n THEN n - (m + 1) + 1 ELSE 0
      /\ \A i \in 1..(n - (m + 1) + 1) : t[i] = s[(m + 1) + i - 1]
  BY <1>1, <1>4, SubSeqProperties
<1> HIDE DEF t
<1>6. (IF m + 1 <= n THEN n - (m + 1) + 1 ELSE 0) = n - m
  BY <1>1
<1>7. \A i \in 1..(n - m) : i \in 1..(n - (m + 1) + 1) /\ (m + 1) + i - 1 = m + i
  BY <1>1
<1>8. t \in Seq(S) /\ Len(t) = n - m /\ \A i \in 1..(n - m) : t[i] = s[m + i]
  BY <1>5, <1>6, <1>7
<1> QED BY <1>3, <1>8 DEF n

\* The same fact, for sequences that are terms and not names.
LEMMA FromAll ==
    \A S : \A s \in Seq(S) : \A m \in 0..Len(s) :
        /\ From(s, m) \in Seq(S) /\ Len(From(s, m)) = Len(s) - m
        /\ \A i \in 1..(Len(s) - m) : From(s, m)[i] = s[m + i]
BY FromProperties

LEMMA FromFrom ==
    ASSUME NEW S, NEW s \in Seq(S), NEW m \in 0..Len(s), NEW k \in 0..(Len(s) - m)
    PROVE  /\ m + k \in 0..Len(s)
           /\ From(From(s, m), k) = From(s, m + k)
<1> DEFINE t == From(s, m)
           u == From(t, k)
           v == From(s, m + k)
           n == Len(s)
<1>1. n \in Nat /\ m \in 0..n /\ k \in 0..(n - m) /\ m + k \in 0..n
  BY LenProperties
<1>2. /\ t \in Seq(S) /\ Len(t) = n - m
      /\ \A i \in 1..(n - m) : t[i] = s[m + i]
  BY FromProperties
<1>3. v \in Seq(S) /\ Len(v) = n - (m + k)
      /\ \A i \in 1..(n - (m + k)) : v[i] = s[(m + k) + i]
  BY <1>1, FromProperties
<1> HIDE DEF t
<1>4. u \in Seq(S) /\ Len(u) = (n - m) - k
      /\ \A i \in 1..((n - m) - k) : u[i] = t[k + i]
  <2> HIDE DEF n
  <2>1. k \in 0..Len(t)
    BY <1>1, <1>2, Zenon
  <2>2. /\ From(t, k) \in Seq(S) /\ Len(From(t, k)) = Len(t) - k
        /\ \A i \in 1..(Len(t) - k) : From(t, k)[i] = t[k + i]
    <3> HIDE DEF u, v
    <3>1. \A x \in Seq(S) : \A j \in 0..Len(x) :
             /\ From(x, j) \in Seq(S) /\ Len(From(x, j)) = Len(x) - j
             /\ \A i \in 1..(Len(x) - j) : From(x, j)[i] = x[j + i]
      BY ONLY FromAll
    <3> QED BY ONLY <1>2, <2>1, <3>1
  <2>3. u \in Seq(S) /\ Len(u) = Len(t) - k /\ \A i \in 1..(Len(t) - k) : u[i] = t[k + i]
    BY <2>2, Zenon
  <2>4. Len(t) = n - m
    BY <1>2, Zenon
  <2> HIDE DEF u, v
  <2> QED BY ONLY <2>3, <2>4
<1> HIDE DEF u, v, n
<1>5. Len(u) = Len(v)
  BY <1>1, <1>3, <1>4
<1>6. ASSUME NEW i \in 1..Len(u) PROVE u[i] = v[i]
  <2>1. /\ i \in 1..((n - m) - k) /\ i \in 1..(n - (m + k))
        /\ k + i \in 1..(n - m) /\ m + (k + i) = (m + k) + i
    BY <1>1, <1>4
  <2>2. u[i] = t[k + i] /\ t[k + i] = s[m + (k + i)] /\ v[i] = s[(m + k) + i]
    BY <2>1, <1>2, <1>3, <1>4
  <2> QED BY <2>1, <2>2
<1>7. u = v
  BY <1>3, <1>4, <1>5, <1>6, SeqEqual
<1> QED BY <1>1, <1>7 DEF n, t, u, v

LEMMA FromAppend ==
    ASSUME NEW S, NEW s \in Seq(S), NEW m \in 0..Len(s), NEW e \in S
    PROVE  /\ m \in 0..Len(Append(s, e))
           /\ From(Append(s, e), m) = Append(From(s, m), e)
<1> DEFINE a == Append(s, e)
           t == From(s, m)
           u == From(a, m)
           v == Append(t, e)
           n == Len(s)
<1>1. n \in Nat /\ m \in 0..n
  BY LenProperties
<1>2. /\ a \in Seq(S) /\ Len(a) = n + 1
      /\ \A i \in 1..n : a[i] = s[i]
      /\ a[n + 1] = e
  BY AppendProperties
<1>3. /\ t \in Seq(S) /\ Len(t) = n - m
      /\ \A i \in 1..(n - m) : t[i] = s[m + i]
  BY FromProperties
<1> HIDE DEF a, t, n
<1>4. /\ v \in Seq(S) /\ Len(v) = Len(t) + 1
      /\ \A i \in 1..Len(t) : v[i] = t[i]
      /\ v[Len(t) + 1] = e
  BY <1>3, AppendProperties
<1>5. m \in 0..Len(a)
  BY <1>1, <1>2
<1>6. /\ u \in Seq(S) /\ Len(u) = Len(a) - m
      /\ \A i \in 1..(Len(a) - m) : u[i] = a[m + i]
  <2> HIDE DEF v
  <2>1. \A x \in Seq(S) : \A j \in 0..Len(x) :
           /\ From(x, j) \in Seq(S) /\ Len(From(x, j)) = Len(x) - j
           /\ \A i \in 1..(Len(x) - j) : From(x, j)[i] = x[j + i]
    BY ONLY FromAll
  <2> QED BY ONLY <1>2, <1>5, <2>1
<1> HIDE DEF u, v
<1>7. Len(u) = Len(v) /\ Len(u) = n - m + 1
  <2>1. Len(u) = (n + 1) - m /\ Len(v) = (n - m) + 1
    BY <1>2, <1>3, <1>4, <1>6, Zenon
  <2>2. (n + 1) - m = (n - m) + 1
    BY <1>1
  <2> QED BY <2>1, <2>2
<1>8. ASSUME NEW i \in 1..Len(u) PROVE u[i] = v[i]
  <2>1. CASE i = n - m + 1
    <3>1. m + i = n + 1 /\ i \in 1..(Len(a) - m) /\ i = Len(t) + 1
      BY <2>1, <1>1, <1>2, <1>3
    <3> QED BY <3>1, <1>2, <1>4, <1>6
  <2>2. CASE i # n - m + 1
    <3>1. i \in 1..(n - m) /\ i \in 1..Len(t) /\ m + i \in 1..n /\ i \in 1..(Len(a) - m)
      BY <2>2, <1>1, <1>2, <1>3, <1>7
    <3> QED BY <3>1, <1>2, <1>3, <1>4, <1>6
  <2> QED BY <2>1, <2>2
<1>9. u = v
  BY <1>4, <1>6, <1>7, <1>8, SeqEqual
<1> QED BY <1>5, <1>9 DEF a, t, u, v

(***************************************************************************)
(* There are n positions up to n.                                          *)
(***************************************************************************)
LEMMA IntervalCardinality ==
    ASSUME NEW n \in Nat
    PROVE  IsFiniteSet(1..n) /\ Cardinality(1..n) = n
<1>1. n \in Int /\ 1 \in Int
  OBVIOUS
<1>2. IsFiniteSet(1..n) /\ Cardinality(1..n) = IF 1 > n THEN 0 ELSE n - 1 + 1
  BY ONLY <1>1, FS_Interval
<1>3. (IF 1 > n THEN 0 ELSE n - 1 + 1) = n
  OBVIOUS
<1> QED BY ONLY <1>2, <1>3

(***************************************************************************)
(* Distinct members of a set are no more than it has.                      *)
(***************************************************************************)
LEMMA DistinctFit ==
    ASSUME NEW T, IsFiniteSet(T), NEW n \in Nat, NEW f \in [1..n -> T],
           \A i, j \in 1..n : f[i] = f[j] => i = j
    PROVE  n <= Cardinality(T)
<1>1. f \in Injection(1..n, T)
  BY DEF Injection, IsInjective
<1>2. Cardinality(1..n) <= Cardinality(T)
  BY <1>1, FS_Injection
<1> QED BY <1>2, IntervalCardinality
=============================================================================
