---------------------------- MODULE HandlerProofs ----------------------------
(***************************************************************************)
(* Proofs about HandlerThreads, for any number of threads and packets and  *)
(* all limits. Exceptions kill handlers at any point of an eviction or of  *)
(* a rebuild; what is left undone is always the duty of another thread,    *)
(* one whose view of the oldest entry is still good.                       *)
(***************************************************************************)
EXTENDS HandlerThreads, FiniteSetTheorems, SequenceTheorems, TLAPS

Typed ==
    /\ lru \in Seq(MsgIds) /\ IsInjective(lru) /\ bloom \subseteq MsgIds
    /\ evictions \in Nat /\ window \in Nat
    /\ arrived \subseteq Packet
    /\ pc \in [Thread -> Label] /\ id \in [Thread -> MsgIds]
    /\ seen \in [Thread -> Seq(MsgIds)] /\ invalid \subseteq Thread /\ disturbed \in BOOLEAN

\* What a thread takes for the oldest entry is not empty and still there.
Fresh(t) == seen[t] # <<>> /\ Contains(lru, Head(seen[t]))

\* A thread that will evict, and will not die of it unless another evicts.
OnDuty(t) ==
    \/ pc[t] = "evict"
    \/ pc[t] = "oldest" /\ Fresh(t) /\ t \notin invalid
    \/ pc[t] \in {"compare", "delete"} /\ Fresh(t)

CapacityInv == Len(lru) > CAPACITY => \E t \in Thread : OnDuty(t)

Covered == ToSet(lru) \subseteq bloom

\* Who is about to put an entry has added it to the filter in use.
Added == \A t \in Thread : pc[t] = "put" => id[t] \in bloom

\* One thread refills the filter with what it still lacks, and the evictions are
\* not forgotten yet.
OneRefill == \A t \in Thread : pc[t] = "refill" =>
    /\ evictions >= REBUILD_EVICTION_THRESHOLD
    /\ ToSet(lru) \subseteq bloom \cup ToSet(seen[t])
    /\ \A u \in Thread : pc[u] = "refill" => u = t

\* An entry that the filter lacks is about to be added to it, or the rebuild
\* is still due and a thread will come to it.
WillCover ==
    \/ Covered
    \/ \E t \in Thread : pc[t] = "refill" /\ t \notin invalid
    \/ /\ evictions >= REBUILD_EVICTION_THRESHOLD
       /\ \E t \in Thread : OnDuty(t) \/ pc[t] = "rebuild"

FilterInv == ~ disturbed => Added /\ OneRefill /\ WillCover

\* The threads that have been let through and not been counted yet.
Appending == {t \in Thread : pc[t] = "append"}

RateInv == window + Cardinality(Appending) <= MAX_MESSAGES_PER_WINDOW + Cardinality(Thread) - 1

-----------------------------------------------------------------------------
\* Removing an entry moves those behind it up by one position.
LEMMA RemoveAtElements ==
  ASSUME NEW S, NEW s \in Seq(S), NEW i \in DOMAIN s
  PROVE  /\ RemoveAt(s, i) \in Seq(S)
         /\ DOMAIN RemoveAt(s, i) = 1 .. Len(s) - 1
         /\ \A j \in 1 .. Len(s) - 1 : RemoveAt(s, i)[j] = s[IF j < i THEN j ELSE j + 1]
  <1>1. i \in 1 .. Len(s) /\ Len(s) \in Nat
    OBVIOUS
  <1> DEFINE before == SubSeq(s, 1, i - 1)
             after  == SubSeq(s, i + 1, Len(s))
             r      == RemoveAt(s, i)
  <1>2. before \in Seq(S) /\ Len(before) = i - 1 /\ \A j \in 1 .. i - 1 : before[j] = s[j]
    BY <1>1
  <1>3. after \in Seq(S) /\ Len(after) = Len(s) - i
    BY <1>1
  <1>4. \A j \in 1 .. Len(s) - i : after[j] = s[j + i]
    BY <1>1
  <1>5. r = before \o after
    BY DEF RemoveAt
  <1> HIDE DEF before, after, r
  <1>6. /\ r \in Seq(S) /\ Len(r) = (i - 1) + (Len(s) - i)
        /\ \A j \in 1 .. (i - 1) + (Len(s) - i) :
              r[j] = IF j <= i - 1 THEN before[j] ELSE after[j - (i - 1)]
    <2>1. /\ before \o after \in Seq(S) /\ Len(before \o after) = Len(before) + Len(after)
          /\ \A j \in 1 .. Len(before) + Len(after) :
                (before \o after)[j] = IF j <= Len(before) THEN before[j]
                                                          ELSE after[j - Len(before)]
      BY <1>2, <1>3, ConcatProperties, Zenon
    <2> QED BY <1>2, <1>3, <1>5, <2>1, Zenon
  <1>7. (i - 1) + (Len(s) - i) = Len(s) - 1
    BY <1>1
  <1>8. DOMAIN r = 1 .. Len(s) - 1
    BY <1>6, <1>7
  <1>9. ASSUME NEW j \in 1 .. Len(s) - 1 PROVE r[j] = s[IF j < i THEN j ELSE j + 1]
    <2>1. r[j] = IF j <= i - 1 THEN before[j] ELSE after[j - (i - 1)]
      BY <1>6, <1>7, Zenon
    <2>2. CASE j < i
      <3>1. j <= i - 1 /\ j \in 1 .. i - 1
        BY <1>1, <2>2
      <3> QED BY <1>2, <2>1, <2>2, <3>1, Zenon
    <2>3. CASE ~ (j < i)
      <3>1. /\ ~ (j <= i - 1) /\ j - (i - 1) \in 1 .. Len(s) - i
            /\ j - (i - 1) + i = j + 1
        BY <1>1, <2>3
      <3> QED BY <1>4, <2>1, <2>3, <3>1, Zenon
    <2> QED BY <2>2, <2>3
  <1> QED BY <1>6, <1>8, <1>9, Zenon DEF r

\* Removing an entry adds nothing to a sequence.
LEMMA RemoveAtProperties ==
  ASSUME NEW S, NEW s \in Seq(S), NEW i \in DOMAIN s
  PROVE  RemoveAt(s, i) \in Seq(S) /\ ToSet(RemoveAt(s, i)) \subseteq ToSet(s)
  <1> DEFINE r == RemoveAt(s, i)
  <1>1. DOMAIN s = 1 .. Len(s) /\ Len(s) \in Nat
    OBVIOUS
  <1>2. r \in Seq(S) /\ DOMAIN r = 1 .. Len(s) - 1
        /\ \A j \in 1 .. Len(s) - 1 : r[j] = s[IF j < i THEN j ELSE j + 1]
    BY RemoveAtElements
  <1> HIDE DEF r
  <1>3. \A j \in 1 .. Len(s) - 1 : (IF j < i THEN j ELSE j + 1) \in DOMAIN s
    BY <1>1
  <1>4. \A j \in DOMAIN r : r[j] \in ToSet(s)
    BY <1>2, <1>3 DEF ToSet
  <1> QED BY <1>2, <1>4 DEF ToSet, r

\* Appending keeps what a sequence contains.
LEMMA AppendContains ==
  ASSUME NEW S, NEW s \in Seq(S), NEW e \in S
  PROVE  /\ Append(s, e) \in Seq(S)
         /\ \A x : Contains(s, x) => Contains(Append(s, e), x)
         /\ ToSet(Append(s, e)) = ToSet(s) \cup {e}
  <1>1. Append(s, e) \in Seq(S) /\ Len(Append(s, e)) = Len(s) + 1
    OBVIOUS
  <1>2. \A x : Contains(s, x) => Contains(Append(s, e), x)
    BY <1>1 DEF Contains
  <1>3. ToSet(Append(s, e)) = ToSet(s) \cup {e}
    <2>1. \A i \in 1 .. Len(s) : Append(s, e)[i] = s[i]
      OBVIOUS
    <2>2. Append(s, e)[Len(s) + 1] = e
      OBVIOUS
    <2>3. DOMAIN s = 1 .. Len(s) /\ DOMAIN Append(s, e) = 1 .. Len(s) + 1 /\ Len(s) \in Nat
      BY <1>1
    <2>4. \A i \in DOMAIN Append(s, e) : Append(s, e)[i] \in ToSet(s) \cup {e}
      BY <2>1, <2>2, <2>3 DEF ToSet
    <2>5. \A x \in ToSet(s) \cup {e} : \E i \in DOMAIN Append(s, e) : x = Append(s, e)[i]
      BY <2>1, <2>2, <2>3 DEF ToSet
    <2> QED BY <2>4, <2>5 DEF ToSet
  <1> QED BY <1>1, <1>2, <1>3

\* The oldest entry of a sequence that is not empty is in it.
LEMMA HeadContained ==
  ASSUME NEW S, NEW s \in Seq(S), s # <<>>
  PROVE  Contains(s, Head(s))
  BY DEF Contains

\* Neither makes an entry occur twice.
LEMMA StillInjective ==
  ASSUME NEW S, NEW s \in Seq(S), IsInjective(s)
  PROVE  /\ \A i \in DOMAIN s : IsInjective(RemoveAt(s, i))
         /\ \A e \in S : ~ Contains(s, e) => IsInjective(Append(s, e))
  <1>1. ASSUME NEW i \in DOMAIN s PROVE IsInjective(RemoveAt(s, i))
    <2> DEFINE r == RemoveAt(s, i)
    <2>1. i \in 1 .. Len(s) /\ Len(s) \in Nat /\ DOMAIN s = 1 .. Len(s)
      OBVIOUS
    <2>2. /\ DOMAIN r = 1 .. Len(s) - 1
          /\ \A j \in 1 .. Len(s) - 1 : r[j] = s[IF j < i THEN j ELSE j + 1]
      BY RemoveAtElements
    <2> HIDE DEF r
    <2>3. ASSUME NEW a \in DOMAIN r, NEW b \in DOMAIN r, r[a] = r[b] PROVE a = b
      <3> DEFINE Came(j) == IF j < i THEN j ELSE j + 1
      <3>1. Came(a) \in 1 .. Len(s) /\ Came(b) \in 1 .. Len(s)
        BY <2>1, <2>2
      <3>2. r[a] = s[Came(a)] /\ r[b] = s[Came(b)]
        BY <2>2, Zenon
      <3>3. Came(a) = Came(b)
        BY ONLY IsInjective(s), <2>1, <2>3, <3>1, <3>2, Zenon DEF IsInjective
      <3> QED BY <2>1, <2>2, <3>3
    <2> QED BY <2>3 DEF IsInjective, r
  <1>2. ASSUME NEW e \in S, ~ Contains(s, e) PROVE IsInjective(Append(s, e))
    <2>1. \A i \in 1 .. Len(s) : Append(s, e)[i] = s[i] /\ s[i] # e
      BY <1>2 DEF Contains
    <2>2. Append(s, e)[Len(s) + 1] = e
      OBVIOUS
    <2>3. DOMAIN s = 1 .. Len(s) /\ DOMAIN Append(s, e) = 1 .. Len(s) + 1 /\ Len(s) \in Nat
      OBVIOUS
    <2>4. \A a, b \in DOMAIN Append(s, e) : Append(s, e)[a] = Append(s, e)[b] => a = b
      BY <2>1, <2>2, <2>3 DEF IsInjective
    <2> QED BY <2>4 DEF IsInjective
  <1> QED BY <1>1, <1>2

-----------------------------------------------------------------------------
\* Types hold initially.
LEMMA InitTyped == Init => Typed
  <1> SUFFICES ASSUME Init PROVE Typed
    OBVIOUS
  <1>1. (CHOOSE i \in MsgIds : TRUE) \in MsgIds
    <2>1. MsgIds # {}
      BY ThreadsAssumption DEF MsgIds
    <2> QED BY <2>1
  <1>2. lru \in Seq(MsgIds) /\ IsInjective(lru)
    BY DEF Init, IsInjective
  <1> QED BY <1>1, <1>2 DEF Init, Typed, Label

\* Every step of a thread keeps the types.
LEMMA NextTyped == Typed /\ [Next]_vars => Typed'
  <1> SUFFICES ASSUME Typed, [Next]_vars PROVE Typed'
    OBVIOUS
  <1> USE DEF Typed, Goto, Label, cache
  <1>1. ASSUME NEW t \in Thread, NEW p \in Packet, Arrive(t, p) PROVE Typed'
    <2>1. Id(p) \in MsgIds
      BY DEF MsgIds
    <2> QED BY <1>1, <2>1 DEF Arrive
  <1>2. ASSUME NEW t \in Thread, Screen(t) PROVE Typed'
    BY <1>2 DEF Screen
  <1>3. ASSUME NEW t \in Thread, Add(t) PROVE Typed'
    BY <1>3 DEF Add
  <1>4. ASSUME NEW t \in Thread, Put(t) PROVE Typed'
    <2>1. lru' \in Seq(MsgIds) /\ IsInjective(lru') /\ invalid' \subseteq Thread
      <3>1. id[t] \in MsgIds
        OBVIOUS
      <3>2. CASE Contains(lru, id[t])
        BY <1>4, <3>2 DEF Put
      <3>3. CASE ~ Contains(lru, id[t])
        <4>1. lru' = Append(lru, id[t]) /\ invalid' = Thread
          BY <1>4, <3>3 DEF Put
        <4>2. Append(lru, id[t]) \in Seq(MsgIds)
          BY <3>1
        <4>3. IsInjective(Append(lru, id[t]))
          BY <3>1, <3>3, StillInjective
        <4> QED BY <4>1, <4>2, <4>3
      <3> QED BY <3>2, <3>3
    <2>2. disturbed' \in BOOLEAN
      BY <1>4 DEF Put, At
    <2> QED BY <1>4, <2>1, <2>2 DEF Put
  <1>5. ASSUME NEW t \in Thread, Loop(t) PROVE Typed'
    BY <1>5 DEF Loop, AfterLoop
  <1>16. ASSUME NEW t \in Thread, Oldest(t) \/ OldestFails(t) PROVE Typed'
    BY <1>16 DEF Oldest, OldestFails
  <1>6. ASSUME NEW t \in Thread, Compare(t) PROVE Typed'
    BY <1>6 DEF Compare, AfterLoop
  <1>7. ASSUME NEW t \in Thread, Delete(t) PROVE Typed'
    <2>1. lru' \in Seq(MsgIds) /\ IsInjective(lru')
      BY <1>7, RemoveAtProperties, StillInjective DEF Delete
    <2> QED BY <1>7, <2>1 DEF Delete
  <1>8. ASSUME NEW t \in Thread, DeleteFails(t) PROVE Typed'
    BY <1>8 DEF DeleteFails
  <1>9. ASSUME NEW t \in Thread, Rebuild(t) PROVE Typed'
    BY <1>9 DEF Rebuild, At
  <1>10. ASSUME NEW t \in Thread, Refill(t) PROVE Typed'
    <2>1. seen[t] \in Seq(MsgIds) /\ seen[t] # <<>>
      BY <1>10 DEF Refill
    <2>2. Head(seen[t]) \in MsgIds /\ Tail(seen[t]) \in Seq(MsgIds)
      BY <2>1
    <2> QED BY <1>10, <2>2 DEF Refill
  <1>11. ASSUME NEW t \in Thread, RefillEnds(t) PROVE Typed'
    BY <1>11 DEF RefillEnds
  <1>12. ASSUME NEW t \in Thread, RefillFails(t) PROVE Typed'
    BY <1>12 DEF RefillFails
  <1>13. ASSUME NEW t \in Thread, Rate(t) PROVE Typed'
    BY <1>13 DEF Rate
  <1>14. ASSUME NEW t \in Thread, AppendNow(t) PROVE Typed'
    BY <1>14 DEF AppendNow
  <1>15. CASE UNCHANGED vars
    BY <1>15 DEF vars
  <1> QED BY <1>1, <1>2, <1>3, <1>4, <1>5, <1>6, <1>7, <1>8, <1>9, <1>10, <1>11, <1>12, <1>13,
             <1>14, <1>15, <1>16 DEF Next, Run

\* Types hold of every behaviour.
LEMMA AlwaysTyped == Spec => []Typed
  BY InitTyped, NextTyped, PTL DEF Spec

\* Types: no entry of the LRU occurs twice, whatever the threads do to it
\* (dedup_check.py:50-58).
THEOREM TypesCorrect == Spec => []TypeOK
  <1>1. Typed => TypeOK
    BY DEF Typed, TypeOK, ToSet
  <1> QED BY AlwaysTyped, <1>1, PTL

-----------------------------------------------------------------------------
\* The rate limit.

\* There are finitely many threads, hence finitely many in any part of a step.
LEMMA Counts ==
  /\ Cardinality(Thread) \in Nat
  /\ IsFiniteSet(Appending) /\ Cardinality(Appending) \in Nat
  /\ Cardinality(Appending) <= Cardinality(Thread)
  /\ Cardinality(Appending') \in Nat /\ Cardinality(Appending') <= Cardinality(Thread)
  <1>1. Appending \subseteq Thread /\ Appending' \subseteq Thread
    BY DEF Appending
  <1> QED BY <1>1, ThreadsAssumption, FS_Subset, FS_CardinalityType

\* Initially nobody is counted.
LEMMA InitRate == Init => RateInv
  <1> SUFFICES ASSUME Init PROVE RateInv
    OBVIOUS
  <1>1. Appending = {}
    BY DEF Init, Appending
  <1>2. Cardinality(Appending) = 0
    BY <1>1, FS_EmptySet
  <1> QED BY <1>2, Counts, ThreadsAssumption DEF Init, RateInv

\* A thread is let through only while the window has room; then it and all
\* others together make at most as many as there are threads.
LEMMA NextRate == Typed /\ RateInv /\ [Next]_vars => RateInv'
  <1> SUFFICES ASSUME Typed, RateInv, [Next]_vars PROVE RateInv'
    OBVIOUS
  <1> USE DEF Goto
  <1>1. ASSUME window' = window, Appending' = Appending PROVE RateInv'
    BY <1>1 DEF RateInv
  <1>2. ASSUME NEW t \in Thread, NEW p \in Packet, Arrive(t, p) PROVE RateInv'
    BY <1>1, <1>2 DEF Arrive, Appending, Typed
  <1>3. ASSUME NEW t \in Thread, Screen(t) \/ Add(t) \/ Put(t) PROVE RateInv'
    <2>1. window' = window
      BY <1>3 DEF Screen, Add, Put
    <2>2. Appending' = Appending
      BY <1>3 DEF Screen, Add, Put, Appending, Typed
    <2> QED BY <1>1, <2>1, <2>2
  <1>4. ASSUME NEW t \in Thread, Compare(t) \/ Delete(t) \/ DeleteFails(t) PROVE RateInv'
    <2>1. window' = window
      BY <1>4 DEF Compare, Delete, DeleteFails
    <2>2. Appending' = Appending
      BY <1>4 DEF Compare, AfterLoop, Delete, DeleteFails, Appending, Typed
    <2> QED BY <1>1, <2>1, <2>2
  <1>9. ASSUME NEW t \in Thread, Loop(t) \/ Oldest(t) \/ OldestFails(t) PROVE RateInv'
    <2>1. window' = window
      BY <1>9 DEF Loop, Oldest, OldestFails
    <2>2. Appending' = Appending
      BY <1>9 DEF Loop, AfterLoop, Oldest, OldestFails, Appending, Typed
    <2> QED BY <1>1, <2>1, <2>2
  <1>5. ASSUME NEW t \in Thread, Rebuild(t) \/ Refill(t) \/ RefillEnds(t) \/ RefillFails(t) PROVE RateInv'
    <2>1. window' = window
      BY <1>5 DEF Rebuild, Refill, RefillEnds, RefillFails
    <2>2. Appending' = Appending
      BY <1>5 DEF Rebuild, Refill, RefillEnds, RefillFails, Appending, Typed
    <2> QED BY <1>1, <2>1, <2>2
  <1>6. ASSUME NEW t \in Thread, Rate(t) PROVE RateInv'
    <2>1. CASE window >= MAX_MESSAGES_PER_WINDOW
      <3>1. Appending' = Appending /\ window' = window
        BY <1>6, <2>1 DEF Rate, Appending, Typed
      <3> QED BY <1>1, <3>1
    <2>2. CASE ~ (window >= MAX_MESSAGES_PER_WINDOW)
      <3>1. window' = window /\ window \in Nat /\ MAX_MESSAGES_PER_WINDOW \in Nat
        BY <1>6, ThreadsAssumption DEF Rate, Typed
      <3> QED BY <2>2, <3>1, Counts DEF RateInv
    <2> QED BY <2>1, <2>2
  <1>7. ASSUME NEW t \in Thread, AppendNow(t) PROVE RateInv'
    <2>1. Appending' = Appending \ {t} /\ t \in Appending
      BY <1>7 DEF AppendNow, Appending, Typed
    <2>2. Cardinality(Appending') = Cardinality(Appending) - 1
      BY <2>1, Counts, FS_RemoveElement
    <2>3. window' = window + 1 /\ window \in Nat /\ MAX_MESSAGES_PER_WINDOW \in Nat
      BY <1>7, ThreadsAssumption DEF AppendNow, Typed
    <2> QED BY <2>2, <2>3, Counts DEF RateInv
  <1>8. CASE UNCHANGED vars
    BY <1>1, <1>8 DEF vars, Appending
  <1> QED BY <1>2, <1>3, <1>4, <1>5, <1>6, <1>7, <1>8, <1>9 DEF Next, Run

\* Racing threads exceed the limit by at most their number less one
\* (rate_limit_check.py:57-72).
THEOREM OvershootBounded == Spec => []RateOvershootBounded
  <1>1. Typed /\ RateInv => RateOvershootBounded
    <2> SUFFICES ASSUME Typed, RateInv PROVE RateOvershootBounded
      OBVIOUS
    <2>1. window \in Nat /\ MAX_MESSAGES_PER_WINDOW \in Nat
      BY ThreadsAssumption DEF Typed
    <2> QED BY <2>1, Counts DEF RateInv, RateOvershootBounded
  <1>2. Spec => []RateInv
    BY InitRate, NextRate, AlwaysTyped, PTL DEF Spec
  <1> QED BY <1>1, <1>2, AlwaysTyped, PTL

-----------------------------------------------------------------------------
\* Who is on duty.

\* What a step of t leaves alone of the other threads.
Untouched(t) == \A u \in Thread : u # t =>
    /\ pc'[u] = pc[u] /\ seen'[u] = seen[u] /\ id'[u] = id[u]
    /\ u \in invalid' <=> u \in invalid

\* A step of t that leaves the LRU alone leaves the others on duty.
LEMMA OthersOnDuty ==
  ASSUME Typed, NEW t \in Thread, lru' = lru, Untouched(t)
  PROVE  \A u \in Thread : u # t => (OnDuty(u)' <=> OnDuty(u))
  BY DEF OnDuty, Fresh, Untouched

\* A thread at the head of the eviction loop is on duty, and stays so when it
\* begins to iterate, unless there is nothing left.
LEMMA LoopOnDuty ==
  ASSUME Typed, NEW t \in Thread, Loop(t), lru # <<>>
  PROVE  OnDuty(t)'
  <1>1. pc'[t] = "oldest" /\ seen'[t] = lru /\ lru' = lru /\ t \notin invalid'
    BY DEF Loop, Goto, Typed, cache
  <1>2. Contains(lru, Head(lru))
    BY HeadContained DEF Typed
  <1> QED BY <1>1, <1>2 DEF OnDuty, Fresh

\* It stays on duty with the oldest entry in hand.
LEMMA OldestOnDuty ==
  ASSUME Typed, NEW t \in Thread, Oldest(t), OnDuty(t)
  PROVE  OnDuty(t)'
  BY DEF Oldest, Goto, Typed, OnDuty, Fresh, cache

\* It stays on duty when the length tells it to evict.
LEMMA CompareOnDuty ==
  ASSUME Typed, NEW t \in Thread, Compare(t), OnDuty(t), Len(lru) > CAPACITY
  PROVE  OnDuty(t)'
  BY DEF Compare, Goto, Typed, OnDuty, Fresh, cache

\* Who dies while it evicts was not on duty.
LEMMA DeadOffDuty ==
  ASSUME NEW t \in Thread, OldestFails(t) \/ DeleteFails(t)
  PROVE  ~ OnDuty(t)
  BY DEF OldestFails, DeleteFails, OnDuty, Fresh

\* A step of a thread that is not evicting leaves everybody on duty.
LEMMA ElsewhereOnDuty ==
  ASSUME Typed, NEW t \in Thread, pc[t] \notin {"evict", "oldest", "compare", "delete"},
         lru' = lru, Untouched(t)
  PROVE  \A u \in Thread : OnDuty(u) => OnDuty(u)'
  <1>1. ~ OnDuty(t)
    BY DEF OnDuty
  <1> QED BY <1>1, OthersOnDuty

\* The steps that leave the LRU alone.
LEMMA StepsUntouched ==
  ASSUME Typed, NEW t \in Thread,
         \/ \E p \in Packet : Arrive(t, p)
         \/ Screen(t) \/ Add(t) \/ Loop(t) \/ Oldest(t) \/ OldestFails(t) \/ Compare(t)
         \/ DeleteFails(t) \/ Rebuild(t) \/ Refill(t) \/ RefillEnds(t) \/ RefillFails(t)
         \/ Rate(t) \/ AppendNow(t)
  PROVE  lru' = lru /\ Untouched(t)
  <1> USE DEF Typed, Goto, Untouched, cache
  <1>1. CASE \/ \E p \in Packet : Arrive(t, p)
             \/ Screen(t) \/ Add(t)
    BY <1>1 DEF Arrive, Screen, Add
  <1>2. CASE Loop(t) \/ Oldest(t) \/ OldestFails(t) \/ Compare(t) \/ DeleteFails(t)
    BY <1>2 DEF Loop, Oldest, OldestFails, Compare, DeleteFails
  <1>3. CASE Rebuild(t) \/ Refill(t) \/ RefillEnds(t) \/ RefillFails(t)
    BY <1>3 DEF Rebuild, Refill, RefillEnds, RefillFails
  <1>4. CASE Rate(t) \/ AppendNow(t)
    BY <1>4 DEF Rate, AppendNow
  <1> QED BY <1>1, <1>2, <1>3, <1>4

\* Initially the LRU is empty.
LEMMA InitCapacity == Init => CapacityInv
  <1>1. Len(<<>>) = 0 /\ ~ (0 > CAPACITY)
    BY ThreadsAssumption
  <1> QED BY <1>1 DEF Init, CapacityInv

\* Whoever makes the LRU too long, or evicts from it, is on duty next.
LEMMA NextCapacity == Typed /\ CapacityInv /\ [Next]_vars => CapacityInv'
  <1> SUFFICES ASSUME Typed, CapacityInv, [Next]_vars, (Len(lru) > CAPACITY)'
               PROVE  \E u \in Thread : OnDuty(u)'
    BY DEF CapacityInv
  <1>1. ASSUME NEW t \in Thread,
               \/ \E p \in Packet : Arrive(t, p)
               \/ Screen(t) \/ Add(t) \/ Rebuild(t) \/ Refill(t) \/ RefillEnds(t) \/ RefillFails(t)
               \/ Rate(t) \/ AppendNow(t)
        PROVE  \E u \in Thread : OnDuty(u)'
    <2>1. pc[t] \notin {"evict", "oldest", "compare", "delete"}
      BY <1>1 DEF Arrive, Screen, Add, Rebuild, Refill, RefillEnds, RefillFails, Rate, AppendNow
    <2>2. lru' = lru /\ Untouched(t)
      BY <1>1, StepsUntouched
    <2> QED BY <2>1, <2>2, ElsewhereOnDuty DEF CapacityInv
  <1>2. ASSUME NEW t \in Thread, Put(t) \/ Delete(t) PROVE \E u \in Thread : OnDuty(u)'
    BY <1>2 DEF Put, Delete, Goto, Typed, OnDuty
  <1>3. ASSUME NEW t \in Thread, Loop(t) PROVE \E u \in Thread : OnDuty(u)'
    <2>1. lru # <<>>
      BY <1>3, StepsUntouched, ThreadsAssumption
    <2> QED BY <1>3, <2>1, LoopOnDuty
  <1>4. ASSUME NEW t \in Thread, Oldest(t) \/ OldestFails(t) \/ Compare(t) \/ DeleteFails(t)
        PROVE  \E u \in Thread : OnDuty(u)'
    <2>1. lru' = lru /\ Untouched(t)
      BY <1>4, StepsUntouched
    <2>2. PICK u \in Thread : OnDuty(u)
      BY <2>1 DEF CapacityInv
    <2>3. CASE u = t
      <3>1. Oldest(t) \/ Compare(t)
        BY <1>4, <2>2, <2>3, DeadOffDuty
      <3> QED BY <2>1, <2>2, <2>3, <3>1, OldestOnDuty, CompareOnDuty
    <2>4. CASE u # t
      BY <2>1, <2>2, <2>4, OthersOnDuty
    <2> QED BY <2>3, <2>4
  <1>5. CASE UNCHANGED vars
    BY <1>5 DEF vars, cache, CapacityInv, OnDuty, Fresh
  <1> QED BY <1>1, <1>2, <1>3, <1>4, <1>5 DEF Next, Run

\* When all handlers have ended, or died, the LRU is within its capacity
\* (dedup_check.py:55-58).
THEOREM CapacityHolds == Spec => []CapacityAtRest
  <1>1. Typed /\ CapacityInv => CapacityAtRest
    <2> SUFFICES ASSUME Typed, CapacityInv, AtRest PROVE Len(lru) <= CAPACITY
      BY DEF CapacityAtRest
    <2>1. \A t \in Thread : ~ OnDuty(t)
      BY DEF AtRest, OnDuty
    <2> QED BY <2>1, ThreadsAssumption DEF CapacityInv, Typed
  <1>2. Spec => []CapacityInv
    BY InitCapacity, NextCapacity, AlwaysTyped, PTL DEF Spec
  <1> QED BY <1>1, <1>2, AlwaysTyped, PTL

-----------------------------------------------------------------------------
\* The filter.

\* Initially there is no entry to cover.
LEMMA InitFilter == Init => FilterInv
  BY DEF Init, FilterInv, Added, OneRefill, WillCover, Covered, ToSet

\* A step of t outside the eviction and the rebuild leaves them as they are.
LEMMA ElsewhereFilter ==
  ASSUME Typed, FilterInv, ~ disturbed, NEW t \in Thread,
         pc[t] \notin {"evict", "oldest", "compare", "delete", "rebuild", "refill"},
         pc'[t] \notin {"put", "refill"},
         bloom' = bloom, lru' = lru, evictions' = evictions, Untouched(t)
  PROVE  Added' /\ OneRefill' /\ WillCover'
  <1>1. Added'
    BY DEF FilterInv, Added, Untouched
  <1>2. OneRefill'
    BY DEF FilterInv, OneRefill, Untouched
  <1>3. WillCover'
    <2>1. CASE Covered
      BY <2>1 DEF WillCover, Covered
    <2>2. CASE \E u \in Thread : pc[u] = "refill" /\ u \notin invalid
      BY <2>2 DEF WillCover, Untouched
    <2>3. CASE /\ evictions >= REBUILD_EVICTION_THRESHOLD
               /\ \E u \in Thread : OnDuty(u) \/ pc[u] = "rebuild"
      <3>1. \A u \in Thread : OnDuty(u) => OnDuty(u)'
        BY ElsewhereOnDuty
      <3> QED BY <2>3, <3>1 DEF WillCover, Untouched
    <2> QED BY <2>1, <2>2, <2>3 DEF FilterInv, WillCover
  <1> QED BY <1>1, <1>2, <1>3

\* An entry is put into the LRU after it has been added to the filter in use,
\* which no rebuild replaces in between.
LEMMA PutFilter ==
  ASSUME Typed, FilterInv, ~ disturbed, NEW t \in Thread, Put(t), ~ disturbed'
  PROVE  Added' /\ OneRefill' /\ WillCover'
  <1>1. /\ id[t] \in bloom /\ id[t] \in MsgIds /\ \A u \in Thread : pc[u] # "refill"
        /\ bloom' = bloom /\ evictions' = evictions /\ id' = id
        /\ pc' = [pc EXCEPT ![t] = "evict"]
    BY DEF Put, Goto, At, FilterInv, Added, Typed
  <1>2. pc'[t] = "evict" /\ \A u \in Thread : u # t => pc'[u] = pc[u]
    BY <1>1 DEF Typed
  <1>3. Added' /\ OneRefill'
    BY <1>1, <1>2 DEF FilterInv, Added, OneRefill
  <1>4. WillCover'
    <2>1. CASE Covered
      <3>1. ToSet(lru') \subseteq ToSet(lru) \cup {id[t]}
        <4>1. CASE Contains(lru, id[t])
          <5>1. lru' = lru
            BY <4>1 DEF Put
          <5> QED BY <5>1
        <4>2. CASE ~ Contains(lru, id[t])
          <5>1. lru' = Append(lru, id[t])
            BY <4>2 DEF Put
          <5>2. lru \in Seq(MsgIds)
            BY DEF Typed
          <5>3. ToSet(Append(lru, id[t])) = ToSet(lru) \cup {id[t]}
            BY <1>1, <5>2, AppendContains
          <5> QED BY <5>1, <5>3
        <4> QED BY <4>1, <4>2
      <3> QED BY <1>1, <2>1, <3>1 DEF WillCover, Covered
    <2>2. CASE evictions >= REBUILD_EVICTION_THRESHOLD
      BY <1>1, <1>2, <2>2 DEF WillCover, OnDuty
    <2> QED BY <1>1, <2>1, <2>2 DEF FilterInv, WillCover
  <1> QED BY <1>3, <1>4

\* Whoever cuts a refill short by an eviction is on duty.
LEMMA DeleteFilter ==
  ASSUME Typed, FilterInv, ~ disturbed, NEW t \in Thread, Delete(t)
  PROVE  Added' /\ OneRefill' /\ WillCover'
  <1>1. /\ bloom' = bloom /\ evictions' = evictions + 1 /\ id' = id /\ seen' = seen
        /\ evictions \in Nat
        /\ pc'[t] = "evict" /\ \A u \in Thread : u # t => pc'[u] = pc[u]
    BY DEF Delete, Goto, Typed
  <1>2. REBUILD_EVICTION_THRESHOLD \in Nat
    BY ThreadsAssumption
  <1>3. ToSet(lru') \subseteq ToSet(lru)
    BY RemoveAtProperties DEF Delete, Typed
  <1>4. Added'
    BY <1>1 DEF FilterInv, Added
  <1>5. OneRefill'
    BY <1>1, <1>2, <1>3 DEF FilterInv, OneRefill
  <1>6. WillCover'
    <2>1. CASE Covered
      BY <1>1, <1>3, <2>1 DEF WillCover, Covered
    <2>2. CASE evictions >= REBUILD_EVICTION_THRESHOLD
      <3>1. evictions' >= REBUILD_EVICTION_THRESHOLD
        BY <1>1, <1>2, <2>2
      <3> QED BY <1>1, <3>1 DEF WillCover, OnDuty
    <2> QED BY <2>1, <2>2 DEF FilterInv, WillCover, OneRefill
  <1> QED BY <1>4, <1>5, <1>6

\* The threads that evict hand the duty to each other, or go on to rebuild.
LEMMA EvictFilter ==
  ASSUME Typed, FilterInv, ~ disturbed, NEW t \in Thread,
         Loop(t) \/ Oldest(t) \/ OldestFails(t) \/ Compare(t) \/ DeleteFails(t)
  PROVE  Added' /\ OneRefill' /\ WillCover'
  <1>1. lru' = lru /\ Untouched(t)
    BY StepsUntouched
  <1>2. /\ bloom' = bloom /\ evictions' = evictions
        /\ pc[t] \in {"evict", "oldest", "compare", "delete"} /\ pc'[t] \notin {"put", "refill"}
    BY DEF Loop, Oldest, OldestFails, Compare, DeleteFails, AfterLoop, Goto, cache, Typed
  <1>3. Added' /\ OneRefill'
    BY <1>1, <1>2 DEF FilterInv, Added, OneRefill, Untouched
  <1>4. WillCover'
    <2>1. CASE Covered
      BY <1>1, <1>2, <2>1 DEF WillCover, Covered
    <2>2. CASE \E u \in Thread : pc[u] = "refill" /\ u \notin invalid
      BY <1>1, <1>2, <2>2 DEF WillCover, Untouched
    <2>3. ASSUME evictions >= REBUILD_EVICTION_THRESHOLD,
                 NEW u \in Thread, OnDuty(u) \/ pc[u] = "rebuild"
          PROVE  WillCover'
      <3>1. CASE u # t
        BY <1>1, <1>2, <2>3, <3>1, OthersOnDuty DEF WillCover, Untouched
      <3>2. CASE u = t /\ Loop(t)
        <4>1. CASE lru = <<>>
          BY <1>1, <1>2, <4>1 DEF WillCover, Covered, ToSet
        <4>2. CASE lru # <<>>
          BY <1>1, <1>2, <2>3, <3>2, <4>2, LoopOnDuty DEF WillCover
        <4> QED BY <4>1, <4>2
      <3>3. CASE u = t /\ Oldest(t)
        BY <1>2, <2>3, <3>3, OldestOnDuty DEF WillCover
      <3>4. CASE u = t /\ Compare(t)
        <4>1. OnDuty(t)
          BY <1>2, <2>3, <3>4
        <4>2. CASE Len(lru) > CAPACITY
          BY <1>2, <2>3, <3>4, <4>1, <4>2, CompareOnDuty DEF WillCover
        <4>3. CASE ~ (Len(lru) > CAPACITY)
          <5>1. pc'[t] = "rebuild"
            BY <2>3, <3>4, <4>3 DEF Compare, AfterLoop, Goto, Typed
          <5> QED BY <1>2, <2>3, <5>1 DEF WillCover
        <4> QED BY <4>2, <4>3
      <3>5. CASE u = t /\ (OldestFails(t) \/ DeleteFails(t))
        BY <1>2, <2>3, <3>5, DeadOffDuty
      <3> QED BY <3>1, <3>2, <3>3, <3>4, <3>5
    <2> QED BY <2>1, <2>2, <2>3 DEF FilterInv, WillCover
  <1> QED BY <1>3, <1>4

\* What a round of the refill takes from the iterator it adds to the filter.
LEMMA HeadAndTail ==
  ASSUME NEW S, NEW s \in Seq(S), s # <<>>
  PROVE  ToSet(s) \subseteq {Head(s)} \cup ToSet(Tail(s))
  <1>1. ASSUME NEW i \in 1 .. Len(s), i # 1 PROVE s[i] = Tail(s)[i - 1] /\ i - 1 \in DOMAIN Tail(s)
    BY <1>1
  <1>2. s[1] = Head(s) /\ DOMAIN s = 1 .. Len(s)
    OBVIOUS
  <1> QED BY <1>1, <1>2 DEF ToSet

\* The threads that rebuild: one at a time, while nobody inserts.
LEMMA RebuildFilter ==
  ASSUME Typed, FilterInv, ~ disturbed, NEW t \in Thread, ~ disturbed',
         Rebuild(t) \/ Refill(t) \/ RefillEnds(t) \/ RefillFails(t)
  PROVE  Added' /\ OneRefill' /\ WillCover'
  <1>0. lru' = lru /\ Untouched(t)
    BY StepsUntouched
  <1>1. ASSUME Rebuild(t) PROVE Added' /\ OneRefill' /\ WillCover'
    <2>1. /\ \A u \in Thread : pc[u] \notin {"add", "put", "refill"}
          /\ ~ (evictions < REBUILD_EVICTION_THRESHOLD)
      BY <1>1 DEF Rebuild, At
    <2>2. evictions >= REBUILD_EVICTION_THRESHOLD
      BY <2>1, ThreadsAssumption DEF Typed
    <2>3. /\ evictions' = evictions /\ pc'[t] = "refill" /\ seen'[t] = lru /\ t \notin invalid'
      BY <1>1 DEF Rebuild, Goto, Typed
    <2>4. \A u \in Thread : u # t => pc'[u] = pc[u]
      BY <1>0 DEF Untouched
    <2> QED BY <1>0, <2>1, <2>2, <2>3, <2>4 DEF Added, OneRefill, WillCover
  <1>2. ASSUME Refill(t) PROVE Added' /\ OneRefill' /\ WillCover'
    <2>1. /\ seen[t] \in Seq(MsgIds) /\ seen[t] # <<>> /\ t \notin invalid
          /\ bloom' = bloom \cup {Head(seen[t])} /\ seen'[t] = Tail(seen[t])
          /\ evictions' = evictions /\ pc' = pc /\ pc[t] = "refill" /\ id' = id
          /\ invalid' = invalid
      BY <1>2 DEF Refill, Typed
    <2>2. ToSet(seen[t]) \subseteq {Head(seen[t])} \cup ToSet(Tail(seen[t]))
      BY <2>1, HeadAndTail
    <2>3. Added' /\ WillCover'
      BY <1>0, <2>1 DEF FilterInv, Added, WillCover
    <2>4. OneRefill'
      BY <1>0, <2>1, <2>2 DEF FilterInv, OneRefill
    <2> QED BY <2>3, <2>4
  <1>3. ASSUME RefillEnds(t) PROVE Added' /\ OneRefill' /\ WillCover'
    <2>1. /\ bloom' = bloom /\ id' = id /\ pc[t] = "refill" /\ seen[t] = <<>> /\ pc'[t] = "rate"
      BY <1>3 DEF RefillEnds, Goto, Typed
    <2>2. Covered
      BY <2>1 DEF FilterInv, OneRefill, Covered, ToSet
    <2> QED BY <1>0, <2>1, <2>2 DEF FilterInv, Added, OneRefill, WillCover, Covered, Untouched
  <1>4. ASSUME RefillFails(t) PROVE Added' /\ OneRefill' /\ WillCover'
    <2>1. /\ bloom' = bloom /\ evictions' = evictions /\ id' = id
          /\ pc[t] = "refill" /\ t \in invalid /\ pc'[t] = "idle"
      BY <1>4 DEF RefillFails, Goto, cache, Typed
    <2>2. Added' /\ OneRefill'
      BY <1>0, <2>1 DEF FilterInv, Added, OneRefill, Untouched
    <2>3. \A u \in Thread : pc[u] = "refill" => u = t
      BY <2>1 DEF FilterInv, OneRefill
    <2>4. \A u \in Thread : OnDuty(u) => OnDuty(u)'
      BY <1>0, <2>1, ElsewhereOnDuty
    <2>5. WillCover'
      <3>1. CASE Covered
        BY <1>0, <2>1, <3>1 DEF WillCover, Covered
      <3>2. CASE /\ evictions >= REBUILD_EVICTION_THRESHOLD
                 /\ \E u \in Thread : OnDuty(u) \/ pc[u] = "rebuild"
        BY <1>0, <2>1, <2>4, <3>2 DEF WillCover, Untouched
      <3> QED BY <2>1, <2>3, <3>1, <3>2 DEF FilterInv, WillCover
    <2> QED BY <2>2, <2>5
  <1> QED BY <1>1, <1>2, <1>3, <1>4

\* Every step of a thread keeps the invariant of the filter.
LEMMA NextFilter == Typed /\ FilterInv /\ [Next]_vars => FilterInv'
  <1> SUFFICES ASSUME Typed, FilterInv, [Next]_vars, ~ disturbed'
               PROVE  Added' /\ OneRefill' /\ WillCover'
    BY DEF FilterInv
  <1>1. ~ disturbed
    BY DEF Next, vars, Run, Arrive, Screen, Add, Put, Loop, Oldest, OldestFails, Compare, Delete,
           DeleteFails, Rebuild, Refill, RefillEnds, RefillFails, Rate, AppendNow
  <1>2. ASSUME NEW t \in Thread,
               (\E p \in Packet : Arrive(t, p)) \/ Screen(t) \/ Rate(t) \/ AppendNow(t)
        PROVE  Added' /\ OneRefill' /\ WillCover'
    <2>1. lru' = lru /\ Untouched(t)
      BY <1>2, StepsUntouched
    <2>2. /\ bloom' = bloom /\ evictions' = evictions
          /\ pc[t] \in {"idle", "screen", "rate", "append"}
          /\ pc'[t] \in {"idle", "screen", "add", "append"}
      BY <1>2 DEF Arrive, Screen, Rate, AppendNow, Goto, cache, Typed
    <2> QED BY <1>1, <2>1, <2>2, ElsewhereFilter
  <1>3. ASSUME NEW t \in Thread, Add(t) PROVE Added' /\ OneRefill' /\ WillCover'
    <2>1. lru' = lru /\ Untouched(t)
      BY <1>3, StepsUntouched
    <2>2. /\ bloom' = bloom \cup {id[t]} /\ evictions' = evictions
          /\ id' = id /\ pc[t] = "add" /\ pc'[t] = "put"
      BY <1>3 DEF Add, Goto, Typed
    <2>3. Added' /\ OneRefill'
      BY <1>1, <2>1, <2>2 DEF FilterInv, Added, OneRefill, Untouched
    <2>4. \A u \in Thread : OnDuty(u) => OnDuty(u)'
      BY <2>1, <2>2, ElsewhereOnDuty
    <2>5. WillCover'
      BY <1>1, <2>1, <2>2, <2>4 DEF FilterInv, WillCover, Covered, Untouched
    <2> QED BY <2>3, <2>5
  <1>4. ASSUME NEW t \in Thread, Put(t) PROVE Added' /\ OneRefill' /\ WillCover'
    BY <1>1, <1>4, PutFilter
  <1>5. ASSUME NEW t \in Thread, Delete(t) PROVE Added' /\ OneRefill' /\ WillCover'
    BY <1>1, <1>5, DeleteFilter
  <1>6. ASSUME NEW t \in Thread,
               Loop(t) \/ Oldest(t) \/ OldestFails(t) \/ Compare(t) \/ DeleteFails(t)
        PROVE  Added' /\ OneRefill' /\ WillCover'
    BY <1>1, <1>6, EvictFilter
  <1>7. ASSUME NEW t \in Thread, Rebuild(t) \/ Refill(t) \/ RefillEnds(t) \/ RefillFails(t)
        PROVE  Added' /\ OneRefill' /\ WillCover'
    BY <1>1, <1>7, RebuildFilter
  <1>8. CASE UNCHANGED vars
    BY <1>1, <1>8 DEF vars, cache, FilterInv, Added, OneRefill, WillCover, Covered, OnDuty, Fresh
  <1> QED BY <1>2, <1>3, <1>4, <1>5, <1>6, <1>7, <1>8 DEF Next, Run

\* While no insertion meets a rebuild and no rebuild is begun in vain, handlers
\* that die half-way leave no live entry out of the filter (dedup_check.py:62-66).
THEOREM FilterCovers == Spec => []FilterCoversAtRest
  <1>1. FilterInv => FilterCoversAtRest
    BY DEF FilterInv, FilterCoversAtRest, AtRest, WillCover, Covered, OnDuty
  <1>2. Spec => []FilterInv
    BY InitFilter, NextFilter, AlwaysTyped, PTL DEF Spec
  <1> QED BY <1>1, <1>2, PTL
=============================================================================
