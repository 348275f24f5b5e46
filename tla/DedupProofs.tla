----------------------------- MODULE DedupProofs -----------------------------
(***************************************************************************)
(* Proofs about the dedup cache: for every capacity, TTL, rebuild          *)
(* threshold and hash family, an identifier is let through twice only when *)
(* more than TTL_SECONDS or at least CAPACITY other messages lie between.  *)
(***************************************************************************)
EXTENDS Dedup, SequenceLemmas
-----------------------------------------------------------------------------
(* The operators of DedupCache.                                            *)

(***************************************************************************)
(* The loop of _evict breaks, and EvictCount is where it first does.       *)
(***************************************************************************)
LEMMA EvictCountProperties ==
    ASSUME NEW lru \in Seq(Entry), NEW t \in Int
    PROVE  /\ EvictCount(lru, t) \in 0..Len(lru)
           /\ ~ MustEvict(lru, t, EvictCount(lru, t))
           /\ \A j \in 0..(EvictCount(lru, t) - 1) : MustEvict(lru, t, j)
<1> DEFINE Stop == {k \in 0..Len(lru) : ~ MustEvict(lru, t, k)}
<1>1. Len(lru) \in Nat
  BY LenProperties
<1>2. Len(lru) \in Stop
  BY <1>1 DEF MustEvict
<1>3. PICK k \in Stop : \A j \in 0..(k - 1) : j \notin Stop
  <2> HIDE DEF Stop
  <2>1. Stop \in SUBSET (0..Len(lru))
    BY DEF Stop
  <2> QED BY <1>1, <1>2, <2>1, FirstStop
<1>4. k \in 0..Len(lru) /\ ~ MustEvict(lru, t, k)
  BY <1>3
<1>5. \A j \in 0..(k - 1) : MustEvict(lru, t, j)
  BY <1>1, <1>3, <1>4
<1> QED BY <1>4, <1>5 DEF EvictCount

LEMMA BitsOfType ==
    ASSUME NEW s \in Seq(Entry), NEW i \in Nat \ {0}, NEW j \in Int, j <= Len(s)
    PROVE  BitsOf(s, i, j) \in SUBSET Slot
<1>1. \A k \in i..j : s[k] \in Entry
  BY ElementOfSeq, LenProperties
<1>2. \A k \in i..j : Hashes[s[k].id] \in SUBSET Slot
  BY <1>1, HashesAssumption DEF Entry
<1> QED BY <1>2 DEF BitsOf

(***************************************************************************)
(* The slots of a tail of s, taken from the tail or from s.                *)
(***************************************************************************)
LEMMA BitsOfTail ==
    ASSUME NEW s \in Seq(Entry), NEW m \in 0..Len(s)
    PROVE  BitsOf(From(s, m), 1, Len(From(s, m))) = BitsOf(s, m + 1, Len(s))
<1> DEFINE t == From(s, m)
           n == Len(s)
<1>1. n \in Nat /\ m \in 0..n
  BY LenProperties
<1>2. Len(t) = n - m /\ \A i \in 1..(n - m) : t[i] = s[m + i]
  BY FromProperties
<1> HIDE DEF t, n
<1>3. BitsOf(t, 1, n - m) \subseteq BitsOf(s, m + 1, n)
  <2> SUFFICES ASSUME NEW i \in 1..(n - m)
               PROVE  \E k \in (m + 1)..n : Hashes[t[i].id] = Hashes[s[k].id]
    BY DEF BitsOf
  <2>1. m + i \in (m + 1)..n
    BY <1>1
  <2> QED BY <1>2, <2>1
<1>4. BitsOf(s, m + 1, n) \subseteq BitsOf(t, 1, n - m)
  <2> SUFFICES ASSUME NEW k \in (m + 1)..n
               PROVE  \E i \in 1..(n - m) : Hashes[t[i].id] = Hashes[s[k].id]
    BY DEF BitsOf
  <2>1. k - m \in 1..(n - m) /\ m + (k - m) = k
    BY <1>1
  <2> QED BY <1>2, <2>1
<1> QED BY <1>2, <1>3, <1>4 DEF t, n

LEMMA BitsOfAppend ==
    ASSUME NEW s \in Seq(Entry), NEW e \in Entry, NEW i \in 1..(Len(s) + 1)
    PROVE  BitsOf(Append(s, e), i, Len(s) + 1) = BitsOf(s, i, Len(s)) \cup Hashes[e.id]
<1> DEFINE t == Append(s, e)
<1>1. /\ Len(s) \in Nat
      /\ \A k \in 1..Len(s) : t[k] = s[k]
      /\ t[Len(s) + 1] = e
  BY AppendProperties, LenProperties
<1>2. i..(Len(s) + 1) = (i..Len(s)) \cup {Len(s) + 1}
  BY <1>1
<1>3. \A k \in i..Len(s) : t[k] = s[k]
  BY <1>1
<1> HIDE DEF t
<1>4. BitsOf(t, i, Len(s) + 1) = BitsOf(s, i, Len(s)) \cup Hashes[e.id]
  BY <1>1, <1>2, <1>3 DEF BitsOf
<1> QED BY <1>4 DEF t

(***************************************************************************)
(* A rebuilt filter holds the slots of the live entries and counts at most *)
(* one addition per entry.                                                 *)
(***************************************************************************)
LEMMA RebuiltProperties ==
    ASSUME NEW lru \in Seq(Entry)
    PROVE  /\ Rebuilt(lru) \in Bloom
           /\ Rebuilt(lru).bits = BitsOf(lru, 1, Len(lru))
           /\ Rebuilt(lru).count <= Len(lru)
<1> DEFINE P == {i \in 1..Len(lru) :
                   ~ (Hashes[lru[i].id] \subseteq BitsOf(lru, 1, i - 1))}
<1>1. Len(lru) \in Nat
  BY LenProperties
<1>2. IsFiniteSet(1..Len(lru)) /\ Cardinality(1..Len(lru)) = Len(lru)
  BY <1>1, IntervalCardinality
<1>3. P \in SUBSET (1..Len(lru))
  OBVIOUS
<1>4. Cardinality(P) \in Nat /\ Cardinality(P) <= Len(lru)
  <2> HIDE DEF P
  <2> QED BY <1>2, <1>3, FS_Subset, FS_CardinalityType
<1>5. BitsOf(lru, 1, Len(lru)) \in SUBSET Slot
  BY <1>1, BitsOfType
<1> QED BY <1>4, <1>5 DEF Rebuilt, Bloom
-----------------------------------------------------------------------------
(* The inductive invariant.                                                *)

\* Every addition to the filter is a live entry or an eviction since the rebuild.
CountBounded == cache.bloom.count <= Len(cache.lru) + cache.evictions

\* The history is in the order of the clock.
HistoryOrdered ==
    /\ \A i \in DOMAIN accepted : accepted[i].at <= now
    /\ \A i, j \in DOMAIN accepted : i <= j => accepted[i].at <= accepted[j].at

\* What is no longer live was evicted for its age or for the capacity.
EvictionsJustified ==
    \A i \in 1..(Len(accepted) - Len(cache.lru)) :
        \/ Len(accepted) - i >= CAPACITY
        \/ accepted[Len(accepted)].at - accepted[i].at > TTL_SECONDS

DedupInv ==
    /\ TypeOK
    /\ LruIsHistoryTail
    /\ FilterIsHistoryWindow
    /\ CountBounded
    /\ CacheBounded
    /\ HistoryOrdered
    /\ EvictionsJustified
    /\ NoEarlyRepeat

LEMMA CacheFacts ==
    ASSUME TypeOK
    PROVE  /\ cache.lru \in Seq(Entry) /\ Len(cache.lru) \in Nat
           /\ cache.bloom \in Bloom
           /\ cache.bloom.bits \in SUBSET Slot /\ cache.bloom.count \in Nat
           /\ cache.evictions \in Nat
           /\ accepted \in Seq(Entry) /\ Len(accepted) \in Nat
           /\ DOMAIN accepted = 1..Len(accepted)
           /\ DOMAIN cache.lru = 1..Len(cache.lru)
           /\ now \in Nat
BY LenProperties DEF TypeOK, Cache, Bloom

\* The number of history entries that are no longer live.
Gone == Len(accepted) - Len(cache.lru)

(***************************************************************************)
(* The LRU is the history without its first Gone entries.                  *)
(***************************************************************************)
LEMMA LruEntries ==
    ASSUME TypeOK, LruIsHistoryTail, FilterIsHistoryWindow
    PROVE  /\ Gone \in 0..Len(accepted)
           /\ cache.lru = From(accepted, Gone)
           /\ \A i \in 1..Len(cache.lru) : cache.lru[i] = accepted[Gone + i]
<1>1. Gone \in 0..Len(accepted) /\ Len(accepted) - Gone = Len(cache.lru)
  BY CacheFacts DEF Gone, FilterIsHistoryWindow
<1>2. cache.lru = From(accepted, Gone)
  BY DEF Gone, From, LruIsHistoryTail
<1>3. \A i \in 1..(Len(accepted) - Gone) : From(accepted, Gone)[i] = accepted[Gone + i]
  BY <1>1, CacheFacts, FromProperties
<1> QED BY <1>1, <1>2, <1>3

(***************************************************************************)
(* A message that is let through is not in the LRU: put() appends it.      *)
(***************************************************************************)
LEMMA PutAppends ==
    ASSUME TypeOK, LruIsHistoryTail, FilterIsHistoryWindow,
           NEW id \in MsgId, ~ IsDuplicate(cache, id), NEW t \in Int
    PROVE  Put(cache.lru, id, t) = Append(cache.lru, [id |-> id, at |-> t])
<1> DEFINE n == Len(accepted)
           l == Len(cache.lru)
           w == l + cache.evictions
<1>1. /\ l \in Nat /\ n \in Nat /\ l <= w /\ w <= n /\ w \in Nat
      /\ cache.bloom.bits = BitsOf(accepted, n - w + 1, n)
  BY CacheFacts DEF FilterIsHistoryWindow
<1>2. ASSUME NEW i \in 1..l PROVE cache.lru[i].id # id
  <2>1. cache.lru[i] = accepted[n - l + i]
    BY LruEntries DEF Gone
  <2>2. n - l + i \in (n - w + 1)..n
    <3> HIDE DEF n, w, l
    <3> QED BY <1>1
  <2>3. Hashes[accepted[n - l + i].id] \subseteq BitsOf(accepted, n - w + 1, n)
    <3> HIDE DEF n, w, l
    <3> QED BY <2>2 DEF BitsOf
  <2> QED BY <1>1, <2>1, <2>3 DEF IsDuplicate, InBloom
<1>3. ~ \E i \in DOMAIN cache.lru : cache.lru[i].id = id
  BY <1>2, CacheFacts
<1> QED BY <1>3 DEF Put

(***************************************************************************)
(* Evicting from a tail of hist leaves a shorter tail: k entries go, each  *)
(* of them over the capacity or over its age, and no other has to.         *)
(***************************************************************************)
LEMMA EvictTail ==
    ASSUME NEW hist \in Seq(Entry), NEW g \in 0..Len(hist), NEW t \in Int
    PROVE  LET lru == From(hist, g)
               k   == EvictCount(lru, t)
           IN  /\ lru \in Seq(Entry) /\ Len(lru) = Len(hist) - g
               /\ k \in 0..(Len(hist) - g)
               /\ g + k \in 0..Len(hist)
               /\ From(lru, k) = From(hist, g + k)
               /\ \A i \in (g + 1)..(g + k) :
                     \/ Len(hist) - i >= CAPACITY
                     \/ t - hist[i].at > TTL_SECONDS
               /\ g + k < Len(hist) =>
                     /\ Len(hist) - (g + k) <= CAPACITY
                     /\ t - hist[g + k + 1].at <= TTL_SECONDS
<1> DEFINE lru == From(hist, g)
           k == EvictCount(lru, t)
           n == Len(hist)
<1>1. n \in Nat /\ g \in 0..n
  BY LenProperties
<1>2. /\ lru \in Seq(Entry) /\ Len(lru) = n - g
      /\ \A i \in 1..(n - g) : lru[i] = hist[g + i]
  BY FromProperties
<1>3. \A i \in 1..n : hist[i].at \in Int
  <2>1. \A i \in 1..n : hist[i] \in Entry
    BY ElementOfSeq
  <2> QED BY <2>1 DEF Entry
<1> HIDE DEF lru
<1>4. /\ k \in 0..(n - g)
      /\ ~ MustEvict(lru, t, k)
      /\ \A j \in 0..(k - 1) : MustEvict(lru, t, j)
  <2>1. /\ k \in 0..Len(lru)
        /\ ~ MustEvict(lru, t, k)
        /\ \A j \in 0..(k - 1) : MustEvict(lru, t, j)
    BY <1>2, EvictCountProperties
  <2> QED BY <1>2, <2>1
<1> HIDE DEF k
<1>5. g + k \in 0..n /\ From(lru, k) = From(hist, g + k)
  BY <1>4, FromFrom DEF lru
<1> HIDE DEF n
<1>6. ASSUME NEW i \in (g + 1)..(g + k)
      PROVE  n - i >= CAPACITY \/ t - hist[i].at > TTL_SECONDS
  <2> DEFINE j == i - g - 1
  <2>1. j \in 0..(k - 1) /\ j + 1 \in 1..(n - g) /\ g + (j + 1) = i /\ n - g - j = n - i + 1
    BY <1>1, <1>4
  <2>2. MustEvict(lru, t, j) /\ lru[j + 1] = hist[i]
    BY <2>1, <1>2, <1>4
  <2>3. n - g - j > CAPACITY \/ t - hist[i].at > TTL_SECONDS
    BY <2>2, <1>2 DEF MustEvict
  <2> QED BY <2>1, <2>3, <1>1, CapacityAssumption
<1>7. ASSUME g + k < n
      PROVE  /\ n - (g + k) <= CAPACITY
             /\ t - hist[g + k + 1].at <= TTL_SECONDS
  <2>1. /\ k < n - g /\ k + 1 \in 1..(n - g) /\ g + (k + 1) = g + k + 1
        /\ g + k + 1 \in 1..n /\ n - g - k = n - (g + k)
    BY <1>1, <1>4, <1>7
  <2>2. lru[k + 1] = hist[g + k + 1]
    BY <2>1, <1>2
  <2>3. ~ (n - g - k > CAPACITY) /\ ~ (t - hist[g + k + 1].at > TTL_SECONDS)
    BY <2>1, <2>2, <1>2, <1>4 DEF MustEvict
  <2>4. hist[g + k + 1].at \in Int
    BY <2>1, <1>3
  <2>5. n - (g + k) <= CAPACITY
    BY <2>1, <2>3, <1>1, <1>4, CapacityAssumption
  <2>6. \A a \in Int : ~ (t - a > TTL_SECONDS) => t - a <= TTL_SECONDS
    BY TTLAssumption
  <2> QED BY <2>3, <2>4, <2>5, <2>6, Zenon
<1> QED BY <1>2, <1>4, <1>5, <1>6, <1>7 DEF lru, k, n

(***************************************************************************)
(* What check() does to the cache when it lets a message through, in terms *)
(* of the history: `gone` entries are no longer live afterwards.           *)
(***************************************************************************)
AcceptEffect(id, gone) ==
    /\ accepted' = Append(accepted, [id |-> id, at |-> now])
    /\ accepted' \in Seq(Entry) /\ Len(accepted') = Len(accepted) + 1
    /\ cache'.lru = From(accepted', gone)
    /\ cache'.lru \in Seq(Entry) /\ Len(cache'.lru) = Len(accepted') - gone
    /\ \A i \in (Gone + 1)..gone : \/ Len(accepted') - i >= CAPACITY
                                  \/ now - accepted'[i].at > TTL_SECONDS
    /\ gone < Len(accepted') => /\ Len(accepted') - gone <= CAPACITY
                                /\ now - accepted'[gone + 1].at <= TTL_SECONDS
    /\ \/ /\ cache.evictions + (gone - Gone) >= REBUILD_EVICTION_THRESHOLD
          /\ cache'.evictions = 0
          /\ cache'.bloom = Rebuilt(cache'.lru)
       \/ /\ cache.evictions + (gone - Gone) < REBUILD_EVICTION_THRESHOLD
          /\ cache'.evictions = cache.evictions + (gone - Gone)
          /\ cache'.bloom = BloomAdd(cache.bloom, id)

LEMMA AcceptHasEffect ==
    ASSUME DedupInv, NEW id \in MsgId, Accept(id)
    PROVE  \E gone \in Gone..Len(accepted') : AcceptEffect(id, gone)
<1> DEFINE e == [id |-> id, at |-> now]
           hist == Append(accepted, e)
           put == Append(cache.lru, e)
           k == EvictCount(put, now)
           added == [lru |-> put, bloom |-> BloomAdd(cache.bloom, id),
                     evictions |-> cache.evictions]
<1>1. TypeOK /\ LruIsHistoryTail /\ FilterIsHistoryWindow
  BY DEF DedupInv
<1>2. /\ now \in Int /\ e \in Entry
      /\ accepted \in Seq(Entry) /\ Len(accepted) \in Nat
      /\ cache.evictions \in Nat
  BY <1>1, CacheFacts DEF Entry
<1>3. /\ accepted' = hist /\ ~ IsDuplicate(cache, id)
      /\ cache' = Remember(cache, id, now)
  BY DEF Accept
<1>4. Put(cache.lru, id, now) = put
  BY <1>1, <1>2, <1>3, PutAppends
<1>5. cache' = Evict(added, now)
  BY <1>3, <1>4 DEF Remember
<1>6. hist \in Seq(Entry) /\ Len(hist) = Len(accepted) + 1
  <2> HIDE DEF e
  <2> QED BY <1>2, AppendProperties
<1>7. put = From(hist, Gone) /\ Gone \in 0..Len(hist)
  <2>1. Gone \in 0..Len(accepted) /\ cache.lru = From(accepted, Gone)
    BY <1>1, LruEntries
  <2> HIDE DEF e
  <2> QED BY <1>2, <2>1, FromAppend
<1>8. /\ cache'.lru = From(put, k)
      /\ \/ /\ cache.evictions + k >= REBUILD_EVICTION_THRESHOLD
            /\ cache'.evictions = 0
            /\ cache'.bloom = Rebuilt(cache'.lru)
         \/ /\ ~ (cache.evictions + k >= REBUILD_EVICTION_THRESHOLD)
            /\ cache'.evictions = cache.evictions + k
            /\ cache'.bloom = BloomAdd(cache.bloom, id)
  <2>1. added.lru = put /\ added.bloom = BloomAdd(cache.bloom, id)
        /\ added.evictions = cache.evictions
    OBVIOUS
  <2> HIDE DEF added, put
  <2> QED BY <1>5, <2>1 DEF Evict, From
<1> HIDE DEF e, hist, put, k, added
<1>9. /\ k \in 0..(Len(hist) - Gone) /\ Gone + k \in 0..Len(hist)
      /\ From(put, k) = From(hist, Gone + k)
      /\ \A i \in (Gone + 1)..(Gone + k) :
            \/ Len(hist) - i >= CAPACITY
            \/ now - hist[i].at > TTL_SECONDS
      /\ Gone + k < Len(hist) =>
            /\ Len(hist) - (Gone + k) <= CAPACITY
            /\ now - hist[Gone + k + 1].at <= TTL_SECONDS
  <2>1. k = EvictCount(From(hist, Gone), now)
    BY <1>7 DEF k
  <2> QED BY <1>2, <1>6, <1>7, <2>1, EvictTail
<1>10. From(hist, Gone + k) \in Seq(Entry)
       /\ Len(From(hist, Gone + k)) = Len(hist) - (Gone + k)
  BY <1>6, <1>9, FromProperties
<1>11. /\ Gone + k \in Gone..Len(hist) /\ (Gone + k) - Gone = k
       /\ ~ (cache.evictions + k >= REBUILD_EVICTION_THRESHOLD)
             => cache.evictions + k < REBUILD_EVICTION_THRESHOLD
  BY <1>2, <1>6, <1>7, <1>9, ThresholdAssumption
<1>12. Gone + k \in Gone..Len(accepted')
  BY <1>3, <1>11 DEF hist
<1> USE <1>12
<1> WITNESS Gone + k \in Gone..Len(accepted')
<1> QED BY <1>3, <1>6, <1>8, <1>9, <1>10, <1>11 DEF hist, e, AcceptEffect
-----------------------------------------------------------------------------
(* The steps preserve the invariant.                                       *)

LEMMA AcceptPreserves ==
    ASSUME DedupInv, NEW id \in MsgId, Accept(id)
    PROVE  DedupInv'
<1> DEFINE n == Len(accepted)
           l == Len(cache.lru)
           v == cache.evictions
           hist == accepted'
           e == [id |-> id, at |-> now]
(* The state before the step. *)
<1>0. TypeOK /\ LruIsHistoryTail /\ FilterIsHistoryWindow
  BY DEF DedupInv
<1>1. n \in Nat /\ l \in Nat /\ v \in Nat /\ now \in Nat
  BY <1>0, CacheFacts
<1>2. accepted \in Seq(Entry) /\ DOMAIN accepted = 1..n
  BY <1>0, CacheFacts
<1>3. cache.bloom.bits \in SUBSET Slot /\ cache.bloom.count \in Nat
  BY <1>0, CacheFacts
<1>4. l + v <= n /\ cache.bloom.bits = BitsOf(accepted, n - (l + v) + 1, n)
  BY DEF DedupInv, FilterIsHistoryWindow
<1>5. cache.bloom.count <= l + v
  BY DEF DedupInv, CountBounded
<1>6. Gone = n - l
  BY DEF Gone
(* The step. *)
<1>7. PICK gone \in Gone..Len(accepted') : AcceptEffect(id, gone)
  BY AcceptHasEffect
<1>8. hist = Append(accepted, e) /\ hist \in Seq(Entry) /\ Len(hist) = n + 1
  BY <1>7 DEF AcceptEffect
<1>9. cache'.lru = From(hist, gone) /\ cache'.lru \in Seq(Entry)
      /\ Len(cache'.lru) = Len(hist) - gone
  BY <1>7 DEF AcceptEffect
<1>10. \A i \in (Gone + 1)..gone : \/ Len(hist) - i >= CAPACITY
                                   \/ now - hist[i].at > TTL_SECONDS
  BY <1>7 DEF AcceptEffect
<1>11. gone < Len(hist) => /\ Len(hist) - gone <= CAPACITY
                           /\ now - hist[gone + 1].at <= TTL_SECONDS
  BY <1>7 DEF AcceptEffect
<1>12. \/ /\ v + (gone - Gone) >= REBUILD_EVICTION_THRESHOLD
          /\ cache'.evictions = 0
          /\ cache'.bloom = Rebuilt(cache'.lru)
       \/ /\ v + (gone - Gone) < REBUILD_EVICTION_THRESHOLD
          /\ cache'.evictions = v + (gone - Gone)
          /\ cache'.bloom = BloomAdd(cache.bloom, id)
  BY <1>7 DEF AcceptEffect
<1>13. now' = now /\ falseDrops' = falseDrops /\ ~ IsDuplicate(cache, id)
  BY DEF Accept
<1>14. e \in Entry
  <2>1. now \in Int
    BY <1>1
  <2> HIDE DEF n, l, v, hist
  <2> QED BY <2>1 DEF Entry
<1>15. DOMAIN hist = 1..(n + 1)
  BY <1>8, LenProperties
<1>16. (\A i \in 1..n : hist[i] = accepted[i]) /\ hist[n + 1] = e
  <2> HIDE DEF e, hist
  <2>1. /\ \A i \in 1..n : Append(accepted, e)[i] = accepted[i]
        /\ Append(accepted, e)[n + 1] = e
    BY <1>2, <1>14, AppendProperties
  <2> QED BY <1>8, <2>1
<1>17. hist[n + 1].at = now /\ hist[n + 1].id = id
  BY <1>16
<1>18. \A i \in 1..(n + 1) : hist[i] \in Entry /\ hist[i].at \in Int
  <2>1. \A i \in 1..(n + 1) : hist[i] \in Entry
    BY <1>8, ElementOfSeq
  <2> QED BY <2>1 DEF Entry
<1>19. /\ \A i \in 1..n : accepted[i].at <= now
       /\ \A i, j \in 1..n : i <= j => accepted[i].at <= accepted[j].at
  BY <1>2 DEF DedupInv, HistoryOrdered
<1>20. \A i \in 1..Gone : \/ n - i >= CAPACITY
                          \/ accepted[n].at - accepted[i].at > TTL_SECONDS
  BY DEF DedupInv, EvictionsJustified, Gone
<1>21. \A i, j \in 1..n : (i < j /\ accepted[i].id = accepted[j].id)
            => accepted[j].at - accepted[i].at > TTL_SECONDS \/ j - i > CAPACITY
  BY <1>2 DEF DedupInv, NoEarlyRepeat
<1>22. v < REBUILD_EVICTION_THRESHOLD
  BY DEF DedupInv, CacheBounded
<1> HIDE DEF n, l, v, hist, e
<1>23. gone \in 0..(n + 1) /\ gone \in Gone..(n + 1) /\ Gone \in 0..n
  <2>1. Len(accepted') = n + 1
    BY <1>8 DEF hist
  <2>2. Gone \in 0..n
    BY <1>1, <1>4, <1>6
  <2> QED BY <1>1, <2>1, <2>2
<1>25. Len(hist) = n + 1
  BY <1>8
<1>24. Len(cache'.lru) = n + 1 - gone /\ DOMAIN cache'.lru = 1..(n + 1 - gone)
  <2>1. Len(cache'.lru) = Len(hist) - gone
    BY <1>9
  <2>2. DOMAIN cache'.lru = 1..Len(cache'.lru)
    BY <1>9, LenProperties
  <2> QED BY <1>1, <2>1, <2>2, <1>25
(* The conjuncts of the invariant. *)
<1>30. LruIsHistoryTail'
  <2>1. cache'.lru = SubSeq(hist, gone + 1, Len(hist))
    BY <1>9 DEF From
  <2>2. Len(hist) - Len(cache'.lru) + 1 = gone + 1
    BY <1>1, <1>25, <1>23, <1>24
  <2>3. cache'.lru = SubSeq(hist, Len(hist) - Len(cache'.lru) + 1, Len(hist))
    BY <2>1, <2>2
  <2> QED BY <2>3 DEF LruIsHistoryTail, hist
<1>31. FilterIsHistoryWindow' /\ CountBounded' /\ cache'.bloom \in Bloom
       /\ cache'.evictions \in Nat /\ cache'.evictions < REBUILD_EVICTION_THRESHOLD
  <2>1. CASE /\ v + (gone - Gone) < REBUILD_EVICTION_THRESHOLD
             /\ cache'.evictions = v + (gone - Gone)
             /\ cache'.bloom = BloomAdd(cache.bloom, id)
    <3>1. /\ Len(cache'.lru) + cache'.evictions = l + v + 1
          /\ cache'.evictions \in Nat
      BY <2>1, <1>1, <1>6, <1>23, <1>24
    <3>2. (n + 1) - (l + v + 1) + 1 = n - (l + v) + 1
      BY <1>1
    <3>3. n - (l + v) + 1 \in 1..(n + 1)
      BY <1>1, <1>4
    <3>4. BitsOf(hist, n - (l + v) + 1, n + 1) = cache.bloom.bits \cup Hashes[id]
      <4>1. n - (l + v) + 1 \in 1..(Len(accepted) + 1)
        BY <3>3 DEF n
      <4>2. BitsOf(Append(accepted, e), n - (l + v) + 1, Len(accepted) + 1)
              = BitsOf(accepted, n - (l + v) + 1, Len(accepted)) \cup Hashes[e.id]
        BY <4>1, <1>2, <1>14, BitsOfAppend
      <4>3. e.id = id
        BY DEF e
      <4> QED BY <4>2, <4>3, <1>4, <1>8 DEF n
    <3>5. /\ cache'.bloom.bits = cache.bloom.bits \cup Hashes[id]
          /\ cache'.bloom.count \in Nat
          /\ cache'.bloom.count <= l + v + 1
          /\ cache'.bloom \in Bloom
      <4>1. Hashes[id] \in SUBSET Slot
        BY HashesAssumption
      <4> QED BY <2>1, <4>1, <1>1, <1>3, <1>5 DEF BloomAdd, Bloom
    <3>6. FilterIsHistoryWindow'
      <4>1. l + v + 1 <= n + 1
        BY <1>1, <1>4
      <4>2. cache'.bloom.bits = BitsOf(hist, (n + 1) - (l + v + 1) + 1, n + 1)
        BY <3>2, <3>4, <3>5
      <4> QED BY <4>1, <4>2, <3>1, <1>8 DEF FilterIsHistoryWindow, hist
    <3>7. CountBounded'
      BY <3>1, <3>5 DEF CountBounded
    <3> QED BY <2>1, <3>1, <3>5, <3>6, <3>7
  <2>2. CASE /\ cache'.evictions = 0
             /\ cache'.bloom = Rebuilt(cache'.lru)
    <3>1. /\ cache'.bloom \in Bloom
          /\ cache'.bloom.bits = BitsOf(cache'.lru, 1, Len(cache'.lru))
          /\ cache'.bloom.count <= Len(cache'.lru)
      BY <2>2, <1>9, RebuiltProperties
    <3>2. gone \in 0..Len(hist)
      BY <1>1, <1>25, <1>23
    <3>3. BitsOf(cache'.lru, 1, Len(cache'.lru)) = BitsOf(hist, gone + 1, Len(hist))
      BY <3>2, <1>8, <1>9, BitsOfTail
    <3>4. /\ Len(cache'.lru) + cache'.evictions = n + 1 - gone
          /\ (n + 1) - (n + 1 - gone) + 1 = gone + 1
          /\ n + 1 - gone <= n + 1
          /\ Len(cache'.lru) + cache'.evictions = Len(cache'.lru)
      BY <2>2, <1>1, <1>23, <1>24
    <3>5. FilterIsHistoryWindow'
      <4>1. cache'.bloom.bits = BitsOf(hist, (n + 1) - (n + 1 - gone) + 1, n + 1)
        BY <3>1, <3>3, <3>4, <1>8
      <4> QED BY <4>1, <3>4, <1>8 DEF FilterIsHistoryWindow, hist
    <3>6. CountBounded'
      BY <3>1, <3>4 DEF CountBounded
    <3> QED BY <2>2, <3>1, <3>5, <3>6, ThresholdAssumption
  <2> QED BY <2>1, <2>2, <1>12
<1>32. HistoryOrdered'
  <2>1. \A i \in 1..(n + 1) : hist[i].at <= now
    BY <1>1, <1>16, <1>17, <1>19
  <2>2. ASSUME NEW i \in 1..(n + 1), NEW j \in 1..(n + 1), i <= j
        PROVE  hist[i].at <= hist[j].at
    <3>1. CASE j = n + 1
      BY <3>1, <2>1, <1>17
    <3>2. CASE j # n + 1
      <4>1. i \in 1..n /\ j \in 1..n
        BY <2>2, <3>2, <1>1
      <4> QED BY <4>1, <2>2, <1>16, <1>19
    <3> QED BY <3>1, <3>2
  <2> QED BY <2>1, <2>2, <1>13, <1>15 DEF HistoryOrdered, hist
<1>33. CacheBounded'
  <2>1. Len(cache'.lru) <= CAPACITY
    <3>1. CASE gone = n + 1
      BY <3>1, <1>1, <1>24, CapacityAssumption
    <3>2. CASE gone # n + 1
      <4>1. gone < Len(hist)
        BY <3>2, <1>1, <1>25, <1>23
      <4> QED BY <1>1, <4>1, <1>25, <1>11, <1>24
    <3> QED BY <3>1, <3>2
  <2>2. ASSUME NEW i \in 1..(n + 1 - gone)
        PROVE  now - cache'.lru[i].at <= TTL_SECONDS
    <3>1. /\ gone < n + 1 /\ gone + 1 \in 1..(n + 1) /\ gone + i \in 1..(n + 1)
          /\ gone + 1 <= gone + i
      BY <1>1, <1>23
    <3>2. gone \in 0..Len(hist) /\ i \in 1..(Len(hist) - gone)
      BY <1>1, <1>25, <1>23
    <3>3. cache'.lru[i] = hist[gone + i]
      BY <3>2, <1>8, <1>9, FromProperties
    <3>4. now - hist[gone + 1].at <= TTL_SECONDS
      BY <1>1, <3>1, <1>25, <1>11
    <3>5. hist[gone + 1].at <= hist[gone + i].at
      BY <3>1, <1>15, <1>32 DEF HistoryOrdered, hist
    <3>6. hist[gone + 1].at \in Int /\ hist[gone + i].at \in Int
      BY <3>1, <1>18
    <3> QED BY <3>3, <3>4, <3>5, <3>6, <1>1, TTLAssumption
  <2>3. hist[Len(hist)].at = now
    BY <1>1, <1>25, <1>17
  <2> QED BY <2>1, <2>2, <2>3, <1>24, <1>31 DEF CacheBounded, hist
<1>34. EvictionsJustified'
  <2>1. ASSUME NEW i \in 1..gone
        PROVE  n + 1 - i >= CAPACITY \/ now - hist[i].at > TTL_SECONDS
    <3>1. CASE i \in 1..Gone
      <4>1. i \in 1..n /\ n \in 1..n
        BY <3>1, <1>1, <1>23
      <4>2. hist[i].at = accepted[i].at /\ hist[i].at \in Int
            /\ accepted[n].at <= now /\ accepted[n].at \in Int
        BY <4>1, <1>1, <1>16, <1>18, <1>19
      <4>3. n - i >= CAPACITY \/ accepted[n].at - accepted[i].at > TTL_SECONDS
        BY <3>1, <1>20
      <4> QED BY <4>1, <4>2, <4>3, <1>1, CapacityAssumption, TTLAssumption
    <3>2. CASE i \in (Gone + 1)..gone
      BY <1>1, <3>2, <1>25, <1>10
    <3> QED BY <3>1, <3>2, <1>23
  <2>2. Len(hist) - Len(cache'.lru) = gone
    BY <1>1, <1>25, <1>23, <1>24
  <2>3. hist[Len(hist)].at = now
    BY <1>1, <1>25, <1>17
  <2>4. \A i \in 1..(Len(hist) - Len(cache'.lru)) :
          \/ Len(hist) - i >= CAPACITY
          \/ hist[Len(hist)].at - hist[i].at > TTL_SECONDS
    BY <1>1, <2>1, <2>2, <2>3, <1>25
  <2> QED BY <2>4 DEF EvictionsJustified, hist
<1>35. NoEarlyRepeat'
  <2>1. ASSUME NEW i \in 1..n, accepted[i].id = id
        PROVE  n + 1 - i > CAPACITY \/ now - hist[i].at > TTL_SECONDS
    <3>1. i \notin (n - (l + v) + 1)..n
      <4>1. ~ (Hashes[id] \subseteq cache.bloom.bits)
        BY <1>13 DEF IsDuplicate, InBloom
      <4>2. i \in (n - (l + v) + 1)..n
               => Hashes[accepted[i].id] \subseteq BitsOf(accepted, n - (l + v) + 1, n)
        BY DEF BitsOf
      <4> QED BY <4>1, <4>2, <2>1, <1>4
    <3>2. i \in 1..Gone /\ n \in 1..n
      BY <3>1, <1>1, <1>4, <1>6
    <3>3. hist[i].at = accepted[i].at /\ hist[i].at \in Int
          /\ accepted[n].at <= now /\ accepted[n].at \in Int
      BY <3>2, <1>1, <1>16, <1>18, <1>19
    <3>4. CASE n - i >= CAPACITY
      BY <3>2, <3>4, <1>1, CapacityAssumption
    <3>5. CASE accepted[n].at - accepted[i].at > TTL_SECONDS
      <4>1. \A a, b, c \in Int : b - a > TTL_SECONDS /\ b <= c => c - a > TTL_SECONDS
        BY TTLAssumption
      <4>2. accepted[i].at \in Int /\ now \in Int
        BY <3>3, <1>1
      <4>3. now - accepted[i].at > TTL_SECONDS
        BY <4>1, <4>2, <3>3, <3>5, Zenon
      <4> QED BY <3>3, <4>3, Zenon
    <3> QED BY <3>2, <3>4, <3>5, <1>20, Zenon
  <2>2. ASSUME NEW i \in 1..(n + 1), NEW j \in 1..(n + 1), i < j, hist[i].id = hist[j].id
        PROVE  hist[j].at - hist[i].at > TTL_SECONDS \/ j - i > CAPACITY
    <3>1. i \in 1..n /\ hist[i] = accepted[i]
      BY <2>2, <1>1, <1>16
    <3>2. CASE j = n + 1
      <4>1. hist[j].at = now /\ accepted[i].id = id
        BY <3>1, <3>2, <2>2, <1>17
      <4> QED BY <1>1, <3>1, <3>2, <4>1, <2>1
    <3>3. CASE j # n + 1
      <4>1. j \in 1..n /\ hist[j] = accepted[j]
        BY <3>3, <1>1, <1>16
      <4> QED BY <4>1, <3>1, <2>2, <1>21
    <3> QED BY <3>2, <3>3
  <2> QED BY <2>2, <1>15 DEF NoEarlyRepeat, hist
<1>36. TypeOK'
  <2>1. cache' \in Cache
    <3>1. cache' = [lru |-> cache'.lru, bloom |-> cache'.bloom, evictions |-> cache'.evictions]
      BY DEF Accept, Remember, Evict
    <3> QED BY <3>1, <1>9, <1>31 DEF Cache
  <2> QED BY <2>1, <1>0, <1>1, <1>8, <1>13 DEF TypeOK, hist
<1> QED BY <1>30, <1>31, <1>32, <1>33, <1>34, <1>35, <1>36 DEF DedupInv

(***************************************************************************)
(* A dropped message changes nothing but the count of false positives, and *)
(* the clock nothing but the time.                                         *)
(***************************************************************************)
LEMMA OtherStepsPreserve ==
    ASSUME DedupInv, (\E id \in MsgId : Drop(id)) \/ Tick \/ UNCHANGED vars
    PROVE  DedupInv'
<1>1. cache' = cache /\ accepted' = accepted
  BY DEF Drop, Tick, vars
<1>2. now \in Nat /\ falseDrops \in [MsgId -> 0..MaxFalseDrops]
  BY DEF DedupInv, TypeOK
<1>3. now' \in Nat /\ now <= now'
  BY <1>2 DEF Drop, Tick, vars
<1>4. falseDrops' \in [MsgId -> 0..MaxFalseDrops]
  <2>1. CASE \E id \in MsgId : Drop(id)
    <3>1. PICK id \in MsgId : Drop(id)
      BY <2>1
    <3>2. falseDrops[id] \in 0..MaxFalseDrops
      BY <1>2
    <3>3. CASE Seen(id) \/ falseDrops[id] = MaxFalseDrops
      BY <1>2, <3>1, <3>3 DEF Drop
    <3>4. CASE ~ (Seen(id) \/ falseDrops[id] = MaxFalseDrops)
      <4>1. falseDrops[id] + 1 \in 0..MaxFalseDrops
        BY <3>2, <3>4, BoundsAssumption
      <4>2. falseDrops' = [falseDrops EXCEPT ![id] = falseDrops[id] + 1]
        BY <3>1, <3>4 DEF Drop
      <4> QED BY <1>2, <4>1, <4>2
    <3> QED BY <3>3, <3>4
  <2>2. CASE Tick \/ UNCHANGED vars
    BY <1>2, <2>2 DEF Tick, vars
  <2> QED BY <2>1, <2>2
<1>5. TypeOK'
  BY <1>1, <1>3, <1>4 DEF DedupInv, TypeOK
<1>6. HistoryOrdered'
  <2>1. \A i \in DOMAIN accepted : accepted[i].at \in Int
    <3>1. accepted \in Seq(Entry) /\ DOMAIN accepted = 1..Len(accepted)
      BY CacheFacts DEF DedupInv
    <3>2. \A i \in DOMAIN accepted : accepted[i] \in Entry
      BY <3>1, ElementOfSeq
    <3> QED BY <3>2 DEF Entry
  <2>2. \A i \in DOMAIN accepted : accepted[i].at <= now
    BY DEF DedupInv, HistoryOrdered
  <2>3. \A i \in DOMAIN accepted : accepted[i].at <= now'
    BY <1>2, <1>3, <2>1, <2>2
  <2>4. \A i, j \in DOMAIN accepted : i <= j => accepted[i].at <= accepted[j].at
    BY DEF DedupInv, HistoryOrdered
  <2> QED BY <1>1, <2>3, <2>4 DEF HistoryOrdered
<1> QED BY <1>1, <1>5, <1>6 DEF DedupInv, LruIsHistoryTail, FilterIsHistoryWindow,
           CountBounded, CacheBounded, EvictionsJustified, NoEarlyRepeat

LEMMA InitInv == Init => DedupInv
<1> SUFFICES ASSUME Init PROVE DedupInv
  OBVIOUS
<1>1. /\ cache.lru = <<>> /\ cache.bloom = NewBloom /\ cache.evictions = 0
      /\ accepted = <<>> /\ now = 0 /\ falseDrops = [id \in MsgId |-> 0]
      /\ cache = NewCache
  BY DEF Init, NewCache
<1>2. cache.lru \in Seq(Entry) /\ accepted \in Seq(Entry)
      /\ Len(cache.lru) = 0 /\ Len(accepted) = 0
      /\ DOMAIN accepted = {} /\ DOMAIN cache.lru = {}
  BY <1>1, EmptySeq
<1>3. TypeOK
  <2>1. cache \in Cache
    <3>1. NewBloom \in Bloom
      BY DEF NewBloom, Bloom
    <3> QED BY <1>1, <1>2, <3>1 DEF NewCache, Cache
  <2>2. falseDrops \in [MsgId -> 0..MaxFalseDrops]
    BY <1>1, BoundsAssumption
  <2> QED BY <1>1, <1>2, <2>1, <2>2 DEF TypeOK
<1>4. LruIsHistoryTail
  <2>1. SubSeq(accepted, 1, 0) = <<>>
    BY SubSeqEmpty
  <2> QED BY <1>1, <1>2, <2>1 DEF LruIsHistoryTail
<1>5. FilterIsHistoryWindow
  <2>1. BitsOf(accepted, 1, 0) = {}
    BY DEF BitsOf
  <2> QED BY <1>1, <1>2, <2>1 DEF FilterIsHistoryWindow, NewBloom
<1>6. CountBounded
  BY <1>1, <1>2 DEF CountBounded, NewBloom
<1>7. CacheBounded
  BY <1>1, <1>2, CapacityAssumption, ThresholdAssumption DEF CacheBounded
<1>8. HistoryOrdered /\ EvictionsJustified /\ NoEarlyRepeat
  BY <1>2 DEF HistoryOrdered, EvictionsJustified, NoEarlyRepeat
<1> QED BY <1>3, <1>4, <1>5, <1>6, <1>7, <1>8 DEF DedupInv

(***************************************************************************)
(* The invariant of the dedup cache (dedup_check.py:45-66).                *)
(***************************************************************************)
THEOREM DedupInvariant == Spec => []DedupInv
<1>1. Init => DedupInv
  BY InitInv
<1>2. DedupInv /\ [Next]_vars => DedupInv'
  BY AcceptPreserves, OtherStepsPreserve DEF Next
<1> QED BY <1>1, <1>2, PTL DEF Spec

(***************************************************************************)
(* Type correctness.                                                       *)
(***************************************************************************)
THEOREM TypeCorrect == Spec => []TypeOK
<1>1. DedupInv => TypeOK
  BY DEF DedupInv
<1> QED BY <1>1, DedupInvariant, PTL

(***************************************************************************)
(* Step 4 keeps its promise: no identifier is let through twice within     *)
(* TTL_SECONDS and CAPACITY messages.                                      *)
(***************************************************************************)
THEOREM NoEarlyRepeatHolds == Spec => []NoEarlyRepeat
<1>1. DedupInv => NoEarlyRepeat
  BY DEF DedupInv
<1> QED BY <1>1, DedupInvariant, PTL

(***************************************************************************)
(* The LRU is the live tail of the history: nothing is evicted but the     *)
(* oldest, and nothing is put twice (dedup_check.py:49-58).                *)
(***************************************************************************)
THEOREM LruExact == Spec => []LruIsHistoryTail
<1>1. DedupInv => LruIsHistoryTail
  BY DEF DedupInv
<1> QED BY <1>1, DedupInvariant, PTL

(***************************************************************************)
(* The filter holds exactly the latest window of the history: no live      *)
(* entry is missing after any rebuild (dedup_check.py:62-66).              *)
(***************************************************************************)
THEOREM FilterExact == Spec => []FilterIsHistoryWindow
<1>1. DedupInv => FilterIsHistoryWindow
  BY DEF DedupInv
<1> QED BY <1>1, DedupInvariant, PTL

(***************************************************************************)
(* LRU and counter of evictions stay within their bounds whatever mixture  *)
(* of evictions by age and by capacity occurs (dedup_check.py:54-66).      *)
(***************************************************************************)
THEOREM CacheBoundedHolds == Spec => []CacheBounded
<1>1. DedupInv => CacheBounded
  BY DEF DedupInv
<1> QED BY <1>1, DedupInvariant, PTL

(***************************************************************************)
(* The filter is rebuilt before its add() could raise.                     *)
(***************************************************************************)
THEOREM FilterNeverFullHolds == Spec => []FilterNeverFull
<1>1. ASSUME DedupInv PROVE FilterNeverFull
  <2>1. TypeOK /\ CountBounded /\ CacheBounded
    BY <1>1 DEF DedupInv
  <2>2. /\ cache.bloom.count \in Nat /\ Len(cache.lru) \in Nat
        /\ cache.evictions \in Nat
    BY <2>1, CacheFacts
  <2>3. /\ Len(cache.lru) <= CAPACITY
        /\ cache.evictions < REBUILD_EVICTION_THRESHOLD
        /\ cache.bloom.count <= Len(cache.lru) + cache.evictions
    BY <2>1 DEF CountBounded, CacheBounded
  <2>4. ~ (cache.bloom.count > CAPACITY + 2 * REBUILD_EVICTION_THRESHOLD)
    BY <2>2, <2>3, CapacityAssumption, ThresholdAssumption
  <2> QED BY <2>4 DEF FilterNeverFull, AddRaises, BLOOM_CAPACITY
<1>2. DedupInv => FilterNeverFull
  BY <1>1
<1> QED BY <1>2, DedupInvariant, PTL
=============================================================================
