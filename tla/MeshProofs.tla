------------------------------ MODULE MeshProofs ------------------------------
(***************************************************************************)
(* Proofs about the mesh, for every topology, every set of messages and    *)
(* every interleaving of the handler threads: what a thread and a pipeline *)
(* can hold, and that every frame under way has paid for its hops with its *)
(* two budgets; and, for every topology without cycles, that no device     *)
(* processes a message twice.                                              *)
(***************************************************************************)
EXTENDS FiniteSets, Mesh, SequenceLemmas
-----------------------------------------------------------------------------
(* Halving.                                                                *)

\* A start of the sequence of powers of two.
Doubles(n, f) ==
    /\ f \in [0..n -> Nat \ {0}] /\ f[0] = 1
    /\ \A k \in 0..n : k # 0 => f[k] = 2 * f[k - 1]

LEMMA DoublesExist == \A n \in Nat : \E f : Doubles(n, f)
  <1> DEFINE S == {n \in Nat : ~ \E f : Doubles(n, f)}
  <1> SUFFICES ASSUME S # {} PROVE FALSE
    OBVIOUS
  <1>1. PICK m \in S : \A k \in S : m <= k
    <2> S \in SUBSET Nat
      OBVIOUS
    <2> HIDE DEF S
    <2> QED BY LeastNatural
  <1>2. CASE m = 0
    <2>1. Doubles(0, [i \in 0..0 |-> 1])
      BY DEF Doubles
    <2> QED BY <1>2, <2>1
  <1>3. CASE m # 0
    <2>1. m - 1 \in Nat /\ m - 1 \notin S /\ m \in Nat
      BY <1>1, <1>3
    <2>2. PICK f : Doubles(m - 1, f)
      BY <2>1
    <2> DEFINE g == [i \in 0..m |-> IF i = m THEN 2 * f[m - 1] ELSE f[i]]
    <2>3. \A i \in 0..m : i = m \/ i \in 0..(m - 1)
      BY <2>1
    <2>4. /\ m - 1 \in 0..(m - 1) /\ \A i \in 0..(m - 1) : f[i] \in Nat \ {0}
          /\ f[0] = 1 /\ \A i \in 0..(m - 1) : i # 0 => f[i] = 2 * f[i - 1]
      BY <2>1, <2>2 DEF Doubles
    <2>5. \A i \in 0..m : g[i] \in Nat \ {0}
      BY <2>1, <2>3, <2>4
    <2>6. g[0] = 1
      BY <1>3, <2>1, <2>4
    <2>7. ASSUME NEW k \in 0..m, k # 0 PROVE g[k] = 2 * g[k - 1]
      <3>1. k - 1 \in 0..m /\ k - 1 # m /\ g[k - 1] = f[k - 1]
        BY <2>1, <2>7
      <3> QED BY <2>3, <2>4, <2>7, <3>1
    <2>8. Doubles(m, g)
      BY <2>5, <2>6, <2>7 DEF Doubles
    <2> QED BY <1>1, <2>8
  <1> QED BY <1>2, <1>3

LEMMA DoublesAgree ==
  ASSUME NEW n \in Nat, NEW m \in Nat, NEW f, NEW g, Doubles(n, f), Doubles(m, g),
         NEW i \in 0..n, i \in 0..m
  PROVE  f[i] = g[i]
  <1> DEFINE S == {k \in 0..n : k \in 0..m /\ f[k] # g[k]}
  <1> SUFFICES ASSUME S # {} PROVE FALSE
    OBVIOUS
  <1>1. PICK k \in S : \A j \in S : k <= j
    <2> S \in SUBSET Nat
      OBVIOUS
    <2> HIDE DEF S
    <2> QED BY LeastNatural
  <1>2. k # 0
    BY <1>1 DEF Doubles
  <1>3. k - 1 \in 0..n /\ k - 1 \in 0..m /\ k - 1 \notin S
    BY <1>1, <1>2
  <1> QED BY <1>1, <1>2, <1>3 DEF Doubles

LEMMA Pow2Facts ==
  /\ Pow2[0] = 1
  /\ \A k \in Nat : Pow2[k] \in Nat /\ Pow2[k] >= 1 /\ Pow2[k + 1] = 2 * Pow2[k]
  <1> DEFINE F == [n \in Nat |-> (CHOOSE f : Doubles(n, f))[n]]
  <1>1. \A n \in Nat : \A f : Doubles(n, f) => F[n] = f[n]
    <2> SUFFICES ASSUME NEW n \in Nat, NEW f, Doubles(n, f) PROVE F[n] = f[n]
      OBVIOUS
    <2>1. PICK g : g = CHOOSE h : Doubles(n, h)
      OBVIOUS
    <2>2. Doubles(n, g)
      BY <2>1
    <2>3. F[n] = g[n]
      BY <2>1
    <2> QED BY <2>2, <2>3, DoublesAgree
  <1> HIDE DEF F
  <1>2. \A n \in Nat : F[n] = IF n = 0 THEN 1 ELSE 2 * F[n - 1]
    <2> SUFFICES ASSUME NEW n \in Nat PROVE F[n] = IF n = 0 THEN 1 ELSE 2 * F[n - 1]
      OBVIOUS
    <2>1. PICK f : Doubles(n, f)
      BY DoublesExist
    <2>2. F[n] = f[n] /\ n \in 0..n
      BY <1>1, <2>1
    <2>3. CASE n = 0
      BY <2>1, <2>2, <2>3 DEF Doubles
    <2>4. CASE n # 0
      <3>1. n - 1 \in Nat
        BY <2>4
      <3>2. Doubles(n - 1, [i \in 0..(n - 1) |-> f[i]])
        BY <2>1, <3>1 DEF Doubles
      <3>3. F[n - 1] = f[n - 1]
        BY <1>1, <3>1, <3>2
      <3> QED BY <2>1, <2>2, <2>4, <3>3 DEF Doubles
    <2> QED BY <2>3, <2>4
  <1>3. F = [n \in Nat |-> IF n = 0 THEN 1 ELSE 2 * F[n - 1]]
    <2> F = [n \in Nat |-> F[n]]
      BY DEF F
    <2> QED BY <1>2
  <1>4. Pow2 = [n \in Nat |-> IF n = 0 THEN 1 ELSE 2 * Pow2[n - 1]]
    BY <1>3 DEF Pow2
  <1>5. \A n \in Nat : Pow2[n] = IF n = 0 THEN 1 ELSE 2 * Pow2[n - 1]
    BY <1>4
  <1> DEFINE S == {n \in Nat : Pow2[n] \notin Nat \ {0}}
  <1>6. S = {}
    <2> SUFFICES ASSUME S # {} PROVE FALSE
      OBVIOUS
    <2>1. PICK k \in S : \A j \in S : k <= j
      <3> S \in SUBSET Nat
        OBVIOUS
      <3> HIDE DEF S
      <3> QED BY LeastNatural
    <2>2. k # 0
      BY <1>5, <2>1
    <2>3. k - 1 \in Nat /\ k - 1 \notin S
      BY <2>1, <2>2
    <2> QED BY <1>5, <2>1, <2>2, <2>3
  <1>7. ASSUME NEW k \in Nat PROVE Pow2[k] \in Nat /\ Pow2[k] >= 1 /\ Pow2[k + 1] = 2 * Pow2[k]
    <2>1. Pow2[k] \in Nat \ {0}
      BY <1>6
    <2>2. k + 1 \in Nat /\ k + 1 # 0 /\ (k + 1) - 1 = k
      OBVIOUS
    <2> QED BY <1>5, <2>1, <2>2
  <1> QED BY <1>5, <1>7
-----------------------------------------------------------------------------
(* Bags.                                                                   *)

LEMMA AddToBag ==
  ASSUME NEW B, IsABag(B), NEW x
  PROVE  /\ IsABag(BagAdd(B, x))
         /\ BagToSet(BagAdd(B, x)) = BagToSet(B) \cup {x}
         /\ x \notin BagToSet(B) => BagAdd(B, x)[x] = 1
         /\ \A y \in BagToSet(B) : y # x => BagAdd(B, x)[y] = B[y]
  BY DEF IsABag, BagAdd, BagToSet

LEMMA RemoveFromBag ==
  ASSUME NEW B, IsABag(B), NEW x \in BagToSet(B)
  PROVE  /\ IsABag(BagRemove(B, x))
         /\ BagToSet(BagRemove(B, x)) \subseteq BagToSet(B)
         /\ B[x] = 1 => x \notin BagToSet(BagRemove(B, x))
         /\ \A y \in BagToSet(BagRemove(B, x)) : y # x => BagRemove(B, x)[y] = B[y]
  BY DEF IsABag, BagRemove, BagToSet

LEMMA NoBag == IsABag(EmptyBag) /\ BagToSet(EmptyBag) = {}
  BY DEF IsABag, EmptyBag, SetToBag, BagToSet
-----------------------------------------------------------------------------
(* The dedup cache of a device. Racing handlers may let the same message   *)
(* through twice, so this asks less of a cache than DedupProofs shows of   *)
(* one that is checked by one thread; it still keeps add() from raising.   *)

CacheOK(c) ==
    /\ c \in Cache
    /\ Len(c.lru) <= CAPACITY
    /\ c.evictions < REBUILD_EVICTION_THRESHOLD
    /\ c.bloom.count <= Len(c.lru) + c.evictions
    /\ \A i \in DOMAIN c.lru : Hashes[c.lru[i].id] \subseteq c.bloom.bits

LEMMA EvictCountFacts ==
  ASSUME NEW lru \in Seq(Entry), NEW t \in Int
  PROVE  /\ EvictCount(lru, t) \in 0..Len(lru)
         /\ Len(lru) - EvictCount(lru, t) <= CAPACITY
  <1> DEFINE Breaks == {k \in 0..Len(lru) : ~ MustEvict(lru, t, k)}
  <1>1. Len(lru) \in Nat /\ Breaks \in SUBSET (0..Len(lru)) /\ Len(lru) \in Breaks
    BY DEF MustEvict
  <1>2. PICK k \in Breaks : \A j \in 0..(k - 1) : j \notin Breaks
    <2> HIDE DEF Breaks
    <2> QED BY <1>1, FirstStop
  <1>3. k \in 0..Len(lru) /\ ~ MustEvict(lru, t, k) /\ \A j \in 0..(k - 1) : MustEvict(lru, t, j)
    BY <1>1, <1>2
  <1>4. EvictCount(lru, t) \in 0..Len(lru) /\ ~ MustEvict(lru, t, EvictCount(lru, t))
    BY <1>3 DEF EvictCount
  <1> QED BY <1>1, <1>4, CapacityAssumption DEF MustEvict

LEMMA RebuiltFacts ==
  ASSUME NEW lru \in Seq(Entry)
  PROVE  /\ Rebuilt(lru) \in Bloom /\ Rebuilt(lru).count <= Len(lru)
         /\ \A i \in DOMAIN lru : Hashes[lru[i].id] \subseteq Rebuilt(lru).bits
  <1> DEFINE P == {i \in 1..Len(lru) : ~ (Hashes[lru[i].id] \subseteq BitsOf(lru, 1, i - 1))}
  <1>1. Len(lru) \in Nat /\ DOMAIN lru = 1..Len(lru) /\ \A i \in 1..Len(lru) : lru[i] \in Entry
    OBVIOUS
  <1>2. IsFiniteSet(1..Len(lru)) /\ Cardinality(1..Len(lru)) = Len(lru)
    BY <1>1, IntervalCardinality
  <1>3. Cardinality(P) \in Nat /\ Cardinality(P) <= Len(lru)
    <2>1. P \in SUBSET (1..Len(lru))
      OBVIOUS
    <2> HIDE DEF P
    <2>2. /\ IsFiniteSet(P) /\ Cardinality(P) <= Cardinality(1..Len(lru))
      BY ONLY <1>2, <2>1, FS_Subset
    <2>3. Cardinality(P) \in Nat
      BY ONLY <2>2, FS_CardinalityType
    <2> QED BY <1>2, <2>2, <2>3
  <1>4. /\ BitsOf(lru, 1, Len(lru)) \in SUBSET Slot
        /\ \A i \in 1..Len(lru) : Hashes[lru[i].id] \subseteq BitsOf(lru, 1, Len(lru))
    BY <1>1, HashesAssumption DEF BitsOf, Entry
  <1> QED BY <1>1, <1>3, <1>4 DEF Rebuilt, Bloom

LEMMA PutFacts ==
  ASSUME NEW lru \in Seq(Entry), NEW id \in MsgId, NEW t \in Int, NEW put, put = Put(lru, id, t)
  PROVE  /\ put \in Seq(Entry)
         /\ \A i \in DOMAIN put :
               put[i].id = id \/ (i \in DOMAIN lru /\ put[i].id = lru[i].id)
         /\ Len(put) = Len(lru) + (IF \E i \in DOMAIN lru : lru[i].id = id THEN 0 ELSE 1)
  <1>1. PICK e \in Entry : e = [id |-> id, at |-> t]
    BY DEF Entry
  <1>2. e.id = id
    BY <1>1
  <1>3. Len(lru) \in Nat /\ DOMAIN lru = 1..Len(lru) /\ \A i \in 1..Len(lru) : lru[i] \in Entry
    OBVIOUS
  <1>6. \A i \in 1..Len(lru) : (IF lru[i].id = id THEN e ELSE lru[i]) \in Entry
    BY <1>3
  <1>4. CASE \E i \in DOMAIN lru : lru[i].id = id
    <2> DEFINE s == [i \in 1..Len(lru) |-> IF lru[i].id = id THEN e ELSE lru[i]]
    <2>1. s \in [1..Len(lru) -> Entry] /\ DOMAIN s = DOMAIN lru
      BY <1>3, <1>6, Zenon
    <2>2. put = s
      BY <1>1, <1>3, <1>4, Zenon DEF Put
    <2>3. \A i \in DOMAIN s : s[i].id = lru[i].id
      BY <1>2, <1>3
    <2> HIDE DEF s
    <2>4. s \in Seq(Entry) /\ Len(s) = Len(lru) + 0
      BY ONLY <1>3, <2>1
    <2>5. \A i \in DOMAIN s : i \in DOMAIN lru /\ s[i].id = lru[i].id
      BY <2>1, <2>3
    <2> QED BY <1>4, <2>2, <2>4, <2>5
  <1>5. CASE ~ \E i \in DOMAIN lru : lru[i].id = id
    <2>1. PICK s : s = Append(lru, e)
      OBVIOUS
    <2>2. put = s
      BY <1>1, <1>5, <2>1 DEF Put
    <2>3. /\ s \in Seq(Entry) /\ Len(s) = Len(lru) + 1 /\ DOMAIN s = 1..(Len(lru) + 1)
          /\ s[Len(lru) + 1] = e /\ \A i \in 1..Len(lru) : s[i] = lru[i]
      BY <2>1
    <2>4. \A i \in DOMAIN s : s[i].id = id \/ (i \in DOMAIN lru /\ s[i].id = lru[i].id)
      BY <1>2, <1>3, <2>3
    <2> QED BY <1>5, <2>2, <2>3, <2>4
  <1> QED BY <1>4, <1>5

LEMMA RememberKeeps ==
  ASSUME NEW c, CacheOK(c), NEW id \in MsgId, NEW t \in Int
  PROVE  CacheOK(Remember(c, id, t))
  <1>1. PICK lru \in Seq(Entry), b \in Bloom, v \in Nat : c = [lru |-> lru, bloom |-> b, evictions |-> v]
    BY DEF CacheOK, Cache
  <1>2. /\ c.lru = lru /\ c.bloom = b /\ c.evictions = v
        /\ Len(lru) \in Nat /\ v < REBUILD_EVICTION_THRESHOLD
        /\ b.count <= Len(lru) + v
        /\ \A i \in DOMAIN lru : Hashes[lru[i].id] \subseteq b.bits
    BY <1>1 DEF CacheOK
  <1>3. PICK put, added : put = Put(lru, id, t) /\ added = BloomAdd(b, id)
    OBVIOUS
  <1>4. /\ put \in Seq(Entry) /\ Len(put) \in Nat
        /\ \A i \in DOMAIN put : put[i].id = id \/ (i \in DOMAIN lru /\ put[i].id = lru[i].id)
        /\ Len(put) = Len(lru) + (IF \E i \in DOMAIN lru : lru[i].id = id THEN 0 ELSE 1)
    BY <1>3, PutFacts
  <1>5. /\ added \in Bloom
        /\ \A i \in DOMAIN put : Hashes[put[i].id] \subseteq added.bits
        /\ added.count <= Len(put) + v
    <2>1. /\ b.bits \in SUBSET Slot /\ b.count \in Nat
          /\ Hashes[id] \in SUBSET Slot
      BY HashesAssumption DEF Bloom
    <2>2. /\ added.bits = b.bits \cup Hashes[id]
          /\ added.count = IF InBloom(b, id) THEN b.count ELSE b.count + 1
          /\ added = [bits |-> added.bits, count |-> added.count]
      BY <1>3 DEF BloomAdd
    <2>3. added \in Bloom
      BY <2>1, <2>2 DEF Bloom
    <2>4. \A i \in DOMAIN put : Hashes[put[i].id] \subseteq added.bits
      BY <1>2, <1>4, <2>2
    <2>5. (\E i \in DOMAIN lru : lru[i].id = id) => InBloom(b, id)
      BY <1>2 DEF InBloom
    <2>6. added.count <= Len(put) + v
      <3>1. CASE \E i \in DOMAIN lru : lru[i].id = id
        BY <1>2, <1>4, <2>2, <2>5, <3>1
      <3>2. CASE ~ \E i \in DOMAIN lru : lru[i].id = id
        BY <1>2, <1>4, <2>1, <2>2, <3>2
      <3> QED BY <3>1, <3>2
    <2> QED BY <2>3, <2>4, <2>6
  <1>6. PICK k, live : k = EvictCount(put, t) /\ live = From(put, k)
    OBVIOUS
  <1>7. /\ k \in 0..Len(put) /\ Len(put) - k <= CAPACITY
        /\ live \in Seq(Entry) /\ Len(live) = Len(put) - k /\ DOMAIN live = 1..Len(live)
        /\ \A i \in 1..(Len(put) - k) : live[i] = put[k + i]
    <2>1. k \in 0..Len(put) /\ Len(put) - k <= CAPACITY
      BY <1>4, <1>6, EvictCountFacts
    <2>2. /\ live \in Seq(Entry) /\ Len(live) = Len(put) - k
          /\ \A i \in 1..(Len(put) - k) : live[i] = put[k + i]
      <3>1. put \in Seq(Entry) /\ live = From(put, k)
        BY <1>4, <1>6
      <3> QED BY ONLY <2>1, <3>1, FromProperties
    <2> QED BY <2>1, <2>2
  <1>8. ASSUME NEW i \in DOMAIN live PROVE Hashes[live[i].id] \subseteq added.bits
    <2>1. live[i] = put[k + i]
      BY <1>7, Zenon
    <2>2. k + i \in 1..Len(put)
      <3>1. i \in 1..(Len(put) - k) /\ k \in 0..Len(put) /\ Len(put) \in Nat
        BY <1>4, <1>7, Zenon
      <3> QED BY ONLY <3>1
    <2>3. k + i \in DOMAIN put
      BY <1>4, <2>2
    <2> QED BY <1>5, <2>1, <2>3, Zenon
  <1>9. Remember(c, id, t) =
           IF v + k >= REBUILD_EVICTION_THRESHOLD
           THEN [lru |-> live, bloom |-> Rebuilt(live), evictions |-> 0]
           ELSE [lru |-> live, bloom |-> added, evictions |-> v + k]
    BY <1>1, <1>2, <1>3, <1>6 DEF Remember, Evict, From
  <1>10. CASE v + k >= REBUILD_EVICTION_THRESHOLD
    <2>1. PICK r \in Bloom : r = Rebuilt(live)
      BY <1>7, RebuiltFacts
    <2>2. r.count <= Len(live) /\ \A i \in DOMAIN live : Hashes[live[i].id] \subseteq r.bits
      BY <1>7, <2>1, RebuiltFacts
    <2>3. Remember(c, id, t) = [lru |-> live, bloom |-> r, evictions |-> 0]
      BY <1>9, <1>10, <2>1
    <2>4. PICK n \in Nat : n = 0 /\ n < REBUILD_EVICTION_THRESHOLD
      BY ThresholdAssumption
    <2>5. r.count <= Len(live) + n
      BY <1>7, <2>2, <2>4 DEF Bloom
    <2> QED BY <1>7, <2>2, <2>3, <2>4, <2>5 DEF CacheOK, Cache
  <1>11. CASE ~ (v + k >= REBUILD_EVICTION_THRESHOLD)
    <2>1. v + k \in Nat /\ v + k < REBUILD_EVICTION_THRESHOLD
      BY <1>7, <1>11, ThresholdAssumption
    <2>2. added.count <= Len(live) + (v + k)
      BY <1>5, <1>7 DEF Bloom
    <2>3. Remember(c, id, t) = [lru |-> live, bloom |-> added, evictions |-> v + k]
      BY <1>9, <1>11
    <2>4. PICK next : next = Remember(c, id, t)
      OBVIOUS
    <2>5. next.lru = live /\ next.bloom = added /\ next.evictions = v + k /\ next \in Cache
      BY <1>5, <1>7, <2>1, <2>3, <2>4 DEF Cache
    <2>6. Len(live) <= CAPACITY
      BY <1>7
    <2>7. CacheOK(next)
      BY <1>8, <2>1, <2>2, <2>5, <2>6 DEF CacheOK
    <2> QED BY <2>4, <2>7
  <1> QED BY <1>10, <1>11
-----------------------------------------------------------------------------
(* The inductive invariant.                                                *)

\* What the harness sends, and relays of it: everything but the two budgets
\* is as it was injected.
PacketType == [id : MsgIds, ephem : {HARNESS_EPHEM}, sender : Device, timestamp : {Now},
               ttl : Nat, spray : Nat, size : {144}, payload_len : {5}, genuine : {TRUE}]

ThreadType == [dev : Device, packet : PacketType, todo : Seq(Device), main : BOOLEAN,
               at : {"queued", "received", "screened", "relaying"}]

\* The packet p, off the injecting device or not, has paid for its hops.
Paid(p, relayed) ==
    LET m    == MessageOf(p.id)
        hops == m.ttl - p.ttl
    IN  /\ hops \in Nat
        /\ p.spray * Pow2[hops] <= m.spray
        /\ relayed => hops >= 1 /\ p.ttl >= 1 /\ p.spray >= 1

\* Neighbours of d, each to be sent to once.
Route(d, todo) == IsInjective(todo) /\ Range(todo) \subseteq Range(Neighbors[d])

ThreadOK(h) ==
    /\ h \in ThreadType
    /\ h.at = "relaying" <=> h.todo # <<>>
    /\ h.at = "queued" => ~ h.main
    /\ Paid(h.packet, ~ h.main)
    /\ Route(h.dev, h.todo)

\* The main thread is in one call of inject() at a time, so that its frame is
\* not only the only kind of its own but a single one.
OneMain(B) ==
    \A h \in BagToSet(B) : h.main => /\ B[h] = 1
                                     /\ \A g \in BagToSet(B) : g.main => g = h

Threads(B) ==
    /\ IsABag(B)
    /\ \A h \in BagToSet(B) : ThreadOK(h)
    /\ OneMain(B)

NodeOK(n) ==
    /\ n = [attests |-> FALSE, dedup |-> n.dedup, limiter |-> n.limiter,
            tokens |-> n.tokens, budget |-> n.budget]
    /\ CacheOK(n.dedup)

MeshInv ==
    /\ nodes = [d \in Device |-> nodes[d]]
    /\ \A d \in Device : NodeOK(nodes[d])
    /\ listener \in [Device -> {"open", "closing", "closed"}]
    /\ Threads(handlers)
    /\ injected \subseteq Message
    /\ processed \in [Device -> [MsgIds -> 0..MaxProcessed]]
-----------------------------------------------------------------------------
(* Threads come, move on and go.                                           *)

LEMMA AddThread ==
  ASSUME NEW B, Threads(B), NEW g, ThreadOK(g),
         g.main => \A h \in BagToSet(B) : ~ h.main
  PROVE  Threads(BagAdd(B, g))
  <1> DEFINE C == BagAdd(B, g)
  <1>1. /\ IsABag(C) /\ BagToSet(C) = BagToSet(B) \cup {g}
        /\ g \notin BagToSet(B) => C[g] = 1
        /\ \A y \in BagToSet(B) : y # g => C[y] = B[y]
    BY AddToBag DEF Threads
  <1> HIDE DEF C
  <1>2. OneMain(C)
    <2> SUFFICES ASSUME NEW h \in BagToSet(C), h.main
                 PROVE  C[h] = 1 /\ \A k \in BagToSet(C) : k.main => k = h
      BY DEF OneMain
    <2>1. CASE h = g
      <3>1. g \notin BagToSet(B)
        BY <2>1
      <3> QED BY <1>1, <2>1, <3>1
    <2>2. CASE h # g
      <3>1. h \in BagToSet(B) /\ ~ g.main
        BY <1>1, <2>2
      <3> QED BY <1>1, <2>2, <3>1 DEF Threads, OneMain
    <2> QED BY <2>1, <2>2
  <1> QED BY <1>1, <1>2 DEF Threads, C

LEMMA RemoveThread ==
  ASSUME NEW B, Threads(B), NEW h \in BagToSet(B)
  PROVE  /\ Threads(BagRemove(B, h))
         /\ h.main => \A g \in BagToSet(BagRemove(B, h)) : ~ g.main
  <1> DEFINE C == BagRemove(B, h)
  <1>1. /\ IsABag(C) /\ BagToSet(C) \subseteq BagToSet(B)
        /\ B[h] = 1 => h \notin BagToSet(C)
        /\ \A y \in BagToSet(C) : y # h => C[y] = B[y]
    BY RemoveFromBag DEF Threads
  <1> HIDE DEF C
  <1>2. h.main => B[h] = 1
    BY DEF Threads, OneMain
  <1>3. \A k \in BagToSet(C) : k.main => k # h /\ C[k] = B[k]
    BY <1>1, <1>2
  <1>4. OneMain(C)
    BY <1>1, <1>3 DEF Threads, OneMain
  <1>5. h.main => \A g \in BagToSet(C) : ~ g.main
    BY <1>1, <1>3 DEF Threads, OneMain
  <1> QED BY <1>1, <1>4, <1>5 DEF Threads, C

LEMMA NoRoute == \A d : Route(d, <<>>)
  BY DEF Route, IsInjective, Range

\* The loop over the neighbours never comes back to one.
LEMMA RouteShortens ==
  ASSUME NEW d, NEW todo \in Seq(Device), todo # <<>>, Route(d, todo)
  PROVE  /\ Head(todo) \in Range(todo) /\ Range(Tail(todo)) = Range(todo) \ {Head(todo)}
         /\ Route(d, Tail(todo))
  <1> DEFINE t == Tail(todo)
  <1>1. Len(todo) \in Nat \ {0} /\ DOMAIN todo = 1..Len(todo) /\ Head(todo) = todo[1]
    BY EmptySeq
  <1>2. /\ t \in Seq(Device) /\ Len(t) = Len(todo) - 1
        /\ \A i \in 1..Len(t) : t[i] = todo[i + 1]
    BY HeadTailProperties
  <1>3. DOMAIN t = 1..(Len(todo) - 1) /\ \A i \in 1..(Len(todo) - 1) : t[i] = todo[i + 1]
    BY <1>2
  <1> HIDE DEF t
  <1>4. \A i, j \in 1..Len(todo) : todo[i] = todo[j] => i = j
    BY <1>1 DEF Route, IsInjective
  <1>5. Head(todo) \in Range(todo)
    BY <1>1 DEF Range
  <1>6. IsInjective(t)
    <2> SUFFICES ASSUME NEW i \in DOMAIN t, NEW j \in DOMAIN t, t[i] = t[j] PROVE i = j
      BY DEF IsInjective
    <2>1. i + 1 \in 1..Len(todo) /\ j + 1 \in 1..Len(todo) /\ todo[i + 1] = todo[j + 1]
      BY <1>1, <1>3
    <2>2. i + 1 = j + 1 /\ i \in Nat /\ j \in Nat
      BY <1>1, <1>3, <1>4, <2>1
    <2> QED BY <2>2
  <1>7. Range(t) = Range(todo) \ {Head(todo)}
    <2>1. ASSUME NEW i \in DOMAIN t PROVE t[i] \in Range(todo) /\ t[i] # Head(todo)
      <3>1. i + 1 \in 1..Len(todo) /\ t[i] = todo[i + 1] /\ i + 1 # 1 /\ 1 \in 1..Len(todo)
        BY <1>1, <1>3
      <3> QED BY <1>1, <1>4, <3>1 DEF Range
    <2>2. ASSUME NEW i \in DOMAIN todo, todo[i] # Head(todo) PROVE todo[i] \in Range(t)
      <3>1. i - 1 \in 1..(Len(todo) - 1) /\ (i - 1) + 1 = i
        BY <1>1, <2>2
      <3>2. i - 1 \in DOMAIN t /\ t[i - 1] = todo[i]
        BY <1>3, <3>1
      <3> QED BY <3>2 DEF Range
    <2> QED BY <2>1, <2>2 DEF Range
  <1> QED BY <1>5, <1>6, <1>7 DEF Route, t

\* A thread that has received its frame moves on with it.
LEMMA MoveThread ==
  ASSUME Threads(handlers), NEW h \in Active, NEW g \in ThreadType,
         g.dev = h.dev, g.packet = h.packet, g.main = h.main,
         g.at # "queued", g.at = "relaying" <=> g.todo # <<>>, Route(g.dev, g.todo)
  PROVE  Threads(Replace(h, g))
  <1>1. ThreadOK(h) /\ h \in BagToSet(handlers)
    BY DEF Threads, Active
  <1>2. ThreadOK(g)
    BY <1>1 DEF ThreadOK
  <1>3. /\ Threads(BagRemove(handlers, h))
        /\ g.main => \A k \in BagToSet(BagRemove(handlers, h)) : ~ k.main
    BY <1>1, RemoveThread
  <1> QED BY <1>2, <1>3, AddThread DEF Replace

\* The fields of h once some have changed.
LEMMA MovedFields ==
  ASSUME NEW h \in ThreadType, NEW at \in {"queued", "received", "screened", "relaying"},
         NEW g, g = [h EXCEPT !.at = at]
  PROVE  /\ g \in ThreadType
         /\ g.dev = h.dev /\ g.packet = h.packet /\ g.main = h.main
         /\ g.at = at /\ g.todo = h.todo
  BY DEF ThreadType

LEMMA ShortenedFields ==
  ASSUME NEW h \in ThreadType, NEW todo \in Seq(Device),
         NEW r, r = [h EXCEPT !.todo = todo]
  PROVE  /\ r \in ThreadType
         /\ r.dev = h.dev /\ r.packet = h.packet /\ r.main = h.main
         /\ r.at = h.at /\ r.todo = todo
  BY DEF ThreadType
-----------------------------------------------------------------------------
(* What they carry.                                                        *)

LEMMA MessageFacts ==
  ASSUME NEW id \in MsgIds
  PROVE  /\ MessageOf(id) \in Message /\ MessageOf(id).id = id
         /\ \A m \in Message : m.id = id => m = MessageOf(id)
  <1>1. \E m \in Message : m.id = id
    BY DEF MsgIds
  <1>2. MessageOf(id) \in Message /\ MessageOf(id).id = id
    BY <1>1 DEF MessageOf
  <1> QED BY <1>2, MessageAssumption

LEMMA MessageFields ==
  ASSUME NEW m \in Message
  PROVE  /\ m.id \in MsgId /\ m.id \in MsgIds /\ m.origin \in Device
         /\ m.ttl \in Nat /\ m.spray \in Nat
  <1>1. m \in [id : MsgId, origin : Device, ttl : Nat, spray : Nat]
    BY MessageAssumption
  <1> QED BY <1>1 DEF MsgIds

\* Half of a budget pays for one hop more.
LEMMA HalfPays ==
  ASSUME NEW a \in Nat, NEW b \in Nat, NEW k \in Nat, NEW l \in Nat,
         2 * a <= b, b * Pow2[k] <= l
  PROVE  a * Pow2[k + 1] <= l
  <1>1. PICK q \in Nat : q = Pow2[k] /\ Pow2[k + 1] = 2 * q
    BY Pow2Facts
  <1>2. PICK r \in Nat : b = 2 * a + r
    <2>1. b - 2 * a \in Nat /\ b = 2 * a + (b - 2 * a)
      OBVIOUS
    <2> QED BY <2>1
  <1>3. b * q = a * (2 * q) + r * q /\ r * q \in Nat /\ a * (2 * q) \in Nat
    BY <1>1, <1>2
  <1>4. PICK x \in Nat, y \in Nat, z \in Nat : x = a * (2 * q) /\ y = r * q /\ z = b * q
    BY <1>3
  <1>5. z = x + y /\ z <= l
    BY <1>1, <1>3, <1>4
  <1>6. x <= l
    BY <1>5
  <1> QED BY <1>1, <1>4, <1>6

LEMMA CopyFacts ==
  ASSUME NEW p \in PacketType, NEW relayed, Paid(p, relayed), NEW copy \in OnwardCopies(p)
  PROVE  copy \in PacketType /\ Paid(copy, TRUE)
  <1>1. p.id \in MsgIds /\ p.ttl \in Nat /\ p.spray \in Nat
    BY DEF PacketType
  <1>2. PICK f, t : f = SplitCopies(p.spray).forward /\ t = p.ttl - 1
    OBVIOUS
  <1>3. t > 0 /\ f # 0 /\ copy = [p EXCEPT !.ttl = t, !.spray = f]
    BY <1>1, <1>2 DEF OnwardCopies
  <1>4. f \in Nat /\ f >= 1 /\ 2 * f <= p.spray /\ t \in Nat
    BY <1>1, <1>2, <1>3 DEF SplitCopies
  <1>5. copy \in PacketType /\ copy.id = p.id /\ copy.ttl = p.ttl - 1 /\ copy.spray = f
    <2>1. copy \in PacketType
      <3>1. /\ p.id \in MsgIds /\ p.ephem \in {HARNESS_EPHEM} /\ p.sender \in Device
            /\ p.timestamp \in {Now} /\ p.size \in {144} /\ p.payload_len \in {5}
            /\ p.genuine \in {TRUE}
        BY DEF PacketType
      <3>2. copy = [id |-> p.id, ephem |-> p.ephem, sender |-> p.sender,
                    timestamp |-> p.timestamp, ttl |-> t, spray |-> f, size |-> p.size,
                    payload_len |-> p.payload_len, genuine |-> p.genuine]
        BY <1>3 DEF PacketType
      <3> QED BY <1>4, <3>1, <3>2 DEF PacketType
    <2>2. copy.id = p.id /\ copy.ttl = t /\ copy.spray = f
      BY <1>3 DEF PacketType
    <2>3. t = p.ttl - 1
      BY <1>2
    <2> QED BY <2>1, <2>2, <2>3
  <1>6. PICK m \in Message : m = MessageOf(p.id)
    BY <1>1, MessageFacts
  <1>7. m.ttl \in Nat /\ m.spray \in Nat
    BY MessageFields
  <1>8. m.ttl - p.ttl \in Nat /\ p.spray * Pow2[m.ttl - p.ttl] <= m.spray
    BY <1>6 DEF Paid
  <1>9. f * Pow2[(m.ttl - p.ttl) + 1] <= m.spray
    BY <1>1, <1>4, <1>7, <1>8, HalfPays
  <1>10. /\ m.ttl - copy.ttl = (m.ttl - p.ttl) + 1 /\ m.ttl - copy.ttl \in Nat
         /\ m.ttl - copy.ttl >= 1 /\ copy.ttl >= 1 /\ copy.spray >= 1
    BY <1>1, <1>2, <1>3, <1>4, <1>5, <1>7, <1>8
  <1>11. copy.spray * Pow2[m.ttl - copy.ttl] <= m.spray
    BY <1>5, <1>9, <1>10
  <1> QED BY <1>5, <1>6, <1>10, <1>11 DEF Paid

LEMMA InjectedPays ==
  ASSUME NEW m \in Message
  PROVE  Packet(m) \in PacketType /\ Paid(Packet(m), FALSE)
  <1>1. m.id \in MsgIds /\ m.origin \in Device /\ m.ttl \in Nat /\ m.spray \in Nat
    BY MessageFields
  <1>2. MessageOf(m.id) = m
    BY <1>1, MessageFacts
  <1>3. /\ Packet(m) \in PacketType /\ Packet(m).id = m.id
        /\ Packet(m).ttl = m.ttl /\ Packet(m).spray = m.spray
    BY <1>1 DEF Packet, PacketType
  <1>4. m.ttl - m.ttl = 0 /\ m.spray * 1 <= m.spray
    BY <1>1
  <1> QED BY <1>2, <1>3, <1>4, Pow2Facts DEF Paid
-----------------------------------------------------------------------------
(* The steps.                                                              *)

LEMMA NewNodeOK == NodeOK(NewNode(FALSE))
  <1>1. CacheOK(NewCache)
    BY CapacityAssumption, ThresholdAssumption DEF CacheOK, NewCache, NewBloom, Cache, Bloom
  <1> QED BY <1>1 DEF NodeOK, NewNode

LEMMA ProcessedNodeOK ==
  ASSUME NEW n, NodeOK(n), NEW p \in PacketType
  PROVE  /\ NodeOK(AfterProcess(n, p, Now))
         /\ AfterProcess(n, p, Now).dedup = Remember(n.dedup, p.id, Now)
  <1>1. PICK d, l, k, b :
           n = [attests |-> FALSE, dedup |-> d, limiter |-> l, tokens |-> k, budget |-> b]
    BY DEF NodeOK
  <1>2. n.dedup = d /\ CacheOK(d)
    BY <1>1 DEF NodeOK
  <1>3. PICK d2, l2, k2, b2 :
           /\ d2 = Remember(n.dedup, p.id, Now)
           /\ l2 = RateCheck(n.limiter, p.ephem, Now).next
           /\ k2 = (IF Judge(n, p, Now) = "unattested" THEN AfterCheck(n.tokens, p.sender, Now) ELSE n.tokens)
           /\ b2 = (IF Judge(n, p, Now) = "deliver" THEN Observe(n.budget, p.id, p.spray) ELSE n.budget)
    OBVIOUS
  <1>4. AfterProcess(n, p, Now) =
           [n EXCEPT !.dedup = d2, !.limiter = l2, !.tokens = k2, !.budget = b2]
    BY <1>1, <1>3 DEF AfterProcess
  <1>5. AfterProcess(n, p, Now) =
           [attests |-> FALSE, dedup |-> d2, limiter |-> l2, tokens |-> k2, budget |-> b2]
    BY <1>1, <1>4
  <1>6. p.id \in MsgId /\ Now \in Int
    <2>1. p.id \in MsgIds
      BY DEF PacketType
    <2>2. PICK m \in Message : m.id = p.id
      BY <2>1 DEF MsgIds
    <2> QED BY <2>2, MessageFields DEF Now
  <1>7. CacheOK(d2)
    BY <1>2, <1>3, <1>6, RememberKeeps
  <1> QED BY <1>3, <1>5, <1>7 DEF NodeOK

LEMMA InjectPreserves ==
  ASSUME MeshInv, NEW m \in Message, Inject(m)
  PROVE  MeshInv'
  <1> DEFINE g == Handler(m.origin, Packet(m), "received", TRUE)
  <1>1. ThreadOK(g)
    <2>1. PICK p \in PacketType, d \in Device : p = Packet(m) /\ d = m.origin
      BY InjectedPays, MessageFields
    <2>2. Handler(d, p, "received", TRUE) \in ThreadType
      BY DEF Handler, ThreadType
    <2> QED BY <2>1, <2>2, InjectedPays, NoRoute DEF Handler, ThreadOK
  <1>2. \A h \in BagToSet(handlers) : ~ h.main
    BY DEF Inject, MainIdle, Active
  <1>3. Threads(BagAdd(handlers, g))
    <2> HIDE DEF g
    <2> QED BY <1>1, <1>2, AddThread DEF MeshInv
  <1> QED BY <1>3 DEF MeshInv, Inject

LEMMA AcceptPreserves ==
  ASSUME MeshInv, NEW h \in Active, Accept(h)
  PROVE  MeshInv'
  <1>1. ThreadOK(h) /\ h \in ThreadType
    BY DEF MeshInv, Threads, Active, ThreadOK
  <1>0. PICK g : g = [h EXCEPT !.at = "received"]
    OBVIOUS
  <1>2. /\ g \in ThreadType /\ g.dev = h.dev /\ g.packet = h.packet /\ g.main = h.main
        /\ g.at = "received" /\ g.todo = h.todo
    BY <1>0, <1>1, MovedFields
  <1>3. h.todo = <<>>
    BY <1>1 DEF Accept, ThreadOK
  <1>4. handlers' = Replace(h, g)
    BY <1>0 DEF Accept
  <1>5. Threads(handlers')
    BY <1>2, <1>3, <1>4, MoveThread, NoRoute DEF MeshInv
  <1>6. listener' \in [Device -> {"open", "closing", "closed"}]
    BY DEF MeshInv, Accept
  <1> QED BY <1>5, <1>6 DEF MeshInv, Accept

\* Lost frames, finished threads.
LEMMA ThreadEnds ==
  ASSUME Threads(handlers), NEW h \in Active
  PROVE  Threads(BagRemove(handlers, h))
  BY RemoveThread DEF Active

LEMMA ScreenPreserves ==
  ASSUME MeshInv, NEW h \in Active, ScreenFrame(h)
  PROVE  MeshInv'
  <1>1. ThreadOK(h) /\ h \in ThreadType
    BY DEF MeshInv, Threads, Active, ThreadOK
  <1>0. PICK g : g = [h EXCEPT !.at = "screened"]
    OBVIOUS
  <1>2. /\ g \in ThreadType /\ g.dev = h.dev /\ g.packet = h.packet /\ g.main = h.main
        /\ g.at = "screened" /\ g.todo = h.todo
    BY <1>0, <1>1, MovedFields
  <1>3. h.todo = <<>>
    BY <1>1 DEF ScreenFrame, ThreadOK
  <1>4. handlers' = Replace(h, g) \/ handlers' = BagRemove(handlers, h)
    BY <1>0 DEF ScreenFrame
  <1>5. Threads(Replace(h, g)) /\ Threads(BagRemove(handlers, h))
    BY <1>2, <1>3, MoveThread, ThreadEnds, NoRoute DEF MeshInv
  <1> QED BY <1>4, <1>5 DEF MeshInv, ScreenFrame

LEMMA NeighborsType ==
  ASSUME NEW d \in Device
  PROVE  Neighbors[d] \in Seq(Device) /\ Route(d, Neighbors[d])
  <1>1. Neighbors[d] \in Seq(Device \ {d}) /\ IsInjective(Neighbors[d])
    BY TopologyAssumption
  <1> QED BY <1>1 DEF Route

LEMMA ProcessPreserves ==
  ASSUME MeshInv, NEW h \in Active, Process(h)
  PROVE  MeshInv'
  <1>1. ThreadOK(h) /\ h \in ThreadType /\ h.dev \in Device /\ h.packet \in PacketType
    BY DEF MeshInv, Threads, Active, ThreadOK, ThreadType
  <1>2. /\ nodes' = [d \in Device |-> nodes'[d]]
        /\ \A d \in Device : NodeOK(nodes'[d])
    <2>1. PICK n : n = AfterProcess(nodes[h.dev], h.packet, Now) /\ NodeOK(n)
      BY <1>1, ProcessedNodeOK DEF MeshInv
    <2>2. nodes' = [nodes EXCEPT ![h.dev] = n]
      BY <2>1 DEF Process
    <2> QED BY <1>1, <2>1, <2>2 DEF MeshInv
  <1>3. processed' \in [Device -> [MsgIds -> 0..MaxProcessed]]
    <2>1. h.packet.id \in MsgIds
      BY <1>1 DEF PacketType
    <2>2. CASE processed' = processed
      BY <2>2 DEF MeshInv
    <2>3. CASE /\ processed[h.dev][h.packet.id] < MaxProcessed
               /\ processed' = [processed EXCEPT ![h.dev][h.packet.id] = @ + 1]
      BY <1>1, <2>1, <2>3, MessageAssumption DEF MeshInv
    <2> QED BY <2>2, <2>3 DEF Process
  <1>4. Threads(handlers')
    <2>1. CASE handlers' = BagRemove(handlers, h)
      BY <2>1, ThreadEnds DEF MeshInv
    <2>2. CASE /\ Neighbors[h.dev] # <<>>
               /\ handlers' = Replace(h, [h EXCEPT !.at = "relaying", !.todo = Neighbors[h.dev]])
      <3>1. PICK s \in Seq(Device) : s = Neighbors[h.dev] /\ Route(h.dev, s)
        BY <1>1, NeighborsType
      <3> DEFINE g == [h EXCEPT !.at = "relaying", !.todo = s]
      <3>2. /\ g \in ThreadType /\ g.dev = h.dev /\ g.packet = h.packet /\ g.main = h.main
            /\ g.at = "relaying" /\ g.todo = s
        BY <1>1 DEF ThreadType
      <3>3. handlers' = Replace(h, g)
        BY <2>2, <3>1
      <3> HIDE DEF g
      <3> QED BY <2>2, <3>1, <3>2, <3>3, MoveThread DEF MeshInv
    <2> QED BY <2>1, <2>2 DEF Process
  <1> QED BY <1>2, <1>3, <1>4 DEF MeshInv, Process

\* The loop over the neighbours ends, or goes on without the one dealt with.
LEMMA AdvanceFacts ==
  ASSUME MeshInv, NEW h \in Active, h.at = "relaying"
  PROVE  /\ Threads(Advanced(h))
         /\ \/ Advanced(h) = BagRemove(handlers, h)
            \/ \E r : /\ Advanced(h) = Replace(h, r)
                      /\ r.dev = h.dev /\ r.packet = h.packet /\ r.at = "relaying"
                      /\ Range(r.todo) = Range(h.todo) \ {Head(h.todo)}
  <1>1. /\ ThreadOK(h) /\ h \in ThreadType /\ h.todo \in Seq(Device) /\ h.todo # <<>>
        /\ Route(h.dev, h.todo)
    BY DEF MeshInv, Threads, Active, ThreadOK, ThreadType
  <1>2. CASE Len(h.todo) = 1
    BY <1>2, ThreadEnds DEF MeshInv, Advanced
  <1>3. CASE Len(h.todo) # 1
    <2>1. PICK s \in Seq(Device) : /\ s = Tail(h.todo) /\ s # <<>> /\ Route(h.dev, s)
                                   /\ Range(s) = Range(h.todo) \ {Head(h.todo)}
      <3>1. PICK t \in Seq(Device) : t = h.todo
        BY <1>1
      <3>2. Len(t) \in Nat /\ Len(t) # 0 /\ Len(t) # 1
        BY <1>1, <1>3, <3>1, EmptySeq
      <3>3. Tail(t) \in Seq(Device) /\ Len(Tail(t)) = Len(t) - 1
        BY <3>2, HeadTailProperties
      <3>4. Tail(t) # <<>>
        <4>1. \A u : u = <<>> => Len(u) = 0
          OBVIOUS
        <4>2. Len(Tail(t)) # 0
          BY <3>2, <3>3
        <4> QED BY <4>1, <4>2
      <3> QED BY <1>1, <3>1, <3>3, <3>4, RouteShortens
    <2>5. PICK r : r = [h EXCEPT !.todo = s]
      OBVIOUS
    <2>2. /\ r \in ThreadType /\ r.dev = h.dev /\ r.packet = h.packet /\ r.main = h.main
          /\ r.at = h.at /\ r.todo = s
      BY <1>1, <2>5, ShortenedFields
    <2>3. Advanced(h) = Replace(h, r)
      BY <1>3, <2>1, <2>5 DEF Advanced
    <2>4. Threads(Replace(h, r))
      BY <1>1, <2>1, <2>2, MoveThread DEF MeshInv
    <2> QED BY <2>1, <2>2, <2>3, <2>4
  <1> QED BY <1>2, <1>3

LEMMA RelayPreserves ==
  ASSUME MeshInv, NEW h \in Active, Relay(h)
  PROVE  MeshInv'
  <1>1. /\ h \in ThreadType /\ h.packet \in PacketType
        /\ h.todo \in Seq(Device) /\ h.todo # <<>> /\ h.at = "relaying"
        /\ Paid(h.packet, ~ h.main)
    BY DEF MeshInv, Threads, Active, ThreadOK, ThreadType, Relay
  <1>2. PICK copy \in OnwardCopies(h.packet) :
           handlers' = BagAdd(Advanced(h), Handler(Head(h.todo), copy, "queued", FALSE))
    BY DEF Relay
  <1>3. copy \in PacketType /\ Paid(copy, TRUE)
    BY <1>1, CopyFacts
  <1> DEFINE g == Handler(Head(h.todo), copy, "queued", FALSE)
  <1>4. ThreadOK(g) /\ ~ g.main
    <2>1. Head(h.todo) \in Device
      BY <1>1
    <2>2. g \in ThreadType
      BY <1>3, <2>1 DEF Handler, ThreadType
    <2> QED BY <1>3, <2>2, NoRoute DEF Handler, ThreadOK
  <1>5. Threads(Advanced(h))
    BY <1>1, AdvanceFacts
  <1> HIDE DEF g
  <1>6. Threads(handlers')
    BY <1>2, <1>4, <1>5, AddThread DEF g
  <1> QED BY <1>6 DEF MeshInv, Relay

LEMMA StepPreserves == MeshInv /\ [Next]_vars => MeshInv'
  <1> SUFFICES ASSUME MeshInv, [Next]_vars PROVE MeshInv'
    OBVIOUS
  <1>1. CASE UNCHANGED vars
    BY <1>1 DEF vars, MeshInv
  <1>2. ASSUME NEW m \in Message, Inject(m) PROVE MeshInv'
    BY <1>2, InjectPreserves
  <1>3. ASSUME NEW h \in Active, Handle(h) PROVE MeshInv'
    <2>1. ASSUME Lose(h) \/ Refused(h) PROVE MeshInv'
      <3>1. handlers' = BagRemove(handlers, h) /\ Threads(handlers')
        BY <2>1, ThreadEnds DEF Lose, Refused, MeshInv
      <3> QED BY <2>1, <3>1 DEF Lose, Refused, MeshInv
    <2> QED BY <1>3, <2>1, AcceptPreserves, ScreenPreserves, ProcessPreserves,
               RelayPreserves DEF Handle
  <1>4. ASSUME NEW d \in Device, Stop(d) PROVE MeshInv'
    BY <1>4 DEF Stop, MeshInv
  <1>5. CASE Exit
    <2>1. Threads(EmptyBag)
      BY NoBag DEF Threads, OneMain
    <2> QED BY <1>5, <2>1 DEF Exit, MeshInv
  <1> QED BY <1>1, <1>2, <1>3, <1>4, <1>5 DEF Next

LEMMA InitInv == Init => MeshInv
  <1> SUFFICES ASSUME Init PROVE MeshInv
    OBVIOUS
  <1>1. Threads(handlers)
    BY NoBag DEF Init, Threads, OneMain
  <1>2. \A d \in Device : NodeOK(nodes[d])
    BY NewNodeOK DEF Init
  <1>3. /\ processed \in [Device -> [MsgIds -> 0..MaxProcessed]]
        /\ nodes = [d \in Device |-> nodes[d]]
    BY MessageAssumption DEF Init
  <1> QED BY <1>1, <1>2, <1>3 DEF Init, MeshInv
-----------------------------------------------------------------------------
(***************************************************************************)
(* The handler threads that socket_transport.py starts for every frame     *)
(* keep the devices' pipelines and their own frames in order, however they *)
(* interleave.                                                             *)
(***************************************************************************)
THEOREM MeshInvariant == Spec => []MeshInv
  BY InitInv, StepPreserves, PTL DEF Spec

(***************************************************************************)
(* Every thread stays in one of the states of its frame, the harness is in *)
(* one inject() at a time, and every cache stays well-formed.              *)
(***************************************************************************)
THEOREM TypeCorrect == Spec => []TypeOK
  <1>1. MeshInv => TypeOK
    <2> SUFFICES ASSUME MeshInv PROVE TypeOK
      OBVIOUS
    <2>1. \A d \in Device : nodes[d].dedup \in Cache
      BY DEF MeshInv, NodeOK, CacheOK
    <2>2. \A h \in Active : /\ h.dev \in Device
                            /\ h.at \in {"queued", "received", "screened", "relaying"}
                            /\ h.at = "relaying" <=> h.todo # <<>>
                            /\ h.main => h.at # "queued"
      BY DEF MeshInv, Threads, ThreadOK, ThreadType, Active
    <2>3. Cardinality({h \in Active : h.main}) <= 1
      <3>1. CASE {h \in Active : h.main} = {}
        BY <3>1, FS_EmptySet
      <3>2. ASSUME NEW h \in Active, h.main PROVE {g \in Active : g.main} = {h}
        BY <3>2 DEF MeshInv, Threads, OneMain, Active
      <3>3. \A h : Cardinality({h}) = 1
        BY FS_Singleton
      <3> QED BY <3>1, <3>2, <3>3
    <2> QED BY <2>1, <2>2, <2>3 DEF MeshInv, Threads, TypeOK
  <1> QED BY <1>1, MeshInvariant, PTL

(***************************************************************************)
(* Every frame on its way to a device has given up a hop and at least half *)
(* of its copies for every hop it made, and has some of both left: no      *)
(* message outlives its hops or its doublings, on any topology and however *)
(* often racing handlers relay it twice.                                   *)
(***************************************************************************)
THEOREM HopBudgetHolds == Spec => []HopBudget
  <1>1. MeshInv => HopBudget
    <2> SUFFICES ASSUME MeshInv, NEW h \in Active, h.at = "queued"
                 PROVE  LET m    == MessageOf(h.packet.id)
                            hops == m.ttl - h.packet.ttl
                        IN  /\ hops >= 1 /\ h.packet.ttl >= 1
                            /\ h.packet.spray >= 1
                            /\ h.packet.spray * Pow2[hops] <= m.spray
      BY DEF HopBudget
    <2>1. Paid(h.packet, TRUE)
      BY DEF MeshInv, Threads, ThreadOK, Active
    <2> QED BY <2>1 DEF Paid
  <1> QED BY <1>1, MeshInvariant, PTL

(***************************************************************************)
(* The add() of dedup_check.py:71 never finds its Bloom filter full, even  *)
(* though handlers of one device race between the check and the insertion: *)
(* a message added twice is counted once as long as it is live.            *)
(***************************************************************************)
THEOREM AddNeverRaises == Spec => []\A d \in Device : ~ AddRaises(nodes[d].dedup.bloom)
  <1>1. MeshInv => \A d \in Device : ~ AddRaises(nodes[d].dedup.bloom)
    <2> SUFFICES ASSUME NEW c, CacheOK(c) PROVE ~ AddRaises(c.bloom)
      BY DEF MeshInv, NodeOK
    <2>1. /\ Len(c.lru) \in Nat /\ c.evictions \in Nat /\ c.bloom.count \in Nat
          /\ Len(c.lru) <= CAPACITY /\ c.evictions < REBUILD_EVICTION_THRESHOLD
          /\ c.bloom.count <= Len(c.lru) + c.evictions
      BY DEF CacheOK, Cache, Bloom
    <2> QED BY <2>1, CapacityAssumption, ThresholdAssumption DEF AddRaises, BLOOM_CAPACITY
  <1> QED BY <1>1, MeshInvariant, PTL
-----------------------------------------------------------------------------
(* Without cycles. On a topology without cycles, and with room for every   *)
(* message in the caches, no device processes a message twice: its one     *)
(* neighbour on the way to the origin sends it one copy, and every other   *)
(* copy comes from a device that has it from here.                         *)

Ids(c) == {c.lru[i].id : i \in DOMAIN c.lru}

\* A cache that never had to evict.
Ample(c) ==
    /\ \A i \in DOMAIN c.lru : c.lru[i].id \in MsgIds /\ c.lru[i].at = Now
    /\ \A i, j \in DOMAIN c.lru : c.lru[i].id = c.lru[j].id => i = j
    /\ c.evictions = 0

LEMMA PutDistinct ==
  ASSUME NEW lru \in Seq(Entry), NEW id \in MsgId, NEW t \in Int,
         \A i, j \in DOMAIN lru : lru[i].id = lru[j].id => i = j,
         NEW put, put = Put(lru, id, t)
  PROVE  /\ \A i \in DOMAIN put : put[i].at = t \/ (i \in DOMAIN lru /\ put[i].at = lru[i].at)
         /\ \A i, j \in DOMAIN put : put[i].id = put[j].id => i = j
         /\ \A i \in DOMAIN put : put[i].id = id \/ \E j \in DOMAIN lru : put[i].id = lru[j].id
         /\ \A j \in DOMAIN lru : \E i \in DOMAIN put : put[i].id = lru[j].id
         /\ \E i \in DOMAIN put : put[i].id = id
  <1>1. PICK e \in Entry : e = [id |-> id, at |-> t]
    BY DEF Entry
  <1>2. e.id = id /\ e.at = t
    BY <1>1
  <1>3. Len(lru) \in Nat /\ DOMAIN lru = 1..Len(lru) /\ \A i \in 1..Len(lru) : lru[i] \in Entry
    OBVIOUS
  <1>4. CASE \E i \in DOMAIN lru : lru[i].id = id
    <2>1. put = [i \in DOMAIN lru |-> IF lru[i].id = id THEN e ELSE lru[i]]
      BY <1>1, <1>4 DEF Put
    <2>2. DOMAIN put = DOMAIN lru
      BY <2>1
    <2>3. \A i \in DOMAIN put : put[i].id = lru[i].id /\ (put[i].at = t \/ put[i].at = lru[i].at)
      BY <1>2, <2>1
    <2>4. \A i, j \in DOMAIN put : put[i].id = put[j].id => i = j
      BY <2>2, <2>3, Zenon
    <2>5. \E i \in DOMAIN put : put[i].id = id
      BY <1>4, <2>2, <2>3, Zenon
    <2> QED BY <2>2, <2>3, <2>4, <2>5, Zenon
  <1>5. CASE ~ \E i \in DOMAIN lru : lru[i].id = id
    <2>1. put = Append(lru, e)
      BY <1>1, <1>5 DEF Put
    <2>2. PICK n : n = Len(lru) + 1
      OBVIOUS
    <2>3. /\ DOMAIN put = DOMAIN lru \cup {n} /\ n \notin DOMAIN lru
          /\ put[n] = e /\ \A i \in DOMAIN lru : put[i] = lru[i]
      BY <1>3, <2>1, <2>2
    <2>4. put[n].id = id /\ put[n].at = t
      BY <1>2, <2>3, Zenon
    <2>5. \A i \in DOMAIN lru : put[i].id = lru[i].id /\ put[i].id # id
      BY <1>5, <2>3, Zenon
    <2>6. \A i \in DOMAIN put : put[i].at = t \/ (i \in DOMAIN lru /\ put[i].at = lru[i].at)
      BY <2>3, <2>4
    <2>7. \A i, j \in DOMAIN put : put[i].id = put[j].id => i = j
      BY <2>3, <2>4, <2>5
    <2>8. \A i \in DOMAIN put : put[i].id = id \/ \E j \in DOMAIN lru : put[i].id = lru[j].id
      BY <2>3, <2>4, <2>5
    <2>9. \A j \in DOMAIN lru : \E i \in DOMAIN put : put[i].id = lru[j].id
      BY <2>3, <2>5
    <2> QED BY <2>3, <2>4, <2>6, <2>7, <2>8, <2>9
  <1> QED BY <1>4, <1>5

LEMMA RememberAll ==
  ASSUME Roomy, NEW c, CacheOK(c), Ample(c), NEW id \in MsgIds,
         NEW next, next = Remember(c, id, Now)
  PROVE  Ample(next) /\ Ids(next) = Ids(c) \cup {id}
  <1>1. PICK lru \in Seq(Entry), b \in Bloom : c = [lru |-> lru, bloom |-> b, evictions |-> 0]
    BY DEF CacheOK, Cache, Ample
  <1>2. c.lru = lru /\ c.bloom = b /\ c.evictions = 0
    BY <1>1
  <1>3. id \in MsgId /\ Now \in Int /\ Now - Now = 0
    BY MessageFacts, MessageFields DEF Now
  <1>4. PICK put : put = Put(lru, id, Now)
    OBVIOUS
  <1>5. put \in Seq(Entry) /\ Len(put) \in Nat /\ DOMAIN put = 1..Len(put)
    BY <1>3, <1>4, PutFacts
  <1>6. /\ \A i \in DOMAIN put : put[i].at = Now
        /\ \A i, j \in DOMAIN put : put[i].id = put[j].id => i = j
        /\ \A i \in DOMAIN put : put[i].id \in Ids(c) \cup {id}
        /\ \A x \in Ids(c) \cup {id} : \E i \in DOMAIN put : put[i].id = x
    <2>1. /\ \A i \in DOMAIN lru : lru[i].at = Now
          /\ \A i, j \in DOMAIN lru : lru[i].id = lru[j].id => i = j
          /\ Ids(c) = {lru[i].id : i \in DOMAIN lru}
      BY <1>2 DEF Ample, Ids
    <2>2. /\ \A i \in DOMAIN put : put[i].at = Now \/ (i \in DOMAIN lru /\ put[i].at = lru[i].at)
          /\ \A i, j \in DOMAIN put : put[i].id = put[j].id => i = j
          /\ \A i \in DOMAIN put : put[i].id = id \/ \E j \in DOMAIN lru : put[i].id = lru[j].id
          /\ \A j \in DOMAIN lru : \E i \in DOMAIN put : put[i].id = lru[j].id
          /\ \E i \in DOMAIN put : put[i].id = id
      BY <1>3, <1>4, <2>1, PutDistinct
    <2>3. \A i \in DOMAIN put : put[i].at = Now
      BY <2>1, <2>2
    <2>4. \A i \in DOMAIN put : put[i].id \in Ids(c) \cup {id}
      BY <2>1, <2>2
    <2>5. \A x \in Ids(c) \cup {id} : \E i \in DOMAIN put : put[i].id = x
      BY <2>1, <2>2
    <2> QED BY <2>2, <2>3, <2>4, <2>5, Zenon
  <1>7. \A i \in DOMAIN put : put[i].id \in MsgIds
    BY <1>2, <1>6 DEF Ample, Ids
  <1>8. Len(put) <= CAPACITY
    <2> DEFINE f == [i \in 1..Len(put) |-> put[i].id]
    <2>1. f \in [1..Len(put) -> MsgIds]
      BY <1>5, <1>7
    <2>2. \A i, j \in 1..Len(put) : f[i] = f[j] => i = j
      BY <1>5, <1>6
    <2> HIDE DEF f
    <2>3. Len(put) <= Cardinality(MsgIds) /\ Cardinality(MsgIds) \in Nat
      BY <1>5, <2>1, <2>2, DistinctFit, FS_CardinalityType DEF Roomy
    <2> QED BY <1>5, <2>3, CapacityAssumption DEF Roomy
  <1>9. EvictCount(put, Now) = 0
    <2>1. ~ MustEvict(put, Now, 0)
      BY <1>3, <1>5, <1>6, <1>8, CapacityAssumption, TTLAssumption DEF MustEvict
    <2>2. \A k \in 0..Len(put) :
             (~ MustEvict(put, Now, k) /\ \A j \in 0..(k - 1) : MustEvict(put, Now, j)) <=> k = 0
      <3> SUFFICES ASSUME NEW k \in 0..Len(put), \A j \in 0..(k - 1) : MustEvict(put, Now, j), k # 0
                   PROVE  FALSE
        BY <2>1, <1>5
      <3>1. 0 \in 0..(k - 1)
        BY <1>5
      <3> QED BY <2>1, <3>1
    <2> QED BY <1>5, <2>2 DEF EvictCount
  <1>10. SubSeq(put, 0 + 1, Len(put)) = put
    BY <1>5
  <1>11. Remember(c, id, Now) = [lru |-> put, bloom |-> BloomAdd(b, id), evictions |-> 0]
    <2>1. ~ (0 + 0 >= REBUILD_EVICTION_THRESHOLD) /\ 0 + 0 = 0
      BY ThresholdAssumption
    <2>2. PICK k, n : /\ k = [lru |-> put, bloom |-> BloomAdd(b, id), evictions |-> 0]
                      /\ n = EvictCount(put, Now)
      OBVIOUS
    <2>3. Remember(c, id, Now) = Evict(k, Now)
      BY <1>2, <1>4, <2>2 DEF Remember
    <2>4. /\ k.lru = put /\ k.bloom = BloomAdd(b, id) /\ k.evictions = 0
          /\ EvictCount(k.lru, Now) = n /\ n = 0
      BY <1>9, <2>2
    <2>5. Evict(k, Now) = k
      BY <1>10, <2>1, <2>2, <2>4 DEF Evict
    <2> QED BY <2>2, <2>3, <2>5
  <1>12. next.lru = put /\ next.evictions = 0
    BY <1>11
  <1>13. Ids(next) = Ids(c) \cup {id}
    <2>1. \A i \in DOMAIN put : put[i].id \in Ids(next)
      BY <1>12 DEF Ids
    <2>2. \A x \in Ids(next) : \E i \in DOMAIN put : put[i].id = x
      BY <1>12 DEF Ids
    <2> QED BY <1>6, <2>1, <2>2
  <1> QED BY <1>6, <1>7, <1>12, <1>13 DEF Ample

\* The frames of a message that wait for device d, and the threads that relay it.
Coming(B, id, d) ==
    {h \in BagToSet(B) : h.packet.id = id /\ h.dev = d /\ h.at # "relaying"}
Sending(B, id, d) ==
    {h \in BagToSet(B) : h.packet.id = id /\ h.dev = d /\ h.at = "relaying"}

Single(B, S) == \A h \in S : B[h] = 1 /\ \A g \in S : g = h

\* The devices that hold the message.
Knowing(id) == {d \in Device : id \in Ids(nodes[d].dedup)}

(***************************************************************************)
(* How a message that the devices in K hold spreads down the tree up: only *)
(* from devices that hold it, and to a device only after the one above it. *)
(* A device that does not hold it yet gets one frame, from above, and no   *)
(* thread is about to send it another.                                     *)
(***************************************************************************)
Spreads(B, K, id, up) ==
    \A d \in Device :
        /\ Sending(B, id, d) # {} => d \in K
        /\ up[d] # d /\ (d \in K \/ Coming(B, id, d) # {}) => up[d] \in K
        /\ d \in K => \A h \in Coming(B, id, d) : h.at # "screened"
        /\ d \notin K => Single(B, Coming(B, id, d))
        /\ d \notin K /\ Coming(B, id, d) # {} =>
               \A c \in Device : \A h \in Sending(B, id, c) : d \notin Range(h.todo)
        /\ Single(B, Sending(B, id, d))

Once(id) ==
    /\ MessageOf(id) \notin injected =>
           /\ Knowing(id) = {}
           /\ \A h \in Active : h.packet.id # id
    /\ \A up \in [Device -> Device] : LeadsTo(Neighbors, MessageOf(id).origin, up) =>
           /\ Spreads(handlers, Knowing(id), id, up)
           /\ \A d \in Device : processed[d][id] <= (IF d \in Knowing(id) THEN 1 ELSE 0)

TreeInv ==
    /\ MeshInv
    /\ \A d \in Device : Ample(nodes[d].dedup)
    /\ \A id \in MsgIds : Once(id)
-----------------------------------------------------------------------------
(* How the spread of a message goes on, whatever the bag of threads.       *)

LEMMA ReplaceInBag ==
  ASSUME NEW B, IsABag(B), NEW h \in BagToSet(B), NEW g, NEW C,
         C = BagAdd(BagRemove(B, h), g)
  PROVE  /\ g \in BagToSet(C)
         /\ \A y \in BagToSet(C) : y # g => y \in BagToSet(B) /\ (B[y] = 1 => y # h /\ C[y] = 1)
         /\ g \notin BagToSet(B) \/ (g = h /\ B[h] = 1) => C[g] = 1
  <1>1. PICK R : R = BagRemove(B, h)
    OBVIOUS
  <1>2. /\ IsABag(R) /\ BagToSet(R) \subseteq BagToSet(B)
        /\ B[h] = 1 => h \notin BagToSet(R)
        /\ \A y \in BagToSet(R) : y # h => R[y] = B[y]
    BY <1>1, RemoveFromBag
  <1>3. /\ BagToSet(C) = BagToSet(R) \cup {g}
        /\ g \notin BagToSet(R) => C[g] = 1
        /\ \A y \in BagToSet(R) : y # g => C[y] = R[y]
    <2>1. C = BagAdd(R, g)
      BY <1>1
    <2> QED BY ONLY <1>2, <2>1, AddToBag
  <1>4. ASSUME NEW y \in BagToSet(C), y # g
        PROVE  y \in BagToSet(B) /\ (B[y] = 1 => y # h /\ C[y] = 1)
    <2>1. y \in BagToSet(R) /\ C[y] = R[y]
      BY <1>3, <1>4, Zenon
    <2> QED BY <1>2, <2>1, Zenon
  <1>5. ASSUME g \notin BagToSet(B) \/ (g = h /\ B[h] = 1) PROVE C[g] = 1
    BY <1>2, <1>3, <1>5, Zenon
  <1> QED BY <1>3, <1>4, <1>5, Zenon

\* Threads that end, and those of other messages, do not disturb it.
LEMMA SpreadFewer ==
  ASSUME NEW B, NEW C, NEW K, NEW id, NEW up, Spreads(B, K, id, up),
         \A h \in BagToSet(C) : h.packet.id = id => h \in BagToSet(B) /\ (B[h] = 1 => C[h] = 1)
  PROVE  Spreads(C, K, id, up)
  <1> SUFFICES ASSUME NEW d \in Device
               PROVE  /\ Sending(C, id, d) # {} => d \in K
                      /\ up[d] # d /\ (d \in K \/ Coming(C, id, d) # {}) => up[d] \in K
                      /\ d \in K => \A h \in Coming(C, id, d) : h.at # "screened"
                      /\ d \notin K => Single(C, Coming(C, id, d))
                      /\ d \notin K /\ Coming(C, id, d) # {} =>
                             \A c \in Device : \A h \in Sending(C, id, c) : d \notin Range(h.todo)
                      /\ Single(C, Sending(C, id, d))
    BY DEF Spreads
  <1>1. \A c \in Device : /\ Coming(C, id, c) \subseteq Coming(B, id, c)
                          /\ Sending(C, id, c) \subseteq Sending(B, id, c)
    BY DEF Coming, Sending
  <1>2. \A S : S \subseteq BagToSet(C) /\ (\A h \in S : h.packet.id = id) =>
           \A T : S \subseteq T /\ Single(B, T) => Single(C, S)
    BY DEF Single
  <1>3. /\ Single(B, Coming(B, id, d)) => Single(C, Coming(C, id, d))
        /\ Single(B, Sending(B, id, d)) => Single(C, Sending(C, id, d))
    <2>1. /\ Coming(C, id, d) \subseteq BagToSet(C) /\ Sending(C, id, d) \subseteq BagToSet(C)
          /\ \A h \in Coming(C, id, d) : h.packet.id = id
          /\ \A h \in Sending(C, id, d) : h.packet.id = id
      BY DEF Coming, Sending
    <2> QED BY <1>1, <1>2, <2>1
  <1> QED BY <1>1, <1>3 DEF Spreads

\* A frame moves on towards the write of the dedup state.
LEMMA SpreadMove ==
  ASSUME NEW B, IsABag(B), NEW K, NEW id, NEW up, Spreads(B, K, id, up),
         NEW h \in BagToSet(B), NEW g, NEW C, C = BagAdd(BagRemove(B, h), g),
         h.dev \in Device, g.dev = h.dev, g.packet = h.packet, h.packet.id = id,
         h.at # "relaying", g.at # "relaying", g.at = "screened" => h.dev \notin K
  PROVE  Spreads(C, K, id, up)
  <1> SUFFICES ASSUME NEW d \in Device
               PROVE  /\ Sending(C, id, d) # {} => d \in K
                      /\ up[d] # d /\ (d \in K \/ Coming(C, id, d) # {}) => up[d] \in K
                      /\ d \in K => \A k \in Coming(C, id, d) : k.at # "screened"
                      /\ d \notin K => Single(C, Coming(C, id, d))
                      /\ d \notin K /\ Coming(C, id, d) # {} =>
                             \A c \in Device : \A k \in Sending(C, id, c) : d \notin Range(k.todo)
                      /\ Single(C, Sending(C, id, d))
    BY DEF Spreads
  <1>1. /\ g \in BagToSet(C)
        /\ \A y \in BagToSet(C) : y # g => y \in BagToSet(B) /\ (B[y] = 1 => y # h /\ C[y] = 1)
        /\ g \notin BagToSet(B) \/ (g = h /\ B[h] = 1) => C[g] = 1
    BY ReplaceInBag
  <1>2. h \in Coming(B, id, h.dev)
    BY DEF Coming
  <1>3. \A c \in Device : /\ Coming(C, id, c) \subseteq Coming(B, id, c) \cup {g}
                          /\ Sending(C, id, c) \subseteq Sending(B, id, c)
                          /\ Coming(C, id, c) # {} => Coming(B, id, c) # {}
    BY <1>1, <1>2 DEF Coming, Sending
  <1>4. Single(C, Sending(C, id, d))
    BY <1>1, <1>3 DEF Spreads, Single, Sending
  <1>5. d \in K => \A k \in Coming(C, id, d) : k.at # "screened"
    BY <1>3 DEF Spreads, Coming
  <1>6. ASSUME d \notin K PROVE Single(C, Coming(C, id, d))
    <2>1. Single(B, Coming(B, id, d))
      BY <1>6 DEF Spreads
    <2>2. CASE d # h.dev
      BY <1>1, <2>1, <2>2 DEF Single, Coming
    <2>3. CASE d = h.dev
      <3>1. B[h] = 1 /\ \A k \in Coming(B, id, d) : k = h
        BY <1>2, <2>1, <2>3 DEF Single
      <3>2. ASSUME NEW k \in Coming(C, id, d), k # g PROVE FALSE
        BY <1>1, <3>1, <3>2 DEF Coming
      <3>3. g \in BagToSet(B) => g = h
        BY <2>3, <3>1 DEF Coming
      <3> QED BY <1>1, <3>1, <3>2, <3>3 DEF Single
    <2> QED BY <2>2, <2>3
  <1> QED BY <1>3, <1>4, <1>5, <1>6 DEF Spreads

\* The loop over the neighbours moves on.
LEMMA SpreadAdvance ==
  ASSUME NEW B, IsABag(B), NEW K, NEW id, NEW up, Spreads(B, K, id, up),
         NEW h \in BagToSet(B), NEW g, NEW C, C = BagAdd(BagRemove(B, h), g),
         h.dev \in Device, g.dev = h.dev, g.packet = h.packet, h.packet.id = id,
         h.at = "relaying", g.at = "relaying", Range(g.todo) \subseteq Range(h.todo)
  PROVE  Spreads(C, K, id, up)
  <1> SUFFICES ASSUME NEW d \in Device
               PROVE  /\ Sending(C, id, d) # {} => d \in K
                      /\ up[d] # d /\ (d \in K \/ Coming(C, id, d) # {}) => up[d] \in K
                      /\ d \in K => \A k \in Coming(C, id, d) : k.at # "screened"
                      /\ d \notin K => Single(C, Coming(C, id, d))
                      /\ d \notin K /\ Coming(C, id, d) # {} =>
                             \A c \in Device : \A k \in Sending(C, id, c) : d \notin Range(k.todo)
                      /\ Single(C, Sending(C, id, d))
    BY DEF Spreads
  <1>1. /\ g \in BagToSet(C)
        /\ \A y \in BagToSet(C) : y # g => y \in BagToSet(B) /\ (B[y] = 1 => y # h /\ C[y] = 1)
        /\ g \notin BagToSet(B) \/ (g = h /\ B[h] = 1) => C[g] = 1
    BY ReplaceInBag
  <1>2. h \in Sending(B, id, h.dev)
    BY DEF Sending
  <1>3. /\ \A c \in Device : /\ Coming(C, id, c) \subseteq Coming(B, id, c)
                             /\ Sending(C, id, c) \subseteq Sending(B, id, c) \cup {g}
                             /\ Sending(C, id, c) # {} => Sending(B, id, c) # {}
        /\ \A c \in Device : g \in Sending(C, id, c) => c = h.dev
    BY <1>1, <1>2 DEF Coming, Sending
  <1>4. Single(B, Coming(B, id, d)) => Single(C, Coming(C, id, d))
    BY <1>1, <1>3 DEF Single, Coming
  <1>5. d \notin K /\ Coming(C, id, d) # {} =>
            \A c \in Device : \A k \in Sending(C, id, c) : d \notin Range(k.todo)
    BY <1>2, <1>3 DEF Spreads
  <1>6. Single(C, Sending(C, id, d))
    <2>1. Single(B, Sending(B, id, d))
      BY DEF Spreads
    <2>2. CASE d # h.dev
      BY <1>1, <2>1, <2>2 DEF Single, Sending
    <2>3. CASE d = h.dev
      <3>1. B[h] = 1 /\ \A k \in Sending(B, id, d) : k = h
        BY <1>2, <2>1, <2>3 DEF Single
      <3>2. ASSUME NEW k \in Sending(C, id, d), k # g PROVE FALSE
        BY <1>1, <3>1, <3>2 DEF Sending
      <3>3. g \in BagToSet(B) => g = h
        BY <2>3, <3>1 DEF Sending
      <3> QED BY <1>1, <3>1, <3>2, <3>3 DEF Single
    <2> QED BY <2>2, <2>3
  <1> QED BY <1>3, <1>4, <1>5, <1>6 DEF Spreads

\* A frame sets out for a device.
LEMMA SpreadArrive ==
  ASSUME NEW B, IsABag(B), NEW K, NEW id, NEW up, Spreads(B, K, id, up),
         NEW g, NEW C, C = BagAdd(B, g),
         g.dev \in Device, g.packet.id = id, g.at \in {"queued", "received"},
         up[g.dev] # g.dev => up[g.dev] \in K,
         g.dev \notin K => /\ Coming(B, id, g.dev) = {}
                           /\ \A c \in Device : \A k \in Sending(B, id, c) :
                                 g.dev \notin Range(k.todo)
  PROVE  Spreads(C, K, id, up)
  <1> SUFFICES ASSUME NEW d \in Device
               PROVE  /\ Sending(C, id, d) # {} => d \in K
                      /\ up[d] # d /\ (d \in K \/ Coming(C, id, d) # {}) => up[d] \in K
                      /\ d \in K => \A k \in Coming(C, id, d) : k.at # "screened"
                      /\ d \notin K => Single(C, Coming(C, id, d))
                      /\ d \notin K /\ Coming(C, id, d) # {} =>
                             \A c \in Device : \A k \in Sending(C, id, c) : d \notin Range(k.todo)
                      /\ Single(C, Sending(C, id, d))
    BY DEF Spreads
  <1>1. /\ BagToSet(C) = BagToSet(B) \cup {g}
        /\ g \notin BagToSet(B) => C[g] = 1
        /\ \A y \in BagToSet(B) : y # g => C[y] = B[y]
    BY AddToBag
  <1>2. /\ \A c \in Device : Sending(C, id, c) = Sending(B, id, c)
        /\ \A c \in Device : c # g.dev => Coming(C, id, c) = Coming(B, id, c)
        /\ Coming(C, id, g.dev) = Coming(B, id, g.dev) \cup {g}
    BY <1>1 DEF Coming, Sending
  <1>3. Single(C, Sending(C, id, d))
    BY <1>1, <1>2 DEF Spreads, Single, Sending
  <1>4. CASE d # g.dev
    <2>1. Single(B, Coming(B, id, d)) => Single(C, Coming(C, id, d))
      BY <1>1, <1>2, <1>4 DEF Single, Coming
    <2> QED BY <1>2, <1>3, <1>4, <2>1 DEF Spreads
  <1>5. CASE d = g.dev
    <2>1. d \notin K => Single(C, Coming(C, id, d))
      <3> SUFFICES ASSUME d \notin K PROVE Single(C, Coming(C, id, d))
        OBVIOUS
      <3>1. Coming(C, id, d) = {g} /\ g \notin BagToSet(B)
        BY <1>2, <1>5 DEF Coming
      <3> QED BY <1>1, <3>1 DEF Single
    <2>2. d \in K => \A k \in Coming(C, id, d) : k.at # "screened"
      BY <1>2, <1>5 DEF Spreads
    <2> QED BY <1>2, <1>3, <1>5, <2>1, <2>2 DEF Spreads
  <1> QED BY <1>4, <1>5

\* A device that did not hold the message takes it, from the only frame that
\* waited for it, and may start to relay it.
LEMMA SpreadTake ==
  ASSUME NEW B, IsABag(B), NEW K, NEW id, NEW r, NEW up, LeadsTo(Neighbors, r, up),
         Spreads(B, K, id, up),
         NEW h \in BagToSet(B), h.dev \in Device, h.packet.id = id, h.at = "screened", NEW C,
         \/ C = BagRemove(B, h)
         \/ \E g : /\ C = BagAdd(BagRemove(B, h), g)
                   /\ g.dev = h.dev /\ g.packet = h.packet /\ g.at = "relaying"
                   /\ Range(g.todo) \subseteq Range(Neighbors[h.dev])
  PROVE  h.dev \notin K /\ Spreads(C, K \cup {h.dev}, id, up)
  <1>1. h \in Coming(B, id, h.dev)
    BY DEF Coming
  <1>2. /\ h.dev \notin K /\ B[h] = 1 /\ Sending(B, id, h.dev) = {}
        /\ \A k \in Coming(B, id, h.dev) : k = h
        /\ up[h.dev] # h.dev => up[h.dev] \in K
    BY <1>1 DEF Spreads, Single
  <1>3. PICK g : /\ \A y \in BagToSet(C) : y = g \/ (y \in BagToSet(B) /\ y # h /\ C[y] = B[y])
                 /\ g \in BagToSet(C) => /\ C[g] = 1 /\ g.dev = h.dev /\ g.packet = h.packet
                                         /\ g.at = "relaying"
                                         /\ Range(g.todo) \subseteq Range(Neighbors[h.dev])
    <2>1. CASE C = BagRemove(B, h)
      <3>1. /\ \A y \in BagToSet(C) : y \in BagToSet(B) /\ y # h /\ C[y] = B[y]
            /\ h \notin BagToSet(C)
        BY <1>2, <2>1, RemoveFromBag
      <3> QED BY <3>1
    <2>2. ASSUME NEW g, C = BagAdd(BagRemove(B, h), g), g.dev = h.dev, g.packet = h.packet,
                 g.at = "relaying", Range(g.todo) \subseteq Range(Neighbors[h.dev])
          PROVE  /\ \A y \in BagToSet(C) : y = g \/ (y \in BagToSet(B) /\ y # h /\ C[y] = B[y])
                 /\ C[g] = 1
      <3>1. g \notin BagToSet(B)
        BY <1>2, <2>2 DEF Sending
      <3>2. PICK R : R = BagRemove(B, h)
        OBVIOUS
      <3>3. /\ IsABag(R)
            /\ \A y \in BagToSet(R) : y \in BagToSet(B) /\ y # h /\ R[y] = B[y]
        BY <1>2, <3>2, RemoveFromBag
      <3>4. /\ BagToSet(C) = BagToSet(R) \cup {g}
            /\ g \notin BagToSet(R) => C[g] = 1
            /\ \A y \in BagToSet(R) : y # g => C[y] = R[y]
        <4>1. C = BagAdd(R, g)
          BY <2>2, <3>2
        <4> QED BY ONLY <3>3, <4>1, AddToBag
      <3>5. g \notin BagToSet(R)
        BY <3>1, <3>3, Zenon
      <3>6. ASSUME NEW y \in BagToSet(C), y # g
            PROVE  y \in BagToSet(B) /\ y # h /\ C[y] = B[y]
        <4>1. y \in BagToSet(R) /\ C[y] = R[y]
          BY <3>4, <3>6, Zenon
        <4> QED BY <3>3, <4>1, Zenon
      <3> QED BY <3>4, <3>5, <3>6, Zenon
    <2> QED BY <2>1, <2>2
  <1>4. \A c \in Device : /\ Coming(C, id, c) \subseteq Coming(B, id, c)
                          /\ c # h.dev => Sending(C, id, c) \subseteq Sending(B, id, c)
    BY <1>3 DEF Coming, Sending
  <1>5. Coming(C, id, h.dev) = {} /\ \A k \in Sending(C, id, h.dev) : k = g
    BY <1>2, <1>3 DEF Coming, Sending
  <1> SUFFICES ASSUME NEW d \in Device
               PROVE  /\ Sending(C, id, d) # {} => d \in K \cup {h.dev}
                      /\ up[d] # d /\ (d \in K \cup {h.dev} \/ Coming(C, id, d) # {}) =>
                             up[d] \in K \cup {h.dev}
                      /\ d \in K \cup {h.dev} => \A k \in Coming(C, id, d) : k.at # "screened"
                      /\ d \notin K \cup {h.dev} => Single(C, Coming(C, id, d))
                      /\ d \notin K \cup {h.dev} /\ Coming(C, id, d) # {} =>
                             \A c \in Device : \A k \in Sending(C, id, c) : d \notin Range(k.todo)
                      /\ Single(C, Sending(C, id, d))
    BY <1>2 DEF Spreads
  <1>6. CASE d = h.dev
    <2>1. Single(C, Sending(C, id, d))
      BY <1>3, <1>5, <1>6 DEF Single, Sending
    <2> QED BY <1>2, <1>5, <1>6, <2>1
  <1>7. CASE d # h.dev
    <2>1. Single(C, Sending(C, id, d))
      BY <1>3, <1>4, <1>7 DEF Single, Sending, Spreads
    <2>2. d \notin K => Single(C, Coming(C, id, d))
      BY <1>3, <1>4, <1>7 DEF Single, Coming, Spreads
    <2>3. ASSUME d \notin K, Coming(C, id, d) # {}, NEW c \in Device, NEW k \in Sending(C, id, c)
          PROVE  d \notin Range(k.todo)
      <3>1. CASE c # h.dev
        BY <1>4, <2>3, <3>1 DEF Spreads
      <3>2. CASE c = h.dev
        <4>1. Range(k.todo) \subseteq Range(Neighbors[h.dev])
          BY <1>3, <1>5, <2>3, <3>2 DEF Sending
        <4>2. Coming(B, id, d) # {}
          BY <1>4, <2>3
        <4>3. up[d] # d => up[d] \in K
          BY <4>2 DEF Spreads
        <4>4. ASSUME d \in Range(Neighbors[h.dev]) PROVE FALSE
          <5>1. up[h.dev] = d \/ up[d] = h.dev
            BY <4>4 DEF LeadsTo, Device
          <5>2. up[h.dev] # d
            BY <1>2, <1>7, <2>3
          <5>3. up[d] # h.dev
            BY <1>2, <1>7, <4>3
          <5> QED BY <5>1, <5>2, <5>3
        <4> QED BY <4>1, <4>4
      <3> QED BY <3>1, <3>2
    <2> QED BY <1>4, <1>7, <2>1, <2>2, <2>3 DEF Spreads
  <1> QED BY <1>6, <1>7
-----------------------------------------------------------------------------
(* The steps once more.                                                    *)

\* Steps that leave what the devices hold and have processed as it is.
LEMMA OnceStep ==
  ASSUME NEW id, Once(id), Knowing(id)' = Knowing(id),
         \A d \in Device : processed'[d][id] = processed[d][id],
         MessageOf(id) \notin injected' =>
             /\ MessageOf(id) \notin injected
             /\ \A h \in Active' : h.packet.id = id => \E g \in Active : g.packet.id = id,
         \A up \in [Device -> Device] :
             /\ LeadsTo(Neighbors, MessageOf(id).origin, up)
             /\ Spreads(handlers, Knowing(id), id, up)
             => Spreads(handlers', Knowing(id), id, up)
  PROVE  Once(id)'
  BY DEF Once

LEMMA OnceFewer ==
  ASSUME NEW id, Once(id), Knowing(id)' = Knowing(id),
         \A d \in Device : processed'[d][id] = processed[d][id],
         injected \subseteq injected',
         \A h \in BagToSet(handlers') :
             h.packet.id = id => h \in BagToSet(handlers) /\ (handlers[h] = 1 => handlers'[h] = 1)
  PROVE  Once(id)'
  <1>1. \A up : Spreads(handlers, Knowing(id), id, up) => Spreads(handlers', Knowing(id), id, up)
    BY SpreadFewer
  <1> QED BY <1>1, OnceStep DEF Active

\* What the bag keeps, and what it gains.
LEMMA FewerThreads ==
  ASSUME Threads(handlers), NEW h \in Active
  PROVE  /\ \A y \in BagToSet(BagRemove(handlers, h)) :
               y \in BagToSet(handlers) /\ (handlers[y] = 1 => BagRemove(handlers, h)[y] = 1)
         /\ \A g : \A y \in BagToSet(Replace(h, g)) :
               y # g => y \in BagToSet(handlers) /\ (handlers[y] = 1 => Replace(h, g)[y] = 1)
  <1>1. IsABag(handlers) /\ h \in BagToSet(handlers)
    BY DEF Threads, Active
  <1>2. \A y \in BagToSet(BagRemove(handlers, h)) :
           y \in BagToSet(handlers) /\ (handlers[y] = 1 => BagRemove(handlers, h)[y] = 1)
    BY <1>1, RemoveFromBag
  <1>3. ASSUME NEW g, NEW y \in BagToSet(Replace(h, g)), y # g
        PROVE  y \in BagToSet(handlers) /\ (handlers[y] = 1 => Replace(h, g)[y] = 1)
    BY <1>1, <1>3, ReplaceInBag DEF Replace
  <1> QED BY <1>2, <1>3

LEMMA InjectOnce ==
  ASSUME TreeInv, NEW m \in Message, Inject(m), NEW id \in MsgIds
  PROVE  Once(id)'
  <1> DEFINE g == Handler(m.origin, Packet(m), "received", TRUE)
  <1>1. /\ handlers' = BagAdd(handlers, g) /\ IsABag(handlers)
        /\ g.packet.id = m.id /\ g.dev = m.origin /\ g.at = "received"
    BY DEF Inject, Handler, Packet, TreeInv, MeshInv, Threads
  <1>2. /\ Once(id) /\ Knowing(id)' = Knowing(id) /\ processed' = processed
        /\ m \notin injected /\ injected' = injected \cup {m}
    BY DEF Inject, Knowing, TreeInv
  <1> HIDE DEF g
  <1>3. CASE id # m.id
    <2>1. \A h \in BagToSet(handlers') :
             h.packet.id = id => h \in BagToSet(handlers) /\ (handlers[h] = 1 => handlers'[h] = 1)
      BY <1>1, <1>3, AddToBag
    <2> QED BY <1>2, <2>1, OnceFewer
  <1>4. CASE id = m.id
    <2>1. MessageOf(id) = m /\ m.origin \in Device
      BY <1>4, MessageFacts, MessageFields
    <2>2. Knowing(id) = {} /\ \A h \in BagToSet(handlers) : h.packet.id # id
      BY <1>2, <2>1 DEF Once, Active
    <2>3. \A c \in Device : Coming(handlers, id, c) = {} /\ Sending(handlers, id, c) = {}
      BY <2>2 DEF Coming, Sending
    <2>4. ASSUME NEW up \in [Device -> Device], LeadsTo(Neighbors, m.origin, up),
                 Spreads(handlers, Knowing(id), id, up)
          PROVE  Spreads(handlers', Knowing(id), id, up)
      <3>1. up[m.origin] = m.origin
        BY <2>4 DEF LeadsTo
      <3> QED BY <1>1, <1>4, <2>1, <2>3, <2>4, <3>1, SpreadArrive
    <2> QED BY <1>2, <2>1, <2>4, OnceStep
  <1> QED BY <1>3, <1>4

\* Accept and ScreenFrame, when the frame goes on.
LEMMA MoveOnce ==
  ASSUME TreeInv, NEW h \in Active, NEW g, handlers' = Replace(h, g),
         g.dev = h.dev, g.packet = h.packet, h.at # "relaying", g.at # "relaying",
         g.at = "screened" => h.dev \notin Knowing(h.packet.id),
         UNCHANGED <<nodes, injected, processed>>, NEW id \in MsgIds
  PROVE  Once(id)'
  <1>1. /\ Once(id) /\ Knowing(id)' = Knowing(id)
        /\ Threads(handlers) /\ IsABag(handlers) /\ h \in BagToSet(handlers) /\ h.dev \in Device
    BY DEF TreeInv, MeshInv, Threads, Active, Knowing, ThreadOK, ThreadType
  <1>2. CASE h.packet.id # id
    <2>1. \A y \in BagToSet(handlers') :
             y.packet.id = id => y \in BagToSet(handlers) /\ (handlers[y] = 1 => handlers'[y] = 1)
      BY <1>1, <1>2, FewerThreads
    <2> QED BY <1>1, <2>1, OnceFewer
  <1>3. CASE h.packet.id = id
    <2>1. \A up : Spreads(handlers, Knowing(id), id, up) => Spreads(handlers', Knowing(id), id, up)
      BY <1>1, <1>3, SpreadMove DEF Replace
    <2> QED BY <1>1, <1>3, <2>1, OnceStep
  <1> QED BY <1>2, <1>3

\* Lose, Refused, and ScreenFrame when the frame is dropped.
LEMMA EndOnce ==
  ASSUME TreeInv, NEW h \in Active, handlers' = BagRemove(handlers, h),
         UNCHANGED <<nodes, injected, processed>>, NEW id \in MsgIds
  PROVE  Once(id)'
  <1>1. Once(id) /\ Knowing(id)' = Knowing(id) /\ Threads(handlers)
    BY DEF TreeInv, MeshInv, Knowing
  <1>2. \A y \in BagToSet(handlers') :
           y \in BagToSet(handlers) /\ (handlers[y] = 1 => handlers'[y] = 1)
    BY <1>1, FewerThreads
  <1>3. \A y \in BagToSet(handlers') :
           y.packet.id = id => y \in BagToSet(handlers) /\ (handlers[y] = 1 => handlers'[y] = 1)
    BY <1>2, Zenon
  <1> QED BY <1>1, <1>3, OnceFewer

\* A message that is in the cache is in the filter.
LEMMA ScreenedAnew ==
  ASSUME TreeInv, NEW h \in Active, Screen(nodes[h.dev], h.packet, Now) = "new"
  PROVE  h.dev \notin Knowing(h.packet.id)
  <1>1. h.dev \in Device /\ CacheOK(nodes[h.dev].dedup)
    BY DEF TreeInv, MeshInv, Threads, Active, NodeOK, ThreadOK, ThreadType
  <1>2. ~ IsDuplicate(nodes[h.dev].dedup, h.packet.id)
    BY DEF Screen
  <1> QED BY <1>1, <1>2 DEF Knowing, Ids, CacheOK, IsDuplicate, InBloom

\* The write of the dedup state is seen by the frames of its own message only.
LEMMA ProcessHolds ==
  ASSUME Roomy, TreeInv, NEW h \in Active, Process(h)
  PROVE  /\ \A d \in Device : Ample(nodes'[d].dedup)
         /\ Knowing(h.packet.id)' = Knowing(h.packet.id) \cup {h.dev}
         /\ \A id : id # h.packet.id => Knowing(id)' = Knowing(id)
  <1>1. h.dev \in Device /\ h.packet \in PacketType /\ h.packet.id \in MsgIds
    BY DEF TreeInv, MeshInv, Threads, Active, ThreadOK, ThreadType, PacketType
  <1>2. /\ NodeOK(nodes[h.dev]) /\ CacheOK(nodes[h.dev].dedup) /\ Ample(nodes[h.dev].dedup)
        /\ nodes = [d \in Device |-> nodes[d]]
    BY <1>1 DEF TreeInv, MeshInv, NodeOK
  <1>3. PICK n : n = AfterProcess(nodes[h.dev], h.packet, Now)
    OBVIOUS
  <1>4. n.dedup = Remember(nodes[h.dev].dedup, h.packet.id, Now)
    BY <1>1, <1>2, <1>3, ProcessedNodeOK
  <1>5. Ample(n.dedup) /\ Ids(n.dedup) = Ids(nodes[h.dev].dedup) \cup {h.packet.id}
    BY <1>1, <1>2, <1>4, RememberAll
  <1>6. nodes' = [nodes EXCEPT ![h.dev] = n]
    BY <1>3 DEF Process
  <1>7. nodes'[h.dev] = n /\ \A d \in Device : d # h.dev => nodes'[d] = nodes[d]
    BY <1>1, <1>2, <1>6
  <1>8. \A d \in Device : Ample(nodes'[d].dedup)
    BY <1>5, <1>7 DEF TreeInv
  <1> QED BY <1>1, <1>5, <1>7, <1>8 DEF Knowing

LEMMA ProcessOnce ==
  ASSUME Roomy, TreeInv, NEW h \in Active, Process(h), NEW id \in MsgIds
  PROVE  Once(id)'
  <1>1. /\ h.dev \in Device /\ h.packet.id \in MsgIds /\ h \in BagToSet(handlers)
        /\ Threads(handlers) /\ IsABag(handlers) /\ Once(id)
        /\ processed \in [Device -> [MsgIds -> 0..MaxProcessed]]
    BY DEF TreeInv, MeshInv, Threads, Active, ThreadOK, ThreadType, PacketType
  <1>2. /\ h.at = "screened" /\ injected' = injected
        /\ \/ processed' = processed
           \/ processed' = [processed EXCEPT ![h.dev][h.packet.id] = @ + 1]
    BY DEF Process
  <1>3. PICK g : /\ g = [h EXCEPT !.at = "relaying", !.todo = Neighbors[h.dev]]
                 /\ handlers' = BagRemove(handlers, h) \/ handlers' = Replace(h, g)
    BY DEF Process
  <1>4. /\ g.dev = h.dev /\ g.packet = h.packet /\ g.at = "relaying"
        /\ g.todo = Neighbors[h.dev]
    <2>1. h \in ThreadType
      BY <1>1 DEF Threads, ThreadOK
    <2> QED BY <1>3, <2>1 DEF ThreadType
  <1>5. /\ \A d \in Device : d # h.dev \/ id # h.packet.id => processed'[d][id] = processed[d][id]
        /\ id = h.packet.id => processed'[h.dev][id] \in {processed[h.dev][id], processed[h.dev][id] + 1}
    BY <1>1, <1>2
  <1>6. CASE h.packet.id # id
    <2>1. \A y \in BagToSet(handlers') :
             y.packet.id = id => y \in BagToSet(handlers) /\ (handlers[y] = 1 => handlers'[y] = 1)
      <3>1. CASE handlers' = BagRemove(handlers, h)
        BY <1>1, <3>1, FewerThreads
      <3>2. CASE handlers' = Replace(h, g)
        BY <1>1, <1>4, <1>6, <3>2, FewerThreads
      <3> QED BY <1>3, <3>1, <3>2
    <2>2. Knowing(id)' = Knowing(id)
      BY <1>6, ProcessHolds
    <2> QED BY <1>1, <1>2, <1>5, <1>6, <2>1, <2>2, OnceFewer
  <1>7. CASE h.packet.id = id
    <2>1. Knowing(id)' = Knowing(id) \cup {h.dev}
      BY <1>7, ProcessHolds
    <2>2. MessageOf(id) \in injected'
      BY <1>1, <1>2, <1>7 DEF Once
    <2>3. ASSUME NEW up \in [Device -> Device], LeadsTo(Neighbors, MessageOf(id).origin, up)
          PROVE  /\ Spreads(handlers', Knowing(id)', id, up)
                 /\ \A d \in Device : processed'[d][id] <= (IF d \in Knowing(id)' THEN 1 ELSE 0)
      <3>1. /\ Spreads(handlers, Knowing(id), id, up)
            /\ \A d \in Device : processed[d][id] <= (IF d \in Knowing(id) THEN 1 ELSE 0)
        BY <1>1, <2>3 DEF Once
      <3>2. \/ handlers' = BagRemove(handlers, h)
            \/ \E r : /\ handlers' = BagAdd(BagRemove(handlers, h), r)
                      /\ r.dev = h.dev /\ r.packet = h.packet /\ r.at = "relaying"
                      /\ Range(r.todo) \subseteq Range(Neighbors[h.dev])
        BY <1>3, <1>4 DEF Replace
      <3>3. h.dev \notin Knowing(id) /\ Spreads(handlers', Knowing(id) \cup {h.dev}, id, up)
        BY <1>1, <1>2, <1>7, <2>3, <3>1, <3>2, SpreadTake, Zenon
      <3>4. ASSUME NEW d \in Device
            PROVE  processed'[d][id] <= (IF d \in Knowing(id)' THEN 1 ELSE 0)
        <4>1. processed[d][id] \in Nat /\ processed[d][id] <= (IF d \in Knowing(id) THEN 1 ELSE 0)
          BY <1>1, <3>1, MessageAssumption
        <4> QED BY <1>5, <1>7, <2>1, <3>3, <4>1
      <3> QED BY <2>1, <3>3, <3>4
    <2> QED BY <2>2, <2>3 DEF Once
  <1> QED BY <1>6, <1>7

LEMMA RelayOnce ==
  ASSUME TreeInv, NEW h \in Active, Relay(h), NEW id \in MsgIds
  PROVE  Once(id)'
  <1>1. /\ h \in BagToSet(handlers) /\ h.dev \in Device /\ h.at = "relaying"
        /\ h.packet \in PacketType /\ h.todo \in Seq(Device) /\ h.todo # <<>>
        /\ Route(h.dev, h.todo) /\ MeshInv /\ Threads(handlers) /\ IsABag(handlers)
        /\ \A k \in Active : Range(k.todo) \subseteq Range(Neighbors[k.dev])
        /\ Once(id) /\ Knowing(id)' = Knowing(id) /\ injected' = injected /\ processed' = processed
    BY DEF TreeInv, MeshInv, Threads, Active, ThreadOK, ThreadType, Route, Relay, Knowing
  <1>2. PICK i \in Device : /\ i = Head(h.todo) /\ i \in Range(h.todo)
                            /\ i \in Range(Neighbors[h.dev])
    <2>1. Head(h.todo) \in Device /\ Head(h.todo) \in Range(h.todo)
      <3>1. PICK t \in Seq(Device) : t = h.todo
        BY <1>1
      <3> QED BY <1>1, <3>1, HeadTailProperties, RouteShortens
    <2> QED BY <1>1, <2>1 DEF Route
  <1>3. PICK f, A : /\ A = Advanced(h) /\ handlers' = BagAdd(A, f)
                    /\ f.dev = i /\ f.packet.id = h.packet.id /\ f.at = "queued"
    <2>1. PICK copy \in OnwardCopies(h.packet) :
             handlers' = BagAdd(Advanced(h), Handler(Head(h.todo), copy, "queued", FALSE))
      BY DEF Relay
    <2>2. copy.id = h.packet.id
      BY <1>1 DEF OnwardCopies, PacketType
    <2> QED BY <1>2, <2>1, <2>2 DEF Handler
  <1>4. /\ Threads(A) /\ IsABag(A)
        /\ \/ A = BagRemove(handlers, h)
           \/ \E r : /\ A = Replace(h, r)
                     /\ r.dev = h.dev /\ r.packet = h.packet /\ r.at = "relaying"
                     /\ Range(r.todo) = Range(h.todo) \ {i}
    BY <1>1, <1>2, <1>3, AdvanceFacts DEF Threads
  <1>5. /\ BagToSet(handlers') = BagToSet(A) \cup {f}
        /\ \A y \in BagToSet(A) : y # f => handlers'[y] = A[y]
    BY <1>3, <1>4, AddToBag
  <1>6. CASE h.packet.id # id
    <2>1. \A y \in BagToSet(A) :
             y.packet.id = id => y \in BagToSet(handlers) /\ (handlers[y] = 1 => A[y] = 1)
      BY <1>1, <1>4, <1>6, FewerThreads
    <2>2. \A y \in BagToSet(handlers') :
             y.packet.id = id => y \in BagToSet(handlers) /\ (handlers[y] = 1 => handlers'[y] = 1)
      BY <1>3, <1>5, <1>6, <2>1
    <2> QED BY <1>1, <2>2, OnceFewer
  <1>7. CASE h.packet.id = id
    <2>1. ASSUME NEW up \in [Device -> Device], LeadsTo(Neighbors, MessageOf(id).origin, up),
                 Spreads(handlers, Knowing(id), id, up)
          PROVE  Spreads(handlers', Knowing(id), id, up)
      <3> DEFINE K == Knowing(id)
                 j == h.dev
      <3>1. h \in Sending(handlers, id, j)
        BY <1>1, <1>7 DEF Sending
      <3>2. /\ j \in K /\ handlers[h] = 1 /\ \A k \in Sending(handlers, id, j) : k = h
        BY <1>1, <2>1, <3>1 DEF Spreads, Single
      <3>3. \A c, d \in Device : d \in Range(Neighbors[c]) => d # c /\ (up[c] = d \/ up[d] = c)
        <4> SUFFICES ASSUME NEW c \in Device, NEW d \in Device, d \in Range(Neighbors[c])
                     PROVE  d # c /\ (up[c] = d \/ up[d] = c)
          OBVIOUS
        <4>1. Neighbors[c] \in Seq(Device \ {c})
          BY TopologyAssumption
        <4>2. d # c
          BY <4>1 DEF Range
        <4> QED BY <2>1, <4>2 DEF LeadsTo, Device
      <3>4. /\ up[j] = i => i \in K
            /\ up[i] # i => up[i] \in K
        <4>1. i # j /\ (up[j] = i \/ up[i] = j)
          BY <1>1, <1>2, <3>3
        <4>2. up[j] = i => i \in K
          BY <1>1, <2>1, <3>2, <4>1 DEF Spreads
        <4> QED BY <2>1, <3>2, <4>1, <4>2 DEF Spreads
      <3>5. Spreads(A, K, id, up)
        <4>1. CASE A = BagRemove(handlers, h)
          <5>1. \A y \in BagToSet(A) : y \in BagToSet(handlers) /\ (handlers[y] = 1 => A[y] = 1)
            BY <1>1, <4>1, FewerThreads
          <5> QED BY <2>1, <5>1, SpreadFewer
        <4>2. ASSUME NEW r, A = Replace(h, r), r.dev = h.dev, r.packet = h.packet,
                     r.at = "relaying", Range(r.todo) = Range(h.todo) \ {i}
              PROVE  Spreads(A, K, id, up)
          BY <1>1, <1>7, <2>1, <4>2, SpreadAdvance DEF Replace
        <4> QED BY <1>4, <4>1, <4>2
      <3>6. ASSUME i \notin K
            PROVE  /\ Coming(A, id, i) = {}
                   /\ \A c \in Device : \A k \in Sending(A, id, c) : i \notin Range(k.todo)
        <4>1. Coming(handlers, id, i) = {}
          BY <1>1, <1>2, <2>1, <3>1, <3>6 DEF Spreads
        <4>2. PICK r : /\ \A y \in BagToSet(A) : y = r \/ (y \in BagToSet(handlers) /\ y # h)
                       /\ r \in BagToSet(A) => /\ r.dev = j /\ r.at = "relaying"
                                               /\ i \notin Range(r.todo)
          <5>1. CASE A = BagRemove(handlers, h)
            <6>1. \A y \in BagToSet(A) : y \in BagToSet(handlers) /\ y # h
              BY <1>1, <3>2, <5>1, RemoveFromBag
            <6>2. h \notin BagToSet(A)
              BY <6>1
            <6> QED BY <6>1, <6>2
          <5>2. ASSUME NEW r, A = Replace(h, r), r.dev = h.dev, r.at = "relaying",
                       Range(r.todo) = Range(h.todo) \ {i}
                PROVE  /\ \A y \in BagToSet(A) : y = r \/ (y \in BagToSet(handlers) /\ y # h)
                       /\ i \notin Range(r.todo)
            <6>1. \A y \in BagToSet(A) : y # r => y \in BagToSet(handlers)
              BY <1>1, <5>2, FewerThreads
            <6>2. \A y \in BagToSet(A) : y # r => y # h
              BY <1>1, <3>2, <5>2, ReplaceInBag DEF Replace
            <6> QED BY <5>2, <6>1, <6>2
          <5> QED BY <1>4, <5>1, <5>2
        <4>3. Coming(A, id, i) = {}
          BY <4>1, <4>2 DEF Coming
        <4>4. ASSUME NEW c \in Device, NEW k \in Sending(A, id, c) PROVE i \notin Range(k.todo)
          <5>1. CASE k = r
            BY <4>2, <4>4, <5>1 DEF Sending
          <5>2. CASE k # r
            <6>1. k \in Sending(handlers, id, c) /\ k # h /\ k.dev = c
              BY <4>2, <4>4, <5>2 DEF Sending
            <6>2. c # j /\ c \in K
              BY <2>1, <3>2, <6>1 DEF Spreads
            <6>3. ASSUME i \in Range(k.todo) PROVE FALSE
              <7>1. i \in Range(Neighbors[c])
                BY <1>1, <6>1, <6>3 DEF Sending, Active
              <7>2. i # c /\ (up[c] = i \/ up[i] = c)
                BY <3>3, <7>1
              <7>3. up[i] = j
                BY <1>1, <1>2, <3>3, <3>4, <3>6
              <7>4. up[c] = i /\ up[c] # c
                BY <6>2, <7>2, <7>3
              <7> QED BY <2>1, <3>6, <6>2, <7>4 DEF Spreads
            <6> QED BY <6>3
          <5> QED BY <5>1, <5>2
        <4> QED BY <4>3, <4>4
      <3> QED BY <1>3, <1>4, <1>7, <3>4, <3>5, <3>6, SpreadArrive
    <2>2. \E g \in Active : g.packet.id = id
      BY <1>1, <1>7 DEF Active
    <2> QED BY <1>1, <2>1, <2>2, OnceStep
  <1> QED BY <1>6, <1>7

LEMMA TreeStep ==
  ASSUME Roomy, TreeInv, [Next]_vars
  PROVE  TreeInv'
  <1>1. MeshInv'
    BY StepPreserves DEF TreeInv
  <1>2. ASSUME NEW m \in Message, Inject(m) PROVE TreeInv'
    BY <1>1, <1>2, InjectOnce DEF Inject, TreeInv
  <1>3. ASSUME NEW h \in Active, Handle(h) PROVE TreeInv'
    <2>1. CASE Process(h)
      BY <1>1, <2>1, ProcessHolds, ProcessOnce DEF TreeInv
    <2>2. CASE Relay(h)
      BY <1>1, <2>2, RelayOnce DEF Relay, TreeInv
    <2>3. CASE Lose(h) \/ Refused(h)
      BY <1>1, <2>3, EndOnce DEF Lose, Refused, TreeInv
    <2>4. CASE Accept(h)
      <3>1. PICK g : g = [h EXCEPT !.at = "received"]
        OBVIOUS
      <3>2. g.dev = h.dev /\ g.packet = h.packet /\ g.at = "received"
        BY <3>1, MovedFields DEF TreeInv, MeshInv, Threads, Active, ThreadOK
      <3>3. \A id \in MsgIds : Once(id)'
        BY <2>4, <3>1, <3>2, MoveOnce DEF Accept
      <3> QED BY <1>1, <2>4, <3>3 DEF Accept, TreeInv
    <2>5. CASE ScreenFrame(h)
      <3>1. PICK g : g = [h EXCEPT !.at = "screened"]
        OBVIOUS
      <3>2. g.dev = h.dev /\ g.packet = h.packet /\ g.at = "screened"
        BY <3>1, MovedFields DEF TreeInv, MeshInv, Threads, Active, ThreadOK
      <3>3. CASE Screen(nodes[h.dev], h.packet, Now) = "new"
        <4>1. \A id \in MsgIds : Once(id)'
          BY <2>5, <3>1, <3>2, <3>3, MoveOnce, ScreenedAnew DEF ScreenFrame
        <4> QED BY <1>1, <2>5, <4>1 DEF ScreenFrame, TreeInv
      <3>4. CASE Screen(nodes[h.dev], h.packet, Now) # "new"
        BY <1>1, <2>5, <3>4, EndOnce DEF ScreenFrame, TreeInv
      <3> QED BY <3>3, <3>4
    <2> QED BY <1>3, <2>1, <2>2, <2>3, <2>4, <2>5 DEF Handle
  <1>4. ASSUME UNCHANGED <<nodes, injected, processed>>, handlers' = handlers \/ handlers' = EmptyBag
        PROVE  TreeInv'
    <2>1. \A id \in MsgIds : Once(id)'
      BY <1>4, NoBag, OnceFewer DEF TreeInv, Knowing
    <2> QED BY <1>1, <1>4, <2>1 DEF TreeInv
  <1> QED BY <1>2, <1>3, <1>4 DEF Next, Stop, Exit, vars

LEMMA TreeInit == Init => TreeInv
  <1> SUFFICES ASSUME Init PROVE TreeInv
    OBVIOUS
  <1>1. \A d \in Device : nodes[d].dedup = NewCache
    BY DEF Init, NewNode
  <1>2. \A d \in Device : Ample(nodes[d].dedup) /\ Ids(nodes[d].dedup) = {}
    BY <1>1 DEF NewCache, Ample, Ids
  <1>3. \A id : Knowing(id) = {} /\ \A h \in Active : FALSE
    BY <1>2, NoBag DEF Init, Knowing, Active
  <1>4. \A id \in MsgIds : Once(id)
    <2> SUFFICES ASSUME NEW id \in MsgIds PROVE Once(id)
      OBVIOUS
    <2>1. \A d \in Device : Coming(handlers, id, d) = {} /\ Sending(handlers, id, d) = {}
      BY <1>3 DEF Coming, Sending, Active
    <2>2. \A up : Spreads(handlers, {}, id, up)
      BY <2>1 DEF Spreads, Single
    <2>3. \A d \in Device : processed[d][id] = 0
      BY DEF Init
    <2>4. Knowing(id) = {} /\ \A h \in Active : h.packet.id # id
      BY <1>3
    <2>5. \A d \in Device : processed[d][id] <= (IF d \in Knowing(id) THEN 1 ELSE 0)
      BY <2>3
    <2> QED BY <2>2, <2>4, <2>5 DEF Once
  <1> QED BY <1>2, <1>4, InitInv DEF TreeInv

(***************************************************************************)
(* sim/README.md:49-53 on a topology without cycles: every device delivers *)
(* and relays a message at most once. It takes the check of dedup_check.py *)
(* and its insertion, between which other handlers run, and one way from   *)
(* the origin to every device; with a second way it is false, as on the    *)
(* complete topology of three devices.                                     *)
(***************************************************************************)
THEOREM OnceOnTrees ==
  ASSUME Acyclic(Neighbors), Roomy
  PROVE  Spec => []ProcessedAtMostOnce
  <1>1. TreeInv /\ [Next]_vars => TreeInv'
    BY TreeStep
  <1>2. TreeInv => ProcessedAtMostOnce
    <2> SUFFICES ASSUME TreeInv, NEW d \in Device, NEW id \in MsgIds
                 PROVE  processed[d][id] <= 1
      BY DEF ProcessedAtMostOnce
    <2>1. MessageOf(id).origin \in Device
      BY MessageFacts, MessageFields
    <2>2. PICK up \in [Device -> Device] : LeadsTo(Neighbors, MessageOf(id).origin, up)
      BY <2>1 DEF Acyclic, Device
    <2>3. processed[d][id] <= (IF d \in Knowing(id) THEN 1 ELSE 0)
      BY <2>2 DEF TreeInv, Once
    <2>4. processed[d][id] \in Nat
      BY MessageAssumption DEF TreeInv, MeshInv
    <2> QED BY <2>3, <2>4
  <1> QED BY TreeInit, <1>1, <1>2, PTL DEF Spec

(***************************************************************************)
(* sim/topologies/star.py, for every number of devices: its links go both  *)
(* ways and it has no cycle, so that OnceOnTrees is about it.              *)
(***************************************************************************)
THEOREM StarIsTree ==
  \A n \in Nat \ {0} : Symmetric(Star(n)) /\ Acyclic(Star(n))
  <1> SUFFICES ASSUME NEW n \in Nat \ {0} PROVE Symmetric(Star(n)) /\ Acyclic(Star(n))
    OBVIOUS
  <1>1. PICK adj : adj = Star(n)
    OBVIOUS
  <1>2. DOMAIN adj = 0..(n - 1)
    BY <1>1 DEF Star
  <1>3. Range(adj[0]) = 1..(n - 1)
    <2>1. adj[0] = [k \in 1..(n - 1) |-> k]
      BY <1>1 DEF Star
    <2> QED BY <2>1 DEF Range
  <1>4. ASSUME NEW i \in 0..(n - 1), i # 0 PROVE Range(adj[i]) = {0}
    <2>1. adj[i] = <<0>>
      BY <1>1, <1>4 DEF Star
    <2>2. DOMAIN <<0>> = {1} /\ <<0>>[1] = 0
      OBVIOUS
    <2> QED BY <2>1, <2>2 DEF Range
  <1>5. \A i, j \in 0..(n - 1) : j \in Range(adj[i]) <=> (i = 0 /\ j # 0) \/ (i # 0 /\ j = 0)
    BY <1>3, <1>4
  <1>6. Symmetric(adj)
    BY <1>2, <1>5 DEF Symmetric
  <1>7. ASSUME NEW r \in DOMAIN adj PROVE \E up \in [DOMAIN adj -> DOMAIN adj] : LeadsTo(adj, r, up)
    <2> DEFINE up == [i \in DOMAIN adj |-> IF i = 0 \/ i = r THEN r ELSE 0]
    <2>1. up \in [DOMAIN adj -> DOMAIN adj] /\ up[r] = r
      BY <1>2
    <2>2. \A i, j \in DOMAIN adj : j \in Range(adj[i]) => up[i] = j \/ up[j] = i
      BY <1>2, <1>5
    <2> QED BY <2>1, <2>2 DEF LeadsTo
  <1> QED BY <1>1, <1>6, <1>7 DEF Acyclic

(***************************************************************************)
(* sim/topologies/line.py, for every number of devices: its links go both  *)
(* ways and it has no cycle: OnceOnTrees is about the longest chain of     *)
(* hops the harness builds, too.                                           *)
(***************************************************************************)
THEOREM LineIsTree ==
  \A n \in Nat \ {0} : Symmetric(Line(n)) /\ Acyclic(Line(n))
  <1> SUFFICES ASSUME NEW n \in Nat \ {0} PROVE Symmetric(Line(n)) /\ Acyclic(Line(n))
    OBVIOUS
  <1>1. PICK adj : adj = Line(n)
    OBVIOUS
  <1>2. DOMAIN adj = 0..(n - 1)
    BY <1>1 DEF Line
  <1>3. ASSUME NEW i \in 0..(n - 1)
        PROVE  Range(adj[i]) = {j \in 0..(n - 1) : j = i - 1 \/ j = i + 1}
    <2>1. adj[i] = (IF i > 0 THEN <<i - 1>> ELSE <<>>) \o (IF i < n - 1 THEN <<i + 1>> ELSE <<>>)
      BY <1>1, <1>3 DEF Line
    <2>2. CASE i > 0 /\ i < n - 1
      <3>1. adj[i] = <<i - 1>> \o <<i + 1>>
        BY <2>1, <2>2
      <3>2. Len(adj[i]) = 2 /\ DOMAIN adj[i] = 1..2
        BY <3>1
      <3>3. adj[i][1] = i - 1 /\ adj[i][2] = i + 1
        BY <3>1
      <3>4. Range(adj[i]) = {i - 1, i + 1}
        BY <3>2, <3>3 DEF Range
      <3> QED BY <2>2, <3>4
    <2>3. CASE i > 0 /\ ~(i < n - 1)
      <3>1. adj[i] = <<i - 1>>
        BY <2>1, <2>3
      <3>2. Range(adj[i]) = {i - 1}
        BY <3>1 DEF Range
      <3> QED BY <2>3, <3>2
    <2>4. CASE ~(i > 0) /\ i < n - 1
      <3>1. adj[i] = <<i + 1>>
        BY <2>1, <2>4
      <3>2. Range(adj[i]) = {i + 1}
        BY <3>1 DEF Range
      <3> QED BY <2>4, <3>2
    <2>5. CASE ~(i > 0) /\ ~(i < n - 1)
      <3>1. adj[i] = <<>>
        BY <2>1, <2>5
      <3>2. Range(adj[i]) = {}
        BY <3>1 DEF Range
      <3> QED BY <2>5, <3>2
    <2> QED BY <2>2, <2>3, <2>4, <2>5
  <1>4. \A i, j \in 0..(n - 1) : j \in Range(adj[i]) <=> j = i - 1 \/ j = i + 1
    BY <1>3
  <1>5. Symmetric(adj)
    BY <1>2, <1>4 DEF Symmetric
  <1>6. ASSUME NEW r \in DOMAIN adj PROVE \E up \in [DOMAIN adj -> DOMAIN adj] : LeadsTo(adj, r, up)
    <2> DEFINE step(i) == IF i < r THEN i + 1 ELSE IF i > r THEN i - 1 ELSE r
               up == [i \in DOMAIN adj |-> step(i)]
    <2>1. r \in Int /\ r >= 0 /\ r <= n - 1
      BY <1>2, <1>6
    <2>2. ASSUME NEW i \in DOMAIN adj
          PROVE  /\ step(i) \in DOMAIN adj
                 /\ \A j \in DOMAIN adj : j = i + 1 \/ j = i - 1 => step(i) = j \/ step(j) = i
      <3>1. i \in Int /\ i >= 0 /\ i <= n - 1
        BY <1>2, <2>2
      <3>2. step(i) \in Int /\ step(i) >= 0 /\ step(i) <= n - 1
        BY <2>1, <3>1
      <3>3. ASSUME NEW j \in DOMAIN adj, j = i + 1 \/ j = i - 1
            PROVE  step(i) = j \/ step(j) = i
        BY <2>1, <3>1, <3>3
      <3> QED BY <1>2, <3>2, <3>3
    <2>3. up \in [DOMAIN adj -> DOMAIN adj] /\ up[r] = r
      <3>1. step(r) = r
        BY <2>1
      <3> HIDE DEF step
      <3> QED BY <1>6, <2>2, <3>1
    <2>4. ASSUME NEW i \in DOMAIN adj, NEW j \in DOMAIN adj, j \in Range(adj[i])
          PROVE  up[i] = j \/ up[j] = i
      <3>1. j = i - 1 \/ j = i + 1
        BY <1>2, <1>4, <2>4
      <3> HIDE DEF step
      <3> QED BY <2>2, <2>4, <3>1
    <2> QED BY <2>3, <2>4 DEF LeadsTo
  <1> QED BY <1>1, <1>5, <1>6 DEF Acyclic

(***************************************************************************)
(* sim/topologies/mesh.py, for every number of devices: its links go both  *)
(* ways, and from three devices on it has a cycle: it is outside           *)
(* OnceOnTrees, and the run on it finds a message processed twice.         *)
(***************************************************************************)
THEOREM CompleteHasCycles ==
  \A n \in Nat \ {0} : Symmetric(Complete(n)) /\ (n > 2 => ~Acyclic(Complete(n)))
  <1> SUFFICES ASSUME NEW n \in Nat \ {0}
               PROVE  Symmetric(Complete(n)) /\ (n > 2 => ~Acyclic(Complete(n)))
    OBVIOUS
  <1>1. PICK adj : adj = Complete(n)
    OBVIOUS
  <1>2. DOMAIN adj = 0..(n - 1)
    BY <1>1 DEF Complete
  <1>3. ASSUME NEW i \in 0..(n - 1), NEW j \in 0..(n - 1)
        PROVE  j \in Range(adj[i]) <=> j # i
    <2>1. DOMAIN adj[i] = 1..(n - 1) /\ \A k \in 1..(n - 1) : adj[i][k] = IF k <= i THEN k - 1 ELSE k
      BY <1>1 DEF Complete
    <2>2. \A k \in DOMAIN adj[i] : adj[i][k] # i
      BY <2>1
    <2>3. ASSUME j < i PROVE j + 1 \in DOMAIN adj[i] /\ adj[i][j + 1] = j
      BY <2>1, <2>3
    <2>4. ASSUME j > i PROVE j \in DOMAIN adj[i] /\ adj[i][j] = j
      BY <2>1, <2>4
    <2> QED BY <2>2, <2>3, <2>4 DEF Range
  <1>4. Symmetric(adj)
    BY <1>2, <1>3 DEF Symmetric
  <1>5. ASSUME n > 2, Acyclic(adj) PROVE FALSE
    <2>1. 0 \in DOMAIN adj /\ 1 \in DOMAIN adj /\ 2 \in DOMAIN adj
      BY <1>2, <1>5
    <2>2. PICK up \in [DOMAIN adj -> DOMAIN adj] : LeadsTo(adj, 0, up)
      BY <1>5, <2>1 DEF Acyclic
    <2>3. \A i, j \in {0, 1, 2} : i # j => up[i] = j \/ up[j] = i
      BY <1>2, <1>3, <2>1, <2>2 DEF LeadsTo
    <2>4. up[0] = 0
      BY <2>2 DEF LeadsTo
    <2> QED BY <2>3, <2>4
  <1> QED BY <1>1, <1>4, <1>5
=============================================================================
