------------------------------ MODULE DedupCache ------------------------------
(***************************************************************************)
(* Step 4 of the relay pipeline, src/pipeline/dedup_check.py.              *)
(*                                                                         *)
(* A cache is a value: the LRU in insertion order, the Bloom filter and    *)
(* the number of evictions since the filter was last rebuilt.  The Bloom   *)
(* filter keeps its real defect: an identifier is "in" it when all of its  *)
(* hash slots are set, so identifiers whose slots overlap give false       *)
(* positives.                                                              *)
(***************************************************************************)
EXTENDS Integers, Sequences, FiniteSets

CONSTANTS
    MsgId,      \* message identifiers
    Slot,       \* bit positions of the Bloom filter
    Hashes,     \* Hashes[id]: the slots the hash functions of the filter give id
    CAPACITY,
    TTL_SECONDS,
    REBUILD_EVICTION_THRESHOLD

ASSUME HashesAssumption == Hashes \in [MsgId -> (SUBSET Slot) \ {{}}]
ASSUME CapacityAssumption == CAPACITY \in Nat \ {0}
ASSUME TTLAssumption == TTL_SECONDS \in Nat
ASSUME ThresholdAssumption == REBUILD_EVICTION_THRESHOLD \in Nat \ {0}

Entry == [id : MsgId, at : Int]
Bloom == [bits : SUBSET Slot, count : Nat]
Cache == [lru : Seq(Entry), bloom : Bloom, evictions : Nat]
-----------------------------------------------------------------------------
(* The Bloom filter of pybloom_live, as far as dedup_check.py uses it.     *)

\* Mutant: no headroom for evicted identifiers that linger in the filter.
BloomCapacityNoHeadroom == CAPACITY

BLOOM_CAPACITY == CAPACITY + 2 * REBUILD_EVICTION_THRESHOLD

NewBloom == [bits |-> {}, count |-> 0]

InBloom(bloom, id) == Hashes[id] \subseteq bloom.bits

\* add() raises IndexError once the filter counts more than its capacity.
AddRaises(bloom) == bloom.count > BLOOM_CAPACITY

BloomAdd(bloom, id) ==
    [bits  |-> bloom.bits \cup Hashes[id],
     count |-> IF InBloom(bloom, id) THEN bloom.count ELSE bloom.count + 1]

\* The slots set by the entries of s at positions i..j.
BitsOf(s, i, j) == UNION {Hashes[s[k].id] : k \in i..j}

\* A fresh filter into which every entry of lru was added, oldest first: only
\* an entry that sets a new slot is counted.
Rebuilt(lru) ==
    [bits  |-> BitsOf(lru, 1, Len(lru)),
     count |-> Cardinality({i \in 1..Len(lru) :
                    ~ (Hashes[lru[i].id] \subseteq BitsOf(lru, 1, i - 1))})]
-----------------------------------------------------------------------------
(* The LRU and its eviction.                                               *)

NewCache == [lru |-> <<>>, bloom |-> NewBloom, evictions |-> 0]

\* Assigning to an OrderedDict: a key it already holds keeps its place.
Put(lru, id, now) ==
    IF \E i \in DOMAIN lru : lru[i].id = id
    THEN [i \in DOMAIN lru |->
            IF lru[i].id = id THEN [id |-> id, at |-> now] ELSE lru[i]]
    ELSE Append(lru, [id |-> id, at |-> now])

\* Mutant: >= instead of >, one live entry too few.
MustEvictAtCapacity(lru, now, k) ==
    /\ k < Len(lru)
    /\ \/ Len(lru) - k >= CAPACITY
       \/ now - lru[k + 1].at > TTL_SECONDS

\* Mutant: `if` instead of `while`, at most one entry goes.
MustEvictOnce(lru, now, k) ==
    /\ k < Len(lru)
    /\ k = 0
    /\ \/ Len(lru) - k > CAPACITY
       \/ now - lru[k + 1].at > TTL_SECONDS

\* After k deletions the loop of _evict still has a head to delete.
MustEvict(lru, now, k) ==
    /\ k < Len(lru)
    /\ \/ Len(lru) - k > CAPACITY
       \/ now - lru[k + 1].at > TTL_SECONDS

\* The number of deletions after which the loop breaks.
EvictCount(lru, now) ==
    CHOOSE k \in 0..Len(lru) :
        /\ ~ MustEvict(lru, now, k)
        /\ \A j \in 0..(k - 1) : MustEvict(lru, now, j)

\* Mutant: popitem() without last=False takes the newest entries.
EvictNewest(cache, now) ==
    LET k         == EvictCount(cache.lru, now)
        live      == SubSeq(cache.lru, 1, Len(cache.lru) - k)
        evictions == cache.evictions + k
    IN  IF evictions >= REBUILD_EVICTION_THRESHOLD
        THEN [lru |-> live, bloom |-> Rebuilt(live), evictions |-> 0]
        ELSE [lru |-> live, bloom |-> cache.bloom, evictions |-> evictions]

\* Mutant: the eviction counter is not reset by the rebuild.
EvictNoReset(cache, now) ==
    LET k         == EvictCount(cache.lru, now)
        live      == SubSeq(cache.lru, k + 1, Len(cache.lru))
        evictions == cache.evictions + k
    IN  [lru       |-> live,
         bloom     |-> IF evictions >= REBUILD_EVICTION_THRESHOLD
                       THEN Rebuilt(live) ELSE cache.bloom,
         evictions |-> evictions]

\* Mutant: the counter counts down.
EvictCountsDown(cache, now) ==
    LET k    == EvictCount(cache.lru, now)
        live == SubSeq(cache.lru, k + 1, Len(cache.lru))
    IN  [lru |-> live, bloom |-> cache.bloom, evictions |-> cache.evictions - k]

Evict(cache, now) ==
    LET k         == EvictCount(cache.lru, now)
        live      == SubSeq(cache.lru, k + 1, Len(cache.lru))
        evictions == cache.evictions + k
    IN  IF evictions >= REBUILD_EVICTION_THRESHOLD
        THEN [lru |-> live, bloom |-> Rebuilt(live), evictions |-> 0]
        ELSE [lru |-> live, bloom |-> cache.bloom, evictions |-> evictions]
-----------------------------------------------------------------------------
(* DedupCache.check *)

IsDuplicate(cache, id) == InBloom(cache.bloom, id)

\* The cache after check() let id through at time now (unless add() raises,
\* which leaves the cache as it was).
Remember(cache, id, now) ==
    Evict([lru       |-> Put(cache.lru, id, now),
           bloom     |-> BloomAdd(cache.bloom, id),
           evictions |-> cache.evictions], now)
=============================================================================
