-------------------------------- MODULE Dedup --------------------------------
(***************************************************************************)
(* One DedupCache driven by an arbitrary sequence of checks while time     *)
(* passes.  The history variables record what the cache decided:           *)
(* `accepted` the checks it let through, in order, and `falseDrops` how    *)
(* often it dropped an identifier it had never let through.                *)
(***************************************************************************)
EXTENDS DedupCache

CONSTANTS
    MaxTime,        \* bound on the clock
    MaxAccepts,     \* bound on the length of the history
    MaxFalseDrops   \* cap of the false-positive counters

ASSUME BoundsAssumption ==
    /\ MaxTime \in Nat
    /\ MaxAccepts \in Nat
    /\ MaxFalseDrops \in Nat

VARIABLES
    cache,
    now,
    accepted,
    falseDrops

vars == <<cache, now, accepted, falseDrops>>

Init ==
    /\ cache = NewCache
    /\ now = 0
    /\ accepted = <<>>
    /\ falseDrops = [id \in MsgId |-> 0]

\* check() returns None: a message whose identifier the filter does not hold.
\* (Were add() to raise, nothing would have been assigned: no step.)
Accept(id) ==
    /\ Len(accepted) < MaxAccepts
    /\ ~ IsDuplicate(cache, id)
    /\ ~ AddRaises(cache.bloom)
    /\ cache' = Remember(cache, id, now)
    /\ accepted' = Append(accepted, [id |-> id, at |-> now])
    /\ UNCHANGED <<now, falseDrops>>

Seen(id) == \E i \in DOMAIN accepted : accepted[i].id = id

\* check() returns "duplicate: msg_id already seen".
Drop(id) ==
    /\ IsDuplicate(cache, id)
    /\ falseDrops' =
         IF Seen(id) \/ falseDrops[id] = MaxFalseDrops
         THEN falseDrops
         ELSE [falseDrops EXCEPT ![id] = @ + 1]
    /\ UNCHANGED <<cache, now, accepted>>

Tick ==
    /\ now < MaxTime
    /\ now' = now + 1
    /\ UNCHANGED <<cache, accepted, falseDrops>>

Next ==
    \/ \E id \in MsgId : Accept(id)
    \/ \E id \in MsgId : Drop(id)
    \/ Tick

Spec == Init /\ [][Next]_vars
-----------------------------------------------------------------------------
(* Type correctness of the cache and of the history. *)
TypeOK ==
    /\ cache \in Cache
    /\ now \in Nat
    /\ accepted \in Seq(Entry)
    /\ falseDrops \in [MsgId -> 0..MaxFalseDrops]

(***************************************************************************)
(* dedup_check.py:24-25, "it tracks exactly which msg_ids are live": the   *)
(* LRU is the tail of the history of accepted messages, nothing in the     *)
(* middle is lost, doubled or reordered by put, eviction and rebuild.      *)
(***************************************************************************)
LruIsHistoryTail ==
    cache.lru = SubSeq(accepted, Len(accepted) - Len(cache.lru) + 1, Len(accepted))

(***************************************************************************)
(* The filter holds the live identifiers and the ones evicted since the    *)
(* last rebuild, nothing older and nothing less: the slots set are those   *)
(* of a window of the history.  This is what bounds a stale "already seen" *)
(* and what makes the rebuild safe.                                        *)
(***************************************************************************)
FilterIsHistoryWindow ==
    LET n == Len(accepted)
        w == Len(cache.lru) + cache.evictions
    IN  /\ w <= n
        /\ cache.bloom.bits = BitsOf(accepted, n - w + 1, n)

(***************************************************************************)
(* The promise of step 4: an identifier let through twice was let through  *)
(* more than TTL_SECONDS apart, or with at least CAPACITY other messages   *)
(* in between; whatever evictions and rebuilds happened meanwhile.         *)
(***************************************************************************)
NoEarlyRepeat ==
    \A i, j \in DOMAIN accepted :
        (i < j /\ accepted[i].id = accepted[j].id)
            => \/ accepted[j].at - accepted[i].at > TTL_SECONDS
               \/ j - i > CAPACITY

(***************************************************************************)
(* dedup_check.py:36-39: between rebuilds the filter never reaches the     *)
(* count at which its add() raises, which would kill the packet's handler. *)
(***************************************************************************)
FilterNeverFull == ~ AddRaises(cache.bloom)

(***************************************************************************)
(* After every check the LRU is within its capacity, no entry had outlived *)
(* its TTL when the last message was let through, and the filter is due no *)
(* rebuild.                                                                *)
(***************************************************************************)
CacheBounded ==
    /\ Len(cache.lru) <= CAPACITY
    /\ cache.evictions < REBUILD_EVICTION_THRESHOLD
    /\ \A i \in DOMAIN cache.lru :
         accepted[Len(accepted)].at - cache.lru[i].at <= TTL_SECONDS

(***************************************************************************)
(* dedup_check.py:21-22, "a ~1% false positive drops a valid message       *)
(* once".  It does not hold: the identifier is never added, so every later *)
(* copy is dropped as well until a rebuild clears the colliding slots.     *)
(***************************************************************************)
FalsePositiveDropsOnce == \A id \in MsgId : falseDrops[id] <= 1
=============================================================================
