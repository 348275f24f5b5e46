---------------------------- MODULE HandlerThreads ----------------------------
(***************************************************************************)
(* The handler threads of one device inside steps 4 and 5 of its pipeline, *)
(* at the grain of the reads and writes between which the interpreter may  *)
(* switch threads, which it does at calls and at the ends of loops:        *)
(* DedupCache.check and _evict of dedup_check.py, and the window of        *)
(* RateLimiter.check of rate_limit_check.py. The packets come from one     *)
(* sender within one window, entries leave the LRU by capacity only, and   *)
(* the filter is exact: Dedup and RateLimiting have the rest.              *)
(***************************************************************************)
EXTENDS Integers, Sequences, SequencesExt, FiniteSets

CONSTANTS
    Thread,                 \* at most so many handlers run at the same time
    Packet, Id(_),          \* the frames that arrive, and the msg_id of each
    CAPACITY,
    REBUILD_EVICTION_THRESHOLD,
    MAX_MESSAGES_PER_WINDOW

ASSUME ThreadsAssumption ==
    /\ IsFiniteSet(Thread) /\ Packet # {} /\ CAPACITY \in Nat \ {0}
    /\ REBUILD_EVICTION_THRESHOLD \in Nat \ {0} /\ MAX_MESSAGES_PER_WINDOW \in Nat \ {0}

VARIABLES
    arrived,                \* the packets that have a handler, or had one
    bloom, lru, evictions,  \* the DedupCache
    window,                 \* the length of the sender's window
    pc,
    id,                     \* the message a thread handles
    seen,                   \* what the iterator of a thread over the LRU has left
    invalid,                \* the threads whose iterators the LRU has outlived
    disturbed               \* history: an insertion or a rebuild has disturbed a rebuild

cache == <<bloom, lru, evictions>>
vars  == <<arrived, cache, window, pc, id, seen, invalid, disturbed>>

MsgIds == {Id(p) : p \in Packet}

Init ==
    /\ arrived = {}
    /\ bloom = {} /\ lru = <<>> /\ evictions = 0
    /\ window = 0
    /\ pc = [t \in Thread |-> "idle"]
    /\ id = [t \in Thread |-> CHOOSE i \in MsgIds : TRUE]
    /\ seen = [t \in Thread |-> <<>>]
    /\ invalid = {} /\ disturbed = FALSE

Goto(t, label) == pc' = [pc EXCEPT ![t] = label]
At(label) == \E t \in Thread : pc[t] = label

\* A frame of p has been read. A handler that ends, or that dies of an
\* exception, makes room for another.
Arrive(t, p) ==
    /\ pc[t] = "idle" /\ p \notin arrived
    /\ arrived' = arrived \cup {p}
    /\ id' = [id EXCEPT ![t] = Id(p)]
    /\ Goto(t, "screen")
    /\ UNCHANGED <<cache, window, seen, invalid, disturbed>>

Screen(t) ==
    /\ pc[t] = "screen"
    /\ Goto(t, IF id[t] \in bloom THEN "idle" ELSE "add")
    /\ UNCHANGED <<arrived, cache, window, id, seen, invalid, disturbed>>

Add(t) ==
    /\ pc[t] = "add"
    /\ bloom' = bloom \cup {id[t]}
    /\ Goto(t, "put")
    /\ UNCHANGED <<arrived, lru, evictions, window, id, seen, invalid, disturbed>>

\* Mutant: a list instead of a dictionary.
PutAgain(t) ==
    /\ pc[t] = "put"
    /\ lru' = Append(lru, id[t]) /\ invalid' = Thread
    /\ disturbed' = (disturbed \/ At("refill"))
    /\ Goto(t, "evict")
    /\ UNCHANGED <<arrived, bloom, evictions, window, id, seen>>

Put(t) ==
    /\ pc[t] = "put"
    /\ IF Contains(lru, id[t]) THEN UNCHANGED <<lru, invalid>>
       ELSE lru' = Append(lru, id[t]) /\ invalid' = Thread
    /\ disturbed' = (disturbed \/ At("refill"))
    /\ Goto(t, "evict")
    /\ UNCHANGED <<arrived, bloom, evictions, window, id, seen>>

\* Where _evict goes on after its loop.
AfterLoop == IF evictions >= REBUILD_EVICTION_THRESHOLD THEN "rebuild" ELSE "rate"

\* The head of the loop of _evict: while there are entries, begin to iterate.
Loop(t) ==
    /\ pc[t] = "evict"
    /\ seen' = [seen EXCEPT ![t] = lru] /\ invalid' = invalid \ {t}
    /\ Goto(t, IF lru # <<>> THEN "oldest" ELSE AfterLoop)
    /\ UNCHANGED <<arrived, cache, window, id, disturbed>>

Oldest(t) ==
    /\ pc[t] = "oldest" /\ t \notin invalid
    /\ Goto(t, "compare")
    /\ UNCHANGED <<arrived, cache, window, id, seen, invalid, disturbed>>

\* RuntimeError: the LRU has changed between iter() and next().
OldestFails(t) ==
    /\ pc[t] = "oldest" /\ t \in invalid
    /\ Goto(t, "idle")
    /\ UNCHANGED <<arrived, cache, window, id, seen, invalid, disturbed>>

\* Mutant: the rebuild that is due comes before further evictions.
CompareThenRebuild(t) ==
    /\ pc[t] = "compare"
    /\ Goto(t, IF Len(lru) > CAPACITY /\ evictions = 0 THEN "delete" ELSE AfterLoop)
    /\ UNCHANGED <<arrived, cache, window, id, seen, invalid, disturbed>>

\* The length is read after the oldest entry; it decides about its eviction.
Compare(t) ==
    /\ pc[t] = "compare"
    /\ Goto(t, IF Len(lru) > CAPACITY THEN "delete" ELSE AfterLoop)
    /\ UNCHANGED <<arrived, cache, window, id, seen, invalid, disturbed>>

Delete(t) ==
    /\ pc[t] = "delete"
    /\ \E i \in DOMAIN lru : lru[i] = Head(seen[t]) /\ lru' = RemoveAt(lru, i)
    /\ evictions' = evictions + 1 /\ invalid' = Thread
    /\ Goto(t, "evict")
    /\ UNCHANGED <<arrived, bloom, window, id, seen, disturbed>>

\* Mutant: the deletion is tried again.
DeleteRetries(t) ==
    /\ pc[t] = "delete" /\ ~ Contains(lru, Head(seen[t]))
    /\ UNCHANGED vars

\* KeyError: another thread has deleted the same entry.
DeleteFails(t) ==
    /\ pc[t] = "delete" /\ ~ Contains(lru, Head(seen[t]))
    /\ Goto(t, "idle")
    /\ UNCHANGED <<arrived, cache, window, id, seen, invalid, disturbed>>

\* Mutant: the evictions are forgotten before the filter is refilled.
RebuildResetsFirst(t) ==
    /\ pc[t] = "rebuild"
    /\ bloom' = {} /\ evictions' = 0
    /\ seen' = [seen EXCEPT ![t] = lru] /\ invalid' = invalid \ {t}
    /\ disturbed' = \/ disturbed \/ At("add") \/ At("put") \/ At("refill")
                     \/ evictions < REBUILD_EVICTION_THRESHOLD
    /\ Goto(t, "refill")
    /\ UNCHANGED <<arrived, lru, window, id>>

\* An empty filter takes the place of the old one, then the loop begins.
Rebuild(t) ==
    /\ pc[t] = "rebuild"
    /\ bloom' = {}
    /\ seen' = [seen EXCEPT ![t] = lru] /\ invalid' = invalid \ {t}
    /\ disturbed' = \/ disturbed \/ At("add") \/ At("put") \/ At("refill")
                     \/ evictions < REBUILD_EVICTION_THRESHOLD
    /\ Goto(t, "refill")
    /\ UNCHANGED <<arrived, lru, evictions, window, id>>

\* One round of the loop.
Refill(t) ==
    /\ pc[t] = "refill" /\ t \notin invalid /\ seen[t] # <<>>
    /\ bloom' = bloom \cup {Head(seen[t])}
    /\ seen' = [seen EXCEPT ![t] = Tail(@)]
    /\ UNCHANGED <<arrived, lru, evictions, window, pc, id, invalid, disturbed>>

\* RuntimeError: the LRU has changed while a thread iterates over it.
RefillFails(t) ==
    /\ pc[t] = "refill" /\ t \in invalid /\ seen[t] # <<>>
    /\ Goto(t, "idle")
    /\ UNCHANGED <<arrived, cache, window, id, seen, invalid, disturbed>>

\* The end of the loop, which notices no change after its last round.
RefillEnds(t) ==
    /\ pc[t] = "refill" /\ seen[t] = <<>>
    /\ evictions' = 0 /\ Goto(t, "rate")
    /\ UNCHANGED <<arrived, bloom, lru, window, id, seen, invalid, disturbed>>

\* Mutant: one message too many.
RateOffByOne(t) ==
    /\ pc[t] = "rate"
    /\ Goto(t, IF window > MAX_MESSAGES_PER_WINDOW THEN "idle" ELSE "append")
    /\ UNCHANGED <<arrived, cache, window, id, seen, invalid, disturbed>>

Rate(t) ==
    /\ pc[t] = "rate"
    /\ Goto(t, IF window >= MAX_MESSAGES_PER_WINDOW THEN "idle" ELSE "append")
    /\ UNCHANGED <<arrived, cache, window, id, seen, invalid, disturbed>>

AppendNow(t) ==
    /\ pc[t] = "append"
    /\ window' = window + 1
    /\ Goto(t, "idle")
    /\ UNCHANGED <<arrived, cache, id, seen, invalid, disturbed>>

Run(t) ==
    \/ Screen(t) \/ Add(t) \/ Put(t)
    \/ Loop(t) \/ Oldest(t) \/ OldestFails(t) \/ Compare(t) \/ Delete(t) \/ DeleteFails(t)
    \/ Rebuild(t) \/ Refill(t) \/ RefillEnds(t) \/ RefillFails(t) \/ Rate(t) \/ AppendNow(t)

Next == \E t \in Thread : Run(t) \/ \E p \in Packet : Arrive(t, p)

\* The interpreter runs every thread. Packets need not arrive.
Fairness == \A t \in Thread : WF_vars(Run(t))

Spec == Init /\ [][Next]_vars /\ Fairness

-----------------------------------------------------------------------------
Label == {"idle", "screen", "add", "put", "evict", "oldest", "compare", "delete", "rebuild",
          "refill", "rate", "append"}

TypeOK ==
    /\ arrived \subseteq Packet
    /\ ToSet(lru) \cup bloom \subseteq MsgIds /\ IsInjective(lru)
    /\ evictions \in Nat /\ window \in Nat
    /\ pc \in [Thread -> Label] /\ id \in [Thread -> MsgIds]
    /\ invalid \subseteq Thread /\ disturbed \in BOOLEAN

AtRest == \A t \in Thread : pc[t] = "idle"

\* Threads that have read the length of the window before the others append
\* to it (rate_limit_check.py:57-72) get past the limit, but by no more than
\* the number of threads that run at the same time, less one.
RateOvershootBounded ==
    window <= MAX_MESSAGES_PER_WINDOW + Cardinality(Thread) - 1

\* Concurrent evictions may kill each other (KeyError, RuntimeError) but the last
\* one to change the LRU goes on: nobody leaves the LRU above its capacity (dedup_check.py:55).
CapacityAtRest == AtRest => Len(lru) <= CAPACITY

\* The filter has every live entry, as FilterIsHistoryWindow says of a single
\* thread, although a rebuild may die half-way of another thread's eviction: the
\* evictions are forgotten only after the refill (dedup_check.py:62-66), and the
\* thread that evicted rebuilds again. Not so once an insertion has met a
\* rebuild, or a thread has begun one that another had completed meanwhile.
FilterCoversAtRest == AtRest /\ ~ disturbed => ToSet(lru) \subseteq bloom

\* Handlers neither chase each other's evictions nor rebuild for ever.
HandlersEnd == \A t \in Thread : pc[t] = "screen" ~> pc[t] = "idle"
=============================================================================
