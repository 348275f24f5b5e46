# A TLA+ model of meshlink-core

meshlink-core is the relay logic of a message mesh: a pipeline of eight checks
every device runs on every packet, Spray-and-Wait forwarding, and the protocol
logic of identities, friendships and location sharing on top. This directory
holds TLA+ modules translated from its Python sources, TLC runs that check them
on small instances, and proofs that TLAPS checks for every value of the
parameters. Paths below are relative to `src/`.

Run a model with `tlc -config MCRelay.cfg MCRelay`, a proof with
`tlapm DedupProofs.tla`. `PROJECT.json` lists runs, mutants, the lines every
definition translates, hazards, findings and theorems. The leaves of the proofs are
kept small: each is found well within the provers' default time limits, so that a
slower machine proves them too.

## Inventory

| Part | State | Operations | What is hard | What makes it correct |
|---|---|---|---|---|
| dedup cache `pipeline/dedup_check.py` | Bloom filter, LRU of (msg_id, time), evictions since the rebuild | `check` | the filter cannot delete and has false positives; eviction by age and by capacity; rebuild | nothing live is forgotten, the filter never overflows, stale bits are bounded |
| rate limiter `pipeline/rate_limit_check.py` | per ephem_id: accepted times, violation streak, ban, last seen; number of checks | `check`, `_prune` | window edges, bans, state pruned and created again | the limit, the ban and its end hold whatever is pruned |
| stateless checks `pipeline/{size,ttl,timestamp,signature}_check.py`, `message.py` | none | one predicate each | the accepted span of timestamps against the memory of dedup | no replay |
| attestation `pipeline/attestation_check.py` | sender_key -> expiry | `add_token`, `check` | expiry while cached, replacement | only ticket holders are delivered |
| spray and wait `routing/spray_and_wait.py` | msg_id -> first budget | `split_copies`, tracker `check` | budget inflation after dedup has forgotten | no copy exceeds half of the first budget |
| pipeline `pipeline/pipeline.py` | the four above | `process` | the order of the steps, state written before a later step refuses | bounded verification work, no replay |
| handler threads (all of the above, under the transport's threads) | the same, unlocked | single reads and writes | eviction, rebuild and the rate window race; exceptions kill handlers half-way | the cache ends within its bounds and complete |
| transport `transport/socket_transport.py` | server socket, running flag, callback | `start`, `stop`, `send`, accept loop, a thread per frame | handler threads share the pipeline without locks; stop while accepting | frames of a running peer arrive |
| devices and harness `sim/` | neighbours, pipeline, transport | `inject`, `_handle_local`, shutdown | floods over several paths, dead neighbours | everyone within the budget is reached, the flood ends |
| friendship `friends/state.py` | state, sharing flag, issued tokens, per peer | `transition`, `record_issued_token` | messages lost, repeated, crossing, late | mutual consent |
| capability tokens `capability/token.py` | none | `issue`, `verify`, `revocation_key` | expiry, revocation racing use | only live grants of the target verify |
| payloads `friends/wire.py`, `location/wire.py`, `crypto/sealed.py` | none | encode, decode | sizes, field widths | decoders take what encoders return and nothing of another kind, everything fits a packet |
| identity `identity/keygen.py`, `signing.py` | a JSON file | `load_or_create_identity`, signing | crash between create and write, two processes | one identity per device, for good |

Interaction: `SocketTransport` starts a thread per received frame, which calls
`Device._on_receive`; that calls `RelayPipeline.process`, which calls the checks
in order, and then sends the onward copy to each neighbour in turn through the
transport. Friendship, tokens and payloads are pure functions called by the
application: it performs the effects a transition returns, mints and records the
token, and puts the messages on the mesh. The node that answers location queries
is another program (`meshlink-node`); here are only the functions it shares.

## Modules

| Module | Models | Correspondence |
|---|---|---|
| `DedupCache` | `DedupCache` as a value | `lru`, `bloom`, `evictions` are `_lru`, `_bloom`, `_evictions_since_rebuild`; `IsDuplicate` and `Remember` are the two halves of `check`, `Evict` is `_evict` |
| `Dedup` | one cache under arbitrary checks and time | `Accept`/`Drop` are `check` returning None / a reason; `accepted` and `falseDrops` are history |
| `RateLimiter` | `RateLimiter` as a value | `RateCheck` is `check`, `CheckSender` what it does to one `_SenderState`, `Prune` is `_prune` |
| `RateLimitPolicy` | what the limiter promises | the verdict as a function of the complete log; no deque, no counters, no pruning |
| `RateLimiting` | one limiter under arbitrary checks and time | `Check` is `check`; `log` is history; refines the policy |
| `PacketChecks`, `Attestation`, `SprayAndWait` | steps 1-3 and 6, step 7, step 8 | one operator per check or method |
| `RelayPipeline` | `RelayPipeline` as a value | `Screen` steps 1-4 (reads), `Judge` steps 5-8, `AfterProcess` every write, `OnwardCopies` is `_onward_copy` |
| `Relay` | one node under arbitrary packets, tokens and time | `Discard`/`Process` are `process`, `Grant` is `add_token` |
| `Topologies` | `sim/topologies/` | `Line`, `Star`, `Complete`; `MCMesh` assumes, and TLC evaluates, that they are symmetric, and which of them have no cycle (`Acyclic`: towards every root some `up` leads along all links) |
| `Mesh` | the simulated network | a bag of handlers: frames queued on a listener, threads before and after the read of the filter, threads in the loop over the neighbours |
| `HandlerThreads` | the threads of one device inside steps 4 and 5 | one action per read or write between which the interpreter may switch: `Screen`, `Add`, `Put`, the loop of `_evict` (`Loop`, `Oldest`, `Compare`, `Delete`), the rebuild (`Rebuild`, `Refill`, `RefillEnds`), `Rate` and `AppendNow`; `DeleteFails` is the KeyError, `OldestFails` and `RefillFails` the RuntimeError of an iterator that the LRU has outlived |
| `FriendState` | `FriendshipRecord` and `transition` as a value | `Edges` are the branches of `transition`, `Transition` its result (empty where it raises), `EmitsRevoke` the one conditional effect |
| `Widths`, `CapabilityToken` | the integer fields; `issue`, `parse`, `verify`, `revocation_key` | one operator per function |
| `Friendship` | two phones, the mesh between them, a node | one action per local event with the effects carried out, `Deliver` per inbound message, `NodeHears` |
| `WriteOnce` | what the key store promises | a cell written once |
| `Identity` | `load_or_create_identity` | one action per system call, `Crash` between any two; refines `WriteOnce` |
| `Payloads`, `Signing` | the codecs over `seal`/`unseal`; `compute_msg_id`, `signed_region`, `build_signed_packet` | one operator per function; evaluated by `MCRelay`'s assumptions, proved about in `RelayProofs` |
| `MC*` | instances for TLC | |
| `DedupProofs`, `RateProofs`, `RelayProofs`, `MeshProofs`, `HandlerProofs`, `FriendshipProofs`, `IdentityProofs` | proofs | `SequenceLemmas` has what several need (least elements, tails of sequences); `RelayProofs` instantiates `DedupProofs` and `RateProofs` with the parts of a node |

A cache, a limiter or a node is a *value* with operators on it, so that the same
definitions serve the component on its own, one node and a network of nodes.
Each definition named like a mutation in a `Mutant:` comment is a plausible bug;
replacing the original by it makes the property named in `PROJECT.json` fail.

### Abstractions

- A message identifier is a model value; its hash positions in the Bloom filter
  are a constant, so false positives are part of the model. `pybloom_live` itself
  is external: an addition that sets no new bit is not counted, and `add` raises
  when the count exceeds the capacity.
- Packets are records: lengths instead of bytes, `genuine` instead of an Ed25519
  signature, `valid` instead of a JWT. The packets TLC feeds in are listed in
  `MCRelay`: genuine, relayed, inflated and forged copies, an identifier signed
  again with another timestamp, and packets every earlier step drops.
- Time is an integer and one clock. The code reads `time.time` several times per
  packet, rounds it down in steps 3 and 7 and not in steps 4 and 5; the windows
  that are compared (331 s against 600 s) differ by far more than a second. A
  clock set back is not modelled.
- `Mesh` splits `process` at the read of the dedup filter
  (`dedup_check.py:46`); the rest of it, from the write on, is one step. The
  races inside that rest are what `HandlerThreads` is for. Time stands still
  there, and the zone of a message, which decides only what is logged, is left
  out.
- `HandlerThreads` keeps what its properties need: one sender within one window,
  evictions by capacity only, an exact filter. Of step 5 it keeps the window and
  leaves violations and bans out, which could only refuse more packets: the bound
  of `RateOvershootBounded` covers them. CPython from 3.10 on, which
  `pyproject.toml` requires, switches threads at calls and at the ends of loops;
  what lies between is one step: `del` and the increment, the truth of the LRU
  and `iter(...)`, the new filter and the start of the loop that fills it. An
  iterator raises at its next entry once a key has entered or left the LRU, and
  notices nothing after its last entry (`invalid`, `RefillEnds`). A thread adds
  to the filter in place when it adds, where the code uses the one it loaded
  before a switch; a rebuild that comes between counts as `disturbed`. A handler
  that dies of an exception makes room for another.
- In `Friendship` the mesh is the set of all messages ever sent, so a message may
  be lost, late, repeated or overtaken. An event that is illegal in the state it
  meets raises and changes nothing: it is no step. The application performs the
  effects of an event before the next event, and sends a minted token in a
  `FRIEND_ACCEPT`, the refresh path `state.py:96-99` describes. The node and the
  application are external.
- A token's signature is the pair of signer and signed body; truncated hashes of
  keys are the keys; nonces do not repeat. `U32_MAX` is a parameter so that small
  instances reach the end of the field.
- In `Identity` the file becomes readable when it is closed. A key file is the
  key it holds; any shorter content is `Empty`, on which `json.loads` raises.
- `Payloads` knows lengths, the length byte, the token flag, the key an envelope
  is sealed to and the widths of integers. Keys have their 32 bytes and strings
  are UTF-8.
- `socket.close` does not wake a thread blocked in `accept` on Linux: a stopped
  transport may take one more connection. `listener[d] = "closing"` is that case.

## Runs

| Run | Bounds | Shows |
|---|---|---|
| `dedup` | 4 ids on 5 slots, one of them covered by two others; capacity 2, TTL 2, rebuild after 2 evictions, 6 acceptances, 5 ticks | the cache forgets nothing early (`NoEarlyRepeat`), is exact (`LruIsHistoryTail`, `FilterIsHistoryWindow`) and bounded (`CacheBounded`, `FilterNeverFull`) |
| `dedup_false_positive` | the same | **violated**: a false positive does not drop a message once but every time |
| `rate_limit` | 2 senders, 2 per window of 1, ban of 2 after 2 violations, idle after 2, prune every 3 checks, 8 checks, 5 ticks | limit, bans and pruning behave as the policy over the complete log says |
| `relay` | 3 messages in 7 forms, 2 tokens, capacity 2, 5 messages past step 4, 5 ticks | no replay, bounded verification, spray budget, attestation |
| `mesh_line` | 4 devices, two messages with just enough budget from both ends | nobody processes a message twice, everyone within the budget is reached, the flood ends |
| `mesh_complete` | 3 devices, budget for three hops | the same without the first: copies race, yet budgets hold and the flood ends |
| `mesh_double_delivery` | the same | **violated**: two handler threads pass the filter together |
| `mesh_copy_budget` | the same, two copies | **violated**: two copies reach three devices |
| `handler_threads` | 2 threads, 4 packets of 3 messages, capacity 1, rebuild after 2 evictions, limit 1 | types, capacity, filter and rate limit survive threads that race and kill each other (`CapacityAtRest`, `FilterCoversAtRest`, `RateOvershootBounded`); every handler ends (`HandlersEnd`) |
| `friendship` | 2 requests per phone, 2 nonces, 3 ticks, expiry 2, fields up to 4 | `MutualConsent`, `DecisionsStand`, and grants that serve exactly as long as they should (`ServedByConsent`, `RevocationComplete`, `LiveGrantHonoured`) |
| `friendship_stale_decline` | the same | **violated**: a decline of an old request withdraws the new one |
| `identity` | 3 processes, 3 keys, crashes anywhere | one identity for good (`ImplementsWriteOnce`, `SettledForGood`), only a death in mid-write breaks the file (`UnreadableExplained`), one of the racing calls gets through (`SomeoneReturns`) |

The bounds are chosen so that every case happens: capacity and TTL evictions and
two rebuilds in `dedup`, two bans of one sender and two prunes in `rate_limit` (a ban takes four checks), a message
forgotten by dedup and seen again within its timestamp window in `relay`, every
hop of the longest path and both directions in `mesh_line`. Capacity must be at
least 2 in `relay`: with 1 the entry that evicts by age would be the one that
evicts by capacity. In `handler_threads` a threshold of 2 lets a thread find a
rebuild done by another; more threads and packets bring nothing new (`HandlerProofs` has
the invariants for any number of them). In `friendship` two
requests let a phone be declined and ask again, two nonces let a token be
refreshed within one second, and the last tick makes `issue` overflow. In
`identity` the third process is the one that comes after a return while two race.
The clock stops at its bound and the histories are full at
theirs, handlers run out of packets, and nobody need call the key store again, so
deadlock is not checked.

What the properties mean together: `NoEarlyRepeat` is step 4's own promise;
`NoReplay` is what a node promises once step 3 is there, that *time* never makes
it accept a message again, only pressure on the capacity does. The same property
has a price that it states as well: a message refused by a later step (throttled
or unattested) is remembered all the same, and sending it again does not help.
`SprayWithinFirstBudget` then bounds the harm of being forgotten. `RateBounded`,
`BanHonoured`, `BanEnds` and `ImplementsPolicy` look at histories across prunes;
because a sender is pruned only when idle for longer than any ban lasts, the
second half of the condition at `rate_limit_check.py:79` never decides anything.
`FilterCoversAtRest` and `CapacityAtRest` say what is left of the dedup cache's
exactness when several threads use it: whatever one of them leaves undone
another one finishes. The exclusion in the former (`disturbed`) is needed: an
insertion that meets a rebuild may be lost with the old filter, and a thread that
has read a due eviction count may begin a rebuild that another has just finished,
which, cut short, nobody repeats. In both cases a live message is missing from
the filter, and a copy of it would be processed again.
`MutualConsent` has a hole the code leaves open and the property states: when
requests cross, one user may accept while the other declines, and the acceptor
holds a friendship with someone who *has* said yes, once. `MutualConsent` is no
help against that one-sided friendship. `RevocationComplete`
and `LiveGrantHonoured` together say that revoking is complete and exact.

### Findings

1. `dedup_check.py:21` and `DECISIONS.md` say a false positive drops a valid
   message once. Every copy of that message meets the same filter bits, so it is
   dropped until the next rebuild, redundancy of spraying or not.
2. `DedupCache.check` is a check-then-act without a lock under
   `socket_transport.py:70`'s thread per frame. On a topology with cycles a
   device can deliver and relay a message twice. Without
   cycles a copy comes back only from a device that has been sent to, after the
   sender's own write, and the property holds (`mesh_line`).
3. `docs/message-format.md:74` describes a budget of copies that is split between
   giver and receiver. The code gives every neighbour floor(L/2) and tracks
   nothing of its own share, so L bounds the depth of the flood (`HopBudget`),
   not the number of copies.

4. `friends/state.py:75-77` says a replayed or out-of-order message cannot corrupt
   consent. `transition` never sees which request a decline names, although the
   payload carries it: a decline of an earlier request that arrives late, or
   again, withdraws the request that is waiting now. (`MutualConsent` holds all
   the same: what such messages can do is take a request back.)

Also noted and not given a run: `docs/message-format.md:74` says that inflating
`spray_L` causes a ban; `pipeline.py:100` drops the packet and bans nobody.
`docs/friendship-and-location.md:31` speaks of a struct of 16 bytes where
`location/wire.py:42` has 24. "Every later call loads the same keypair"
(`keygen.py:44`) does not survive a death between `os.open` and the end of
`json.dump`: the file is then unreadable for good, which `UnreadableExplained`
shows to be the only such case.

### Fairness

`Dedup`, `RateLimiting`, `Relay` and `Friendship` state safety only and assume
no fairness. `Mesh` assumes weak fairness of "some handler that can step does":
threads are scheduled and the loopback TCP connections of a listening peer are
accepted. Nothing is assumed of `Inject`, `Stop` and `Exit`. Weak fairness of
the disjunction is enough because every handler takes finitely many steps and
starts finitely many others. `EveryoneReached` is conditional on no transport
having been stopped: the harness stops after a fixed time, whether or not the
mesh has settled. The first copy that a device gets decides what it relays on,
even when a richer one comes later by a shorter way. On the topologies of the
harness this costs nobody the message: a line or a star has one way, and fully
connected devices are one hop apart. On others `EveryoneReached` would be false:
with the links 0-1, 0-2, 1-2 and 2-3 and a budget for two hops, device 3 gets
nothing when the copy through 1 is the first at 2.

`HandlerThreads` assumes weak fairness of each thread, which the interpreter's
scheduler grants, and nothing of arrivals; `Identity` weak fairness of each call
that has begun, and nothing of calling, calling again or crashing.

## Proofs

`DedupProofs` proves, for every capacity, TTL, rebuild threshold, hash family and
length of the history, `TypeOK`, `NoEarlyRepeat`, the exactness of LRU and filter
and that the filter never overflows. Assumptions: capacity and threshold are
positive, the TTL is a natural number, every identifier has at least one slot.

The invariant `DedupInv` is inductive. `NoEarlyRepeat` alone is not: one has to
know what the filter contains when it says "not a duplicate".

- `LruIsHistoryTail`: the LRU is a tail of the history of accepted messages.
  This needs `PutAppends`: a message that is let through is not in the LRU, since
  the filter holds all of its entries, so the assignment never updates in place.
- `FilterIsHistoryWindow`: the bits are those of the last
  `Len(lru) + evictions` accepted messages. A rebuild shortens that window to
  the LRU, everything else extends it (`BitsOfTail`, `BitsOfAppend`).
- `EvictionsJustified`: whatever has left the LRU was over the capacity or over
  its TTL. It is stable because the history only grows and time only advances
  (`HistoryOrdered`).
- An accepted identifier is outside the window, hence outside the LRU, hence its
  earlier acceptance was justly evicted: `NoEarlyRepeat`.
- `CountBounded`: each addition counted by the filter is live or evicted since
  the rebuild, at most capacity + 1 + threshold - 1 of them: `FilterNeverFull`.

The loop of `_evict` is a least number (`EvictCount`), so its properties follow
from the well-foundedness of the naturals (`FirstStop`) instead of an induction.

`HandlerProofs` proves, for any number of threads and packets and all limits,
the types (no entry occurs twice in the LRU), `RateOvershootBounded`,
`CapacityAtRest` and `FilterCoversAtRest`. Each has an invariant of its own:

- `RateInv` adds to the window the threads that were let through and have not
  appended. A thread is let through while the window has room, so they are at
  most the other threads.
- `CapacityInv`: an LRU above its capacity has a thread *on duty*: at the head of
  the eviction loop, about to ask a valid iterator for its first entry, or beyond
  that with an oldest entry that is still there. A thread dies of a KeyError only
  because its entry is gone, and of a RuntimeError only because the LRU has
  changed, so it was not on duty; whoever changed the LRU is at the head of the
  loop, and is.
- `FilterInv`: whoever is about to put an entry has added it to the filter in use
  (`Added`); one thread at a time refills, while the count of evictions is not
  reset, and its iterator has every entry left that the filter lacks
  (`OneRefill`); and an entry that the filter lacks is about to be refilled,
  or the rebuild is still due and a thread on duty will come to it (`WillCover`).

`IdentityProofs` proves, for any number of processes, `SettledForGood`,
`UnreadableExplained` and the refinement of `WriteOnce`. The invariant: at most
one process is between creation and end of the write, and only while the file is
empty (`OneWriter`); who returns holds what is in the file (`Holders`); all
answers are that content (`Answered`); calls that began after an answer found it
(`Latecomers`). Assumption: the two contents that are not keys are none.

`FriendshipProofs` proves all six properties of `friendship`, for any number of
requests and nonces, any time and expiry. The invariant is in three parts:
`Typed`; `Consent`, which adds to `MutualConsent` what the messages on the mesh
and the intermediate states tell of the users; and `Grants`, which follows each
token: it was issued by its issuer to the other in the past with a nonce of its
own, it is in the record or its revocation has been sent (`GrantsAccounted`),
revocations name only tokens no longer held, and the node has heard only
revocations that were sent.

`RateProofs` proves, for any limits, durations and length of the log, the five
invariants of `rate_limit` and the refinement of `RateLimitPolicy`. The invariant
`RateInv` says of every sender what the dictionary knows of the log:

- what `check` finds of a sender in the dictionary, or creates, has in its window
  the times of the messages accepted from it, oldest first, except for some that
  are out of the window by now (`Tracks`: an injection of the window's positions
  into those of the log). What the loop over the window leaves is then exactly
  what the policy counts (`SlideCounts`);
- it is banned while the ban the log ends with runs, and its violation counter is
  the policy's streak of refusals, unless none of its accepted messages is in
  the window any more: a prune forgets the counter and the policy does not, but
  the next check then passes and ends the streak in both (`Represents`);
- who is not held was idle, when it was pruned, for longer than a window or a
  ban lasts. This is where `BAN_SECONDS <= IDLE_EXPIRY_SECONDS` and
  `WINDOW_SECONDS < BAN_SECONDS` are used (600, 60 and 10 in the code); with a
  shorter expiry a prune would reset windows.

From `RateInv` every step's verdict is the policy's (`Refinement`), and with it
the promises are inductive (`Promises`).

`RelayProofs` proves the invariants of `relay`, for any packets, tokens, limits
and time. It is compositional: the packets of a node that pass step 4 are the
acceptances of a `Dedup`, and the checks of a `RateLimiting` (`DrivesDedup`,
`DrivesLimiter`: the specification of the node implies that of each part, with
the history taken from the node's log). The theorems of `DedupProofs` and
`RateProofs` then hold of the parts:

- `NoReplay`: by `NoEarlyRepeat` a packet accepted twice was separated by its
  capacity in messages or by more than `TTL_SECONDS`; the latter is impossible for
  two timely packets with one timestamp because of `WindowsAssumption`.
- `VerificationBounded`: only what step 5 passes reaches the signature, and
  `RateBounded` counts those.
- `SprayWithinFirstBudget` and `AttestedOnly` need an invariant of the node's
  own: the tracker holds the budget of the first delivery of each message
  (`BudgetOK`), the token cache only expiries of tokens that were granted
  (`TokensOK`).

The log of `Relay` records the verdict of step 5 next to the outcome for this
purpose only. The second part of the module proves what `MCRelay` evaluates for
bounded lengths: a packet built by a device parses and is within the size limit
exactly up to 321 bytes of payload; relaying touches nothing the signature
covers; friend requests and acceptances decode and are not mistaken for each
other; every payload fits, sealed or in the clear; and the cap on direct messages is exact. Assumptions:
the fields of packets are unsigned (`PacketAssumption`), and the accepted span of
timestamps fits into the life of a dedup entry (`WindowsAssumption`, 330 s
against 600 s in the code).

`MeshProofs` proves `TypeOK` and `HopBudget` for every symmetric topology that
lists a neighbour once (`TopologyAssumption`), any set of messages with distinct
identifiers (`MessageAssumption`) and every interleaving of the handler threads,
and that `add()` never raises in a device although its handlers race. The invariant says of every thread, not only of the
queued frames, that its packet has paid for its hops (`Paid`), with halvings
counted by the recursive function `Pow2`; that a frame of the main thread is a
single one in the bag (`OneMain`), or removing one copy would leave another
behind; and of every cache, that it has its bounds and misses none of its live
entries (`CacheOK`). The last is weaker than `DedupInv`, which races break (the
same message may be accepted twice), but survives them: a second insertion finds
the bits set and is not counted.

Its second part proves `ProcessedAtMostOnce` on topologies without cycles
(`OnceOnTrees`); `mesh_double_delivery` shows that with a cycle it is false. The
hypothesis `Roomy`, that a cache has room for every message of the simulation,
keeps entries from being evicted; `MCMesh` assumes it of the runs, and
`CAPACITY` is 10,000 in the code. `StarIsTree` and `LineIsTree` prove the other
hypothesis of stars and lines of every size, and `CompleteHasCycles` that it fails
on complete topologies of three devices and more. Between the read of the filter and the write two handlers of
one device can still race, so the proof has to show that there never are two:
`Spreads` says of every message and the tree above its origin that

- only a device that holds the message relays it, in one thread, and a device
  gets a frame or holds the message only after the device above it;
- a device that does not hold it yet has at most one frame or thread with it,
  and while it has one no loop over neighbours anywhere has still to send it
  another (the loops never come back to a neighbour: `Route`);
- at a device that holds it nobody is past the filter (`ScreenedAnew`: what is
  live in a cache is found by its filter).

The lemmas `SpreadFewer` to `SpreadTake` are about any bag of threads, one for each
way in which a step changes it, and `InjectOnce` to `RelayOnce` apply them to the
actions. TLC found `TreeInv` to hold in every state of `mesh_line` before it was
proved.

With this every invariant, action property and refinement that a passing run
checks is a theorem.

Only model-checked, and why:

- Liveness under fairness (`EveryoneReached`, `Quiesces`, `HandlersEnd`,
  `SomeoneReturns`): out of the prover's reach.
- What a recursive definition computes on every input: it takes an induction over
  data that the installed provers cannot instantiate. For `Pow2` the one fact that
  is needed, that the function exists, is proved by a least counterexample.

The assumptions `BuildersSymmetric` and `BuildersAcyclic` of `MCMesh`, which TLC
evaluates for up to five or six devices, are what `StarIsTree`, `LineIsTree` and
`CompleteHasCycles` prove for every number of them.

## Plan

Done, in the order of the importance of what they model: `DedupCache`/`Dedup`,
`RateLimiter` with its abstract policy, `RelayPipeline`/`Relay`, `Mesh`,
`HandlerThreads`, `Friendship` with tokens, `Identity`, the payloads and signing;
proofs for each of them. Next:

1. `HandlerThreads` with several senders, so that a prune races with
   `setdefault`, and with the budget tracker behind the race of the filter.

## Not modelled

- The cryptography itself (Ed25519, X25519, ChaCha20, BLAKE3) is taken as perfect
  and JSON, JWT and base64 as one flag: their failures are one outcome each.
- Framing in `socket_transport.py` (a peer that closes in mid-frame ends its
  handler before it has touched any state), the backlog of 16 connections.
  `Device.start` opens the transport before it registers the callback; no message
  is on its way then, since the harness injects only when every device has started.
- `attestation_check.py:70` racing with itself: the KeyError kills a handler
  whose packet the next line drops; no state and no verdict differ.
- `sim/adversarial_demo.py` sends a fixed list of packets to one device and prints
  the verdicts; `MCRelay` feeds these kinds of packets in every order. Argument
  parsing and logging have no effect on any state.
- A wall clock that is set back.
