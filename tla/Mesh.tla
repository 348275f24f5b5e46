-------------------------------- MODULE Mesh --------------------------------
(***************************************************************************)
(* The simulated mesh of src/sim/: devices, each with a RelayPipeline and  *)
(* a SocketTransport, on which every received frame is handled by a thread *)
(* of its own (socket_transport.py:70).  Handlers of one device interleave *)
(* between the read of the dedup filter (dedup_check.py:46) and the write  *)
(* that follows it, and between two sends.                                 *)
(*                                                                         *)
(* A message crosses the mesh in far less than the windows of steps 3 to 5 *)
(* (300 s, 600 s, 10 s), so time stands still here.  The zone of a message *)
(* decides only what a device logs, not what it relays, and is left out.   *)
(***************************************************************************)
EXTENDS BagsExt, Bags, RelayPipeline, Topologies

CONSTANTS
    Neighbors,      \* Neighbors[d]: the addresses device d relays to, in order
    Message,        \* the injections of the command line
    HARNESS_EPHEM,  \* the ephemeral identifier every device injects with
    MaxProcessed    \* cap of the counters of processed messages

Device == DOMAIN Neighbors
ASSUME TopologyAssumption ==
    /\ Device = 0..(Cardinality(Device) - 1)
    /\ \A d \in Device : Neighbors[d] \in Seq(Device \ {d}) /\ IsInjective(Neighbors[d])
    /\ Symmetric(Neighbors)

\* Every injection is signed anew: identifiers of messages do not collide.
ASSUME MessageAssumption ==
    /\ Message \subseteq [id : MsgId, origin : Device, ttl : Nat, spray : Nat]
    /\ \A m, k \in Message : m.id = k.id => m = k
    /\ MaxProcessed \in Nat

Now == 0

VARIABLES
    nodes,      \* the pipeline of every device
    listener,   \* its server socket; "closing": closed, but accept() still blocks on it
    handlers,   \* the frames under way and the threads handling them, a bag
    injected,
    processed   \* history: how often every device delivered and relayed a message

vars == <<nodes, listener, handlers, injected, processed>>

\* at: "queued" (sent, not accepted yet), "received", "screened" (past steps 1
\* to 4) or "relaying" with the neighbours still to be sent to.
Handler(d, packet, at, main) ==
    [dev |-> d, packet |-> packet, at |-> at, todo |-> <<>>, main |-> main]

MsgIds == {m.id : m \in Message}

Init ==
    /\ nodes = [d \in Device |-> NewNode(FALSE)]
    /\ listener = [d \in Device |-> "open"]
    /\ handlers = EmptyBag
    /\ injected = {}
    /\ processed = [d \in Device |-> [id \in MsgIds |-> 0]]

Active == BagToSet(handlers)

MainIdle == \A h \in Active : ~ h.main

Replace(h, g) == BagAdd(BagRemove(handlers, h), g)

Packet(m) ==
    [id |-> m.id, ephem |-> HARNESS_EPHEM, sender |-> m.origin, timestamp |-> Now,
     ttl |-> m.ttl, spray |-> m.spray,
     size |-> 144, payload_len |-> 5, genuine |-> TRUE]

\* Device.inject, called by the main thread of the harness.
Inject(m) ==
    /\ m \notin injected
    /\ MainIdle
    /\ \A d \in Device : listener[d] = "open"
    /\ injected' = injected \cup {m}
    /\ handlers' = BagAdd(handlers, Handler(m.origin, Packet(m), "received", TRUE))
    /\ UNCHANGED <<nodes, listener, processed>>

\* accept() returns a connection and its handler thread reads the frame; when
\* the transport was stopped meanwhile this was the last one.
Accept(h) ==
    /\ h.at = "queued"
    /\ listener[h.dev] # "closed"
    /\ listener' = [listener EXCEPT ![h.dev] = IF @ = "closing" THEN "closed" ELSE @]
    /\ handlers' = Replace(h, [h EXCEPT !.at = "received"])
    /\ UNCHANGED <<nodes, injected, processed>>

\* The server socket goes with the connections nobody accepted.
Lose(h) ==
    /\ h.at = "queued"
    /\ listener[h.dev] = "closed"
    /\ handlers' = BagRemove(handlers, h)
    /\ UNCHANGED <<nodes, listener, injected, processed>>

\* Steps 1 to 4 of process(), up to the read of the dedup filter.
ScreenFrame(h) ==
    /\ h.at = "received"
    /\ handlers' = IF Screen(nodes[h.dev], h.packet, Now) = "new"
                   THEN Replace(h, [h EXCEPT !.at = "screened"])
                   ELSE BagRemove(handlers, h)
    /\ UNCHANGED <<nodes, listener, injected, processed>>

\* From the write of the dedup state to the end of process() and, on DELIVER,
\* on to the loop over the neighbours.
Process(h) ==
    LET node   == nodes[h.dev]
        judged == Judge(node, h.packet, Now)
        relays == judged = "deliver" /\ Neighbors[h.dev] # <<>> /\ OnwardCopies(h.packet) # {}
    IN  /\ h.at = "screened"
        /\ ~ AddRaises(node.dedup.bloom)
        /\ nodes' = [nodes EXCEPT ![h.dev] = AfterProcess(node, h.packet, Now)]
        /\ processed' =
             IF judged = "deliver" /\ processed[h.dev][h.packet.id] < MaxProcessed
             THEN [processed EXCEPT ![h.dev][h.packet.id] = @ + 1]
             ELSE processed
        /\ handlers' = IF relays
                       THEN Replace(h, [h EXCEPT !.at = "relaying", !.todo = Neighbors[h.dev]])
                       ELSE BagRemove(handlers, h)
        /\ UNCHANGED <<listener, injected>>

\* Mutant: the loop does not end with its last neighbour.
AdvancedEndless(h) == Replace(h, [h EXCEPT !.todo = Tail(@)])

\* Mutant: the loop returns after its first neighbour.
AdvancedOnce(h) == BagRemove(handlers, h)

\* h once it has dealt with its next neighbour.
Advanced(h) ==
    IF Len(h.todo) = 1 THEN BagRemove(handlers, h)
                       ELSE Replace(h, [h EXCEPT !.todo = Tail(@)])

Relay(h) ==
    /\ h.at = "relaying"
    /\ listener[Head(h.todo)] # "closed"
    /\ \E copy \in OnwardCopies(h.packet) :
         handlers' = BagAdd(Advanced(h), Handler(Head(h.todo), copy, "queued", FALSE))
    /\ UNCHANGED <<nodes, listener, injected, processed>>

\* Mutant: a refused connection is tried again.
RefusedRetry(h) ==
    /\ h.at = "relaying"
    /\ listener[Head(h.todo)] = "closed"
    /\ UNCHANGED vars

\* connect() raises and takes the handler thread with it: the neighbours that
\* are left get nothing.
Refused(h) ==
    /\ h.at = "relaying"
    /\ listener[Head(h.todo)] = "closed"
    /\ handlers' = BagRemove(handlers, h)
    /\ UNCHANGED <<nodes, listener, injected, processed>>

\* The main thread stops the transports in the order of the devices, whether
\* or not every frame has been handled by then.
Stop(d) ==
    /\ MainIdle
    /\ \A c \in Device : listener[c] = "open" <=> c >= d
    /\ \E s \in {"closing", "closed"} : listener' = [listener EXCEPT ![d] = s]
    /\ UNCHANGED <<nodes, handlers, injected, processed>>

\* The process ends, and its daemon threads with it.
Exit ==
    /\ \A d \in Device : listener[d] # "open"
    /\ handlers # EmptyBag
    /\ handlers' = EmptyBag
    /\ UNCHANGED <<nodes, listener, injected, processed>>

Handle(h) ==
    \/ Accept(h)
    \/ Lose(h)
    \/ ScreenFrame(h)
    \/ Process(h)
    \/ Relay(h)
    \/ Refused(h)

Next ==
    \/ \E m \in Message : Inject(m)
    \/ \E h \in Active : Handle(h)
    \/ \E d \in Device : Stop(d)
    \/ Exit

\* Threads run and the kernel delivers: some handler that can step does.
Fairness == WF_vars(\E h \in Active : Handle(h))

Spec == Init /\ [][Next]_vars /\ Fairness
-----------------------------------------------------------------------------
TypeOK ==
    /\ \A d \in Device : nodes[d].dedup \in Cache
    /\ listener \in [Device -> {"open", "closing", "closed"}]
    /\ IsABag(handlers)
    /\ \A h \in Active :
         /\ h.dev \in Device
         /\ h.at \in {"queued", "received", "screened", "relaying"}
         /\ h.at = "relaying" <=> h.todo # <<>>
         /\ h.main => h.at # "queued"
    /\ Cardinality({h \in Active : h.main}) <= 1
    /\ injected \subseteq Message
    /\ processed \in [Device -> [MsgIds -> 0..MaxProcessed]]

MessageOf(id) == CHOOSE m \in Message : m.id = id

\* What k halvings take away: 2^k, as a function that proofs can unfold.
Pow2[k \in Nat] == IF k = 0 THEN 1 ELSE 2 * Pow2[k - 1]

(***************************************************************************)
(* Along every path a relayed frame has given up at least half of its copy *)
(* budget with every hop of its hop budget, and no frame under way has     *)
(* exhausted either.  A message dies out however often it is duplicated.   *)
(***************************************************************************)
HopBudget ==
    \A h \in Active :
        LET m    == MessageOf(h.packet.id)
            hops == m.ttl - h.packet.ttl
        IN  h.at = "queued" => /\ hops >= 1 /\ h.packet.ttl >= 1
                               /\ h.packet.spray >= 1
                               /\ h.packet.spray * Pow2[hops] <= m.spray

(***************************************************************************)
(* sim/README.md:49-53, "each device's own dedup cache kills the loop": a  *)
(* device delivers and relays a message at most once.                      *)
(***************************************************************************)
ProcessedAtMostOnce == \A d \in Device : \A id \in MsgIds : processed[d][id] <= 1

\* No message is evicted from a cache while it crosses the mesh.
Roomy == IsFiniteSet(MsgIds) /\ Cardinality(MsgIds) <= CAPACITY

(***************************************************************************)
(* docs/message-format.md:72-74, "copy budget": with L copies a message    *)
(* reaches at most L devices.                                              *)
(***************************************************************************)
CopyBudget ==
    \A m \in Message : Cardinality({d \in Device : processed[d][m.id] > 0}) <= m.spray

\* The devices within k hops of d.
Within(d, k) ==
    LET near[i \in 0..k] ==
            IF i = 0 THEN {d} ELSE near[i - 1] \cup UNION {Range(Neighbors[c]) : c \in near[i - 1]}
    IN  near[k]

\* How many hops the budgets of m pay for.
HopsPaid(m) ==
    CHOOSE k \in 0..(m.ttl - 1) :
        /\ Pow2[k] <= m.spray
        /\ k + 1 \in 0..(m.ttl - 1) => Pow2[k + 1] > m.spray

Reached(m) == \A d \in Within(m.origin, HopsPaid(m)) : processed[d][m.id] > 0

(***************************************************************************)
(* An injected message reaches every device its hop and copy budgets can   *)
(* pay for, in whatever order the copies arrive, unless the harness shuts  *)
(* down first.                                                             *)
(***************************************************************************)
EveryoneReached ==
    \A m \in Message :
        m \in injected ~> (Reached(m) \/ \E d \in Device : listener[d] # "open")

(***************************************************************************)
(* The flood ends: whatever is injected and whoever is stopped, the mesh   *)
(* falls silent and no handler thread is left behind.                      *)
(***************************************************************************)
Quiesces == <>[](handlers = EmptyBag)
=============================================================================
