----------------------------- MODULE Topologies -----------------------------
(***************************************************************************)
(* The topologies of the simulation harness, src/sim/topologies/: each     *)
(* gives every device 0..n-1 the list of its neighbours, in the order in   *)
(* which the device sends to them.                                         *)
(***************************************************************************)
EXTENDS Integers, Sequences, Functions

Line(n) == [i \in 0..(n - 1) |-> (IF i > 0 THEN <<i - 1>> ELSE <<>>)
                                 \o (IF i < n - 1 THEN <<i + 1>> ELSE <<>>)]

Star(n) == [i \in 0..(n - 1) |-> IF i = 0 THEN [k \in 1..(n - 1) |-> k] ELSE <<0>>]

Complete(n) == [i \in 0..(n - 1) |->
                    [k \in 1..(n - 1) |-> IF k <= i THEN k - 1 ELSE k]]

\* What a topology has to be (sim/README.md:61).
Symmetric(adj) ==
    \A i, j \in DOMAIN adj : j \in Range(adj[i]) <=> i \in Range(adj[j])

\* up leads every device that reaches r towards it, and every link is on the way.
LeadsTo(adj, r, up) ==
    /\ up[r] = r
    /\ \A i, j \in DOMAIN adj : j \in Range(adj[i]) => up[i] = j \/ up[j] = i

Acyclic(adj) ==
    \A r \in DOMAIN adj : \E up \in [DOMAIN adj -> DOMAIN adj] : LeadsTo(adj, r, up)
=============================================================================
