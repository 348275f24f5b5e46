------------------------------- MODULE MCMesh -------------------------------
EXTENDS Mesh

CONSTANTS m1, m2

MCMsgId  == {m1, m2}
MCSlot   == 1..2
MCHashes == [id \in MCMsgId |-> IF id = m1 THEN {1} ELSE {2}]

\* Every topology of the harness is symmetric, as sim/README.md:61 asks.
ASSUME BuildersSymmetric ==
    \A n \in 1..6 : \A adj \in {Line(n), Star(n), Complete(n)} : Symmetric(adj)

\* The runs give the caches room for every message.
ASSUME RoomyCaches == Roomy

\* The topologies without a cycle, on which ProcessedAtMostOnce holds.
ASSUME BuildersAcyclic ==
    \A n \in 1..5 : /\ Acyclic(Line(n)) /\ Acyclic(Star(n))
                    /\ Acyclic(Complete(n)) <=> n <= 2

\* A broadcast from one end with just enough budget to get to the other, and a
\* second message that dies half way.
MCLine     == Line(4)
MCLineMessages ==
    { [id |-> m1, origin |-> 0, ttl |-> 4, spray |-> 9],
      [id |-> m2, origin |-> 3, ttl |-> 2, spray |-> 3] }

MCComplete == Complete(3)
MCCompleteMessages ==
    { [id |-> m1, origin |-> 0, ttl |-> 4, spray |-> 9] }

\* Two copies.
MCFrugal ==
    { [id |-> m1, origin |-> 0, ttl |-> 3, spray |-> 2] }
=============================================================================
