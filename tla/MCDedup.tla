------------------------------- MODULE MCDedup -------------------------------
EXTENDS Dedup

CONSTANTS m1, m2, m3, m4

\* Four identifiers on five slots: the slots of m3 are covered by those of m1
\* and m2 together (a false positive), m4 collides with nobody.
MCMsgId  == {m1, m2, m3, m4}
MCSlot   == 1..5
MCHashes ==
    [id \in MCMsgId |-> CASE id = m1 -> {1, 2}
                          [] id = m2 -> {2, 3}
                          [] id = m3 -> {1, 3}
                          [] id = m4 -> {4, 5}]
=============================================================================
