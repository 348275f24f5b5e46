----------------------------- MODULE SprayAndWait -----------------------------
(***************************************************************************)
(* src/routing/spray_and_wait.py: the binary copy split and the tracker of *)
(* the spray budget first observed for every message.                      *)
(***************************************************************************)
EXTENDS Integers

\* Mutant: the ceiling goes to the peer, the floor stays.
SplitCeiling(l) ==
    IF l <= 0 THEN [forward |-> 0, keep |-> 0]
              ELSE [forward |-> l - l \div 2, keep |-> l \div 2]

SplitCopies(l) ==
    IF l <= 0 THEN [forward |-> 0, keep |-> 0]
              ELSE [forward |-> l \div 2, keep |-> l - l \div 2]

IsWaitPhase(l) == l <= 1
-----------------------------------------------------------------------------
(* SprayBudgetTracker: expected[id] is the budget of the first sighting.   *)

NewBudget == [id \in {} |-> 0]

WithinBudget(expected, id, l) == id \in DOMAIN expected => l <= expected[id]

\* Mutant: only the message seen last is tracked.
ObserveOnlyLast(expected, id, l) == [i \in {id} |-> l]

\* The first sighting is remembered for good; nothing is ever forgotten.
Observe(expected, id, l) ==
    IF id \in DOMAIN expected
    THEN expected
    ELSE [i \in DOMAIN expected \cup {id} |-> IF i = id THEN l ELSE expected[i]]
=============================================================================
