----------------------------- MODULE MCFriendship -----------------------------
EXTENDS Friendship, TLC

CONSTANTS n1, n2

Symmetry == Permutations({ada, ben}) \cup Permutations({n1, n2})
=============================================================================
