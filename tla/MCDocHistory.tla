---------------------------- MODULE MCDocHistory ----------------------------
EXTENDS DocHistory, TLC

Symmetry == Permutations(Doc) \cup Permutations(Actor)

=============================================================================
