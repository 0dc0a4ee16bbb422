---------------------------- MODULE MCContestGate ----------------------------
EXTENDS ContestGate, TLC

Symmetry == Permutations(Handlers)
=============================================================================
