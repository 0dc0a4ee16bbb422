------------------------- MODULE MCProblemCatalogue -------------------------
EXTENDS ProblemCatalogue, TLC

Symmetry == Permutations(Requests) \union Permutations(Subs)
=============================================================================
