----------------------------- MODULE MCWebPages -----------------------------
EXTENDS WebPages, TLC
CONSTANTS s1, s2, s3, p1, p2, c1
MCSymmetry == Permutations(Verdicts)
MCProblemOf == (s1 :> p1) @@ (s2 :> p2) @@ (s3 :> p2)
MCContestOf == (s1 :> Null) @@ (s2 :> c1) @@ (s3 :> c1)
=============================================================================
