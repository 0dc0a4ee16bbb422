------------------------- MODULE MCContestScoreboard -------------------------
(* ContestScoreboard for TLC: the problems of a contest are alike.         *)
EXTENDS ContestScoreboard, TLC

ProblemsAreAlike == Permutations(Problems)
=============================================================================
