----------------------------- MODULE MCJudgeBox -----------------------------
(* Small instances of JudgeBox for TLC: testcases worth 2 and 0 points.    *)
EXTENDS JudgeBox
MCPoints == [t \in Tests |-> IF t = 1 THEN 2 ELSE 0]
=============================================================================
