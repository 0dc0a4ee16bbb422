-------------------------- MODULE MCJudgePipeline --------------------------
(* Small instances of JudgePipeline for TLC.                               *)
EXTENDS JudgePipeline, TLC

\* Handlers, worker slots and the submissions of one judge mode are alike.
PipelineSymmetry ==
  Permutations(Users) \cup Permutations(Admins) \cup Permutations(Workers)
    \cup Permutations(AcmSubs) \cup Permutations(Subs \ AcmSubs)
============================================================================
