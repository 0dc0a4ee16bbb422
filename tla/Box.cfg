SPECIFICATION BoxSpec
CONSTANTS
  NTests = 2
  Points <- MCPoints
  Codes = {"ACCEPTED", "WRONG_ANSWER", "TIME_LIMIT_EXCEEDED", "RUNTIME_ERROR", "COMPILE_ERROR"}
  MaxRuns = 2
  MaxRejudges = 1
  Compiled = TRUE
  MayHold = TRUE
  BigInput = TRUE
CHECK_DEADLOCK FALSE
INVARIANTS
  VerdictOfRows
  ScoreOfRows
  AcceptedHonest
PROPERTY
  EveryRunEnds
