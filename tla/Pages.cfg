SPECIFICATION PagesSpec
CONSTANTS
  s1 = s1
  s2 = s2
  s3 = s3
  p1 = p1
  p2 = p2
  c1 = c1
  Null = null
  Langs = {py, cpp}
  Modes = {acm, oi}
  DefaultLang = py
  DefaultMode = acm
  MaxChoices = 2
  Subs = {s1, s2, s3}
  ProblemOf <- MCProblemOf
  ContestOf <- MCContestOf
  Verdicts = {ac, wa}
  MaxBatch = 2
  MaxClicks = 3
  Hour = 2
  NewHours = 1
  NewFreeze = 1
  Horizon = 5
  Picks = {0, 3}
  Amounts = {1}
  Problems = {p1, p2}
  MaxInputs = 2
SYMMETRY MCSymmetry
CHECK_DEADLOCK FALSE
INVARIANTS
  SettingsConverge
  CodeInItsLanguage
  OnlyWhatWasPicked
  UntouchedKept
