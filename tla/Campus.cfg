SPECIFICATION Spec
CONSTANTS
  Users = {alice}
  Discussions = {d}
  Problems = {p, q}
  Handlers = {h1, h2, h3}
  TTL = 2
  Bounds <- OverlapsHoursOrProgress
SYMMETRY Symmetry
CHECK_DEADLOCK FALSE
INVARIANTS
  EveryAnswerToggles
  SolvedViewsAgree
  ServedIsRecent
