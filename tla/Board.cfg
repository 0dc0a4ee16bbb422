SPECIFICATION BoardSpec
CONSTANTS
  Users = {u1}
  Problems = {p1, p2}
  Admins = {u1}
  EndAt = 2
  Minute = 2
  FullScore = 2
  NoTime = noTime
  MaxSubs = 3
  Horizon = 3
SYMMETRY ProblemsAreAlike
CHECK_DEADLOCK FALSE
INVARIANT
  PenaltyByTheRules
PROPERTIES
  AcceptedNeverSetsBack
  FreezeHolds
