SPECIFICATION Spec
CONSTANTS
  Requests = {r1, r2}
  Subs = {s1}
  Old = old
  Absent = absent
  NoList = noList
  MaxIds = 3
  MaxOrdinal = 1
  ImportSizes = {0, 1, 3}
  MaxFaults = 1
  MaxRejudges = 1
SYMMETRY Symmetry
CHECK_DEADLOCK FALSE
INVARIANTS
  CacheAgrees
  RowHasFiles
  ChecksumAgrees
  StaleNeverScores
