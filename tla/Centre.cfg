SPECIFICATION CentreSpec
CONSTANTS
  Names = {alice, bob}
  People = {p, q}
  NoName = noname
  Nobody = nobody
  Requests = {r1, r2}
  MaxIds = 3
  Authors = {1}
  MaxSource = 2
  MaxEdits = 2
  MaxDeploys = 2
  MaxRemotes = 1
  MaxFaults = 1
SYMMETRY Symmetry
CHECK_DEADLOCK FALSE
INVARIANTS
  AdminRemainsAlone
  TokenOfOwnAccount
  QueueLossRecovered
  SchemaOfTheCentre
PROPERTIES
  OldPasswordIsUseless
