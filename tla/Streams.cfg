SPECIFICATION FairSpec
CONSTANTS
  Conns = {c1, c2}
  Instances = {i1, i2}
  NoInstance = noInstance
  MaxConnections = 1
  MaxExpiries = 1
CHECK_DEADLOCK FALSE
INVARIANT
  NoGhostCounted
  CountHoldsAlone
PROPERTIES
  StreamEnds
