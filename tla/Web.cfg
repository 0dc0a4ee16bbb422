SPECIFICATION FairSpec
CONSTANTS
  t1 = t1
  t2 = t2
  alice = alice
  bob = bob
  Users = {alice, bob}
  Rows = {r1, r2}
  Tabs = {t1, t2}
  Slots <- TwoCallsAndOne
  Bounds <- SessionsOrWork
  None = none
CHECK_DEADLOCK FALSE
INVARIANTS
  SessionIsWhoLoggedIn
  FormOfItsRow
PROPERTY
  PagesCatchUp
