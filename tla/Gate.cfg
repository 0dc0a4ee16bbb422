SPECIFICATION Spec
CONSTANTS
  Users = {admin, alice}
  Admins = {admin}
  Editors = {}
  Anyone = anyone
  Problems = {p}
  PublicProblems = {p}
  Handlers = {h1, h2}
  NoTime = noTime
  MaxPassword = 1
  Horizon = 2
SYMMETRY Symmetry
CHECK_DEADLOCK FALSE
INVARIANTS
  SubmitterRegistered
  VerifiedByPassword
  ListAgrees
  SubmitterSees
