SPECIFICATION Spec
CONSTANTS
  Subs = {s1, s2}
  Users = {u1, u2}
  Admins = {a1}
  Boot = boot0
  NoJob = noJob
  Workers = {w1, w2}
  NTests = 2
  AcmSubs = {s1}
  MaxInflight = 2
  MaxRejudges = 1
  FaultKinds = {"crash", "enqueueError", "lostReply", "jobError", "persistError"}
  MaxFaults = 1
SYMMETRY PipelineSymmetry
CHECK_DEADLOCK FALSE
INVARIANTS
  CapHolds
  OneRunAtATime
  RowsAgree
  ExactCounter
PROPERTY
  ImplementsLifecycle
