SPECIFICATION FairSpec
CONSTANTS
  Subs = {s1}
  Users = {u1}
  Admins = {a1}
  Boot = boot0
  NoJob = noJob
  Workers = {w1, w2}
  NTests = 1
  AcmSubs = {}
  MaxInflight = 3
  MaxRejudges = 1
  FaultKinds = {"apiCrash", "crash", "lateCrash", "lockLost", "jobError", "lostReply"}
  MaxFaults = 1
CHECK_DEADLOCK FALSE
PROPERTIES
  EverySubmissionJudged
  CounterDrains
