\* Calls served one at a time and no crash; failed jobs are retried.
SPECIFICATION Spec
CONSTANTS
  None = None
  r1 = r1
  s1 = s1
  s2 = s2
  x11 = x11
  x12 = x12
  x21 = x21
  rcpA = rcpA
  rcpB = rcpB
  Requests = {r1}
  Samples = {s1, s2}
  Experiments = {x11, x12, x21}
  Recipes = {rcpA, rcpB}
  Wips = {w1, w2, w3}
  Jobs = {j1, j2, j3}
  Equipment = {e1, e2}
  RequestOf <- MCRequestOf
  SampleOf <- MCSampleOf
  SeqNo <- MCSeqNo
  RecipeOf <- MCRecipeOf
  Capable <- MCCapable
  Workers = {k1, k2}
  BrokerMayFail = FALSE
  ReportMayFail = FALSE
  PoolMayDie = FALSE
  Operations = {"receive_sample", "reject_sample", "lock_wip", "cancel_request", "close_request", "retry_dispatch"}
  ManualStatuses = {}
  MaxCalls = 0
  MaxOpening = 1
  MaxCrashes = 0
SYMMETRY Identifiers
CHECK_DEADLOCK FALSE
INVARIANTS
  MachineRunsOneJob
  BatchHasOneLiveJob
  WaferKnowsItsBatch
  NoExperimentInADeadBatch
  ResultMatchesExperiments
  OfferIsServed
  DoneMeansDone
