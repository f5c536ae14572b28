\* Fair workers, one crash; lab users set sample statuses by hand and managers edit machines.
SPECIFICATION FairSpec
CONSTANTS
  None = None
  r1 = r1
  s1 = s1
  s2 = s2
  x11 = x11
  x12 = x12
  x21 = x21
  rcpA = rcpA
  rcpB = rcpB
  Requests = {r1}
  Samples = {s1}
  Experiments = {x11, x12}
  Recipes = {rcpA, rcpB}
  Wips = {w1}
  Jobs = {j1, j2}
  Equipment = {e1}
  RequestOf <- MCRequestOf
  SampleOf <- MCSampleOf
  SeqNo <- MCSeqNo
  RecipeOf <- MCRecipeOf
  Capable <- MCCapable
  Workers = {k1, k2}
  BrokerMayFail = FALSE
  ReportMayFail = FALSE
  PoolMayDie = FALSE
  Operations = {"receive_sample", "lock_wip", "retry_dispatch", "maintenance", "activate", "deactivate", "update_equipment"}
  ManualStatuses = {"received"}
  MaxCalls = 0
  MaxOpening = 1
  MaxCrashes = 1
CHECK_DEADLOCK FALSE
INVARIANTS
  LabInv
PROPERTIES
  RunningJobEnds
  VisibleMessageIsServed
