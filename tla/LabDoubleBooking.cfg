\* Two dispatches that overlap choose the same idle machine.
SPECIFICATION Spec
CONSTANTS
  None = None
  r1 = r1
  s1 = s1
  s2 = s2
  x11 = x11
  x12 = x12
  x21 = x21
  rcpA = rcpA
  rcpB = rcpB
  Requests = {r1}
  Samples = {s1, s2}
  Experiments = {x11, x21}
  Recipes = {rcpA, rcpB}
  Wips = {w1, w2}
  Jobs = {j1, j2}
  Equipment = {e1}
  RequestOf <- MCRequestOf
  SampleOf <- MCSampleOf
  SeqNo <- MCSeqNo
  RecipeOf <- MCRecipeOf
  Capable <- MCCapable
  Workers = {k1}
  BrokerMayFail = FALSE
  ReportMayFail = FALSE
  PoolMayDie = FALSE
  Operations = {"receive_sample", "lock_wip"}
  ManualStatuses = {}
  MaxCalls = 0
  MaxOpening = 2
  MaxCrashes = 0
CHECK_DEADLOCK FALSE
INVARIANTS
  MachineRunsOneJob
