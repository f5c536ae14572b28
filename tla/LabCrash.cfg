\* A process dies at any point: a worker in its task, or an API process in create_dispatch.
SPECIFICATION Spec
CONSTANTS
  None = None
  r1 = r1
  s1 = s1
  s2 = s2
  x11 = x11
  x12 = x12
  x21 = x21
  rcpA = rcpA
  rcpB = rcpB
  Requests = {r1}
  Samples = {s1, s2}
  Experiments = {x11, x12, x21}
  Recipes = {rcpA, rcpB}
  Wips = {w1, w2}
  Jobs = {j1, j2}
  Equipment = {e1}
  RequestOf <- MCRequestOf
  SampleOf <- MCSampleOf
  SeqNo <- MCSeqNo
  RecipeOf <- MCRecipeOf
  Capable <- MCCapable
  Workers = {k1}
  BrokerMayFail = TRUE
  ReportMayFail = TRUE
  PoolMayDie = TRUE
  Operations = {"receive_sample", "reject_sample", "lock_wip", "cancel_wip", "cancel_dispatch", "retry_dispatch", "cancel_request", "close_request"}
  ManualStatuses = {}
  MaxCalls = 0
  MaxOpening = 1
  MaxCrashes = 1
SYMMETRY Identifiers
CHECK_DEADLOCK FALSE
INVARIANTS
  EndedJobSettledItsBatch
  ClosedRequestIsDone
PROPERTIES
  ProgressNeverDrops
  ConfirmationIsFinal
