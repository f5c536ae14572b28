\* One call at a time is in flight with the row it loaded while the others run.
SPECIFICATION Spec
CONSTANTS
  None = None
  r1 = r1
  s1 = s1
  s2 = s2
  x11 = x11
  x12 = x12
  x21 = x21
  rcpA = rcpA
  rcpB = rcpB
  Requests = {r1}
  Samples = {s1}
  Experiments = {x11, x12}
  Recipes = {rcpA, rcpB}
  Wips = {w1, w2}
  Jobs = {j1, j2}
  Equipment = {e1}
  RequestOf <- MCRequestOf
  SampleOf <- MCSampleOf
  SeqNo <- MCSeqNo
  RecipeOf <- MCRecipeOf
  Capable <- MCCapable
  Workers = {k1}
  BrokerMayFail = FALSE
  ReportMayFail = TRUE
  PoolMayDie = FALSE
  Operations = {"receive_sample", "lock_wip", "cancel_wip", "cancel_dispatch", "retry_dispatch"}
  ManualStatuses = {}
  MaxCalls = 1
  MaxOpening = 1
  MaxCrashes = 0
SYMMETRY Identifiers
CHECK_DEADLOCK FALSE
INVARIANTS
  ExperimentIntegrity
PROPERTIES
  OutcomeIsFinal
  KeepsLifecycle
  ConfirmationIsFinal
