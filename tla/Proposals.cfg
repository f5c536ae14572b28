\* Overlapping chunks, a stale edit, and a confirmation that dispatches while machines come and go.
SPECIFICATION Spec
CONSTANTS
  None = None
  s1 = s1
  s2 = s2
  rA = rA
  e1 = e1
  e2 = e2
  Samples = {s1, s2}
  RecipeOf <- MCRecipeOf
  Rank <- MCRank
  RecipeOrder <- MCOneRecipe
  MaxBatchSize <- MCMaxBatchSize
  Equipment = {e1, e2}
  CodeOf <- MCCodeOf
  Capable <- MCCapable
  Capacity <- MCCapacity
  Proposals = {p1}
  MaxRows = 2
  MaxWips = 2
  MaxEdits = 1
  MaxCrashes = 1
CHECK_DEADLOCK FALSE
INVARIANTS
  WaferBatchedOnce
  ConfirmedProposalHasNoWafer
  LockedBatchIsFollowedUp
PROPERTY
  ConfirmTakesWhatIsReady
