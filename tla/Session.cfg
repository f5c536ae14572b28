SPECIFICATION Spec
CONSTANTS
  Users = {u1, u2}
  DataCalls = {c1}
  None = None
  MaxTokens = 3
  MaxReloads = 1
  NetworkFails = TRUE
INVARIANTS
  SessionTypeOK
  RefreshIsShared
  ShownSessionIsUsable
SYMMETRY Accounts
CHECK_DEADLOCK FALSE
