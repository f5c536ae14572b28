SPECIFICATION FairSpec
CONSTANTS
  Users = {u1}
  DataCalls = {c1}
  None = None
  MaxTokens = 2
  MaxReloads = 1
  NetworkFails = TRUE
PROPERTY CallsEnd
CHECK_DEADLOCK FALSE
