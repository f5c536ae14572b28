\* Bulk receipt: the web workers serve the calls at the same time.
SPECIFICATION IntakeSpec
CONSTANTS
  None = None
  r1 = r1
  r2 = r2
  a = a
  b = b
  Requests = {r1}
  Wafers = {a, b}
  RequestOf <- MCRequestOf
  MaxCalls = 2
  Teams = {{"laboratory"}}
  Opened = {r1}
  MaxMounts = 0
  MaxLosses = 0
INVARIANT
  ArrivedRequestIsReceived
CHECK_DEADLOCK FALSE
