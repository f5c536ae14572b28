\* Two calls under way, served by any of the processes.
SPECIFICATION IntakeSpec
CONSTANTS
  None = None
  r1 = r1
  r2 = r2
  a = a
  b = b
  Requests = {r1, r2}
  Wafers = {a, b}
  RequestOf <- MCRequestOf
  MaxCalls = 2
  Teams = {{"author", "manager"}, {"owner", "manager"}, {"manager", "laboratory"}, {"owner", "laboratory"}, {"author", "laboratory"}}
  Opened = {r1}
  MaxMounts = 2
  MaxLosses = 1
INVARIANTS
  OneSubmissionPerForm
  WaferArrivesOnce
  ArrivalNeedsARace
  BusyPageAwaitsACall
PROPERTY
  RequestOnlyAdvances
CHECK_DEADLOCK FALSE
