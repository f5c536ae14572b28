SPECIFICATION PagesSpec
CONSTANTS
  None = None
  Ids = {i1}
  MaxClicks = 6
  Keys = {k1, k2}
  LastVersion = 2
  MaxOpen = 2
  Rows = {x1, x2}
  MaxSends = 2
  MaxVisits = 2
INVARIANTS
  SettledPageIsAsked
  GuardedViewShowsItsKey
  GreyButtonWaits
  PressSendsOnce
PROPERTIES
  AppSettles
  PolledViewCatchesUp
CHECK_DEADLOCK FALSE
