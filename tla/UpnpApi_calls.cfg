SPECIFICATION FairSpec
CONSTANTS
  m = m
  o = o
  w = w
  c1 = c1
  r1 = r1
  Main = m
  Others = {o}
  DeviceThreads = {m}
  ClientThreads = {o}
  Workers = {w}
  NumHandle = 4
  MaxQueued = 1
  Calls = {c1}
  Requests = {r1}
  MaxAds = 1
  MaxInits = 2
  InOrder = TRUE
  NULL = NULL
INVARIANTS RegistrationMatchesTable TimerStaysEmpty QuietWhenDown
PROPERTIES MainReturns
CHECK_DEADLOCK FALSE
