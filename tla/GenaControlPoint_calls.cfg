SPECIFICATION Spec
CONSTANTS
  c1 = c1
  c2 = c2
  w1 = w1
  h1 = h1
  Callers = {c1, c2}
  Workers = {w1}
  Handlers = {h1}
  Nobody = Nobody
  Delays <- SoonOrLater
  MaxSids = 1
  MaxClients = 2
  MayFinish = TRUE
  MaxEventId = 2
  MaxTime = 1
  MaxJobs = 2
SYMMETRY CallerSymmetry
INVARIANTS RenewalPending EventOwnedOnce FirstEventNotLost QuietAfterShutdown WakesInTime CallsGoOn
CHECK_DEADLOCK FALSE
