SPECIFICATION FairSpec
CONSTANTS
  w1 = w1
  w2 = w2
  w3 = w3
  c1 = c1
  j1 = j1
  j2 = j2
  Workers = {w1, w2, w3}
  Clients = {c1}
  Jobs = {j1, j2}
  NULL = NULL
  InitAttr <- OneToTwo
  Attrs <- NoAttrs
  JobsMayAdd = FALSE
  JobsPerThread = 1
  MaxJobsTotal = 3
  StarvationTime = 1
  MaxIdleTime = 2
INVARIANTS OnePlacePerJob NothingOutlivesPool
PROPERTIES ImplementsJobPool JobsEnd ShutdownEnds
CHECK_DEADLOCK FALSE
