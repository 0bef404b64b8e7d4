SPECIFICATION Spec
CONSTANTS
  w1 = w1
  w2 = w2
  c1 = c1
  j1 = j1
  j2 = j2
  j3 = j3
  Workers = {w1, w2}
  Clients = {c1}
  Jobs = {j1, j2, j3}
  NULL = NULL
  InitAttr <- OneToTwo
  Attrs <- OtherAttrs
  JobsMayAdd = TRUE
  JobsPerThread = 1
  MaxJobsTotal = 2
  StarvationTime = 1
  MaxIdleTime = 2
SYMMETRY Interchangeable
INVARIANTS TypeOK ThreadsCounted EverySignalCounts
PROPERTIES FifoWithinPriority
CHECK_DEADLOCK FALSE
