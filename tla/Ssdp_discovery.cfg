SPECIFICATION FairSpec
CONSTANTS
  a1 = a1
  a2 = a2
  w = w
  Desc <- OneDevice
  Targets <- TwoTargets
  Foreign <- NoSearchAtAll
  Mxs = {1, 3}
  MIN_SEARCH_TIME = 2
  MAX_SEARCH_TIME = 4
  Apps = {a1}
  Workers = {w}
  Full = FALSE
  MaxSearches = 2
  MaxCalls = 3
  MaxTime = 3
  MaxFlight = 1
  Lossy = TRUE
  Prompt = TRUE
  NULL = NULL
INVARIANTS FoundInTime
PROPERTIES SilentWithoutDevice SearchEnds
CHECK_DEADLOCK FALSE
