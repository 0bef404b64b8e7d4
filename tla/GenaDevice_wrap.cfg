SPECIFICATION FairSpec
CONSTANTS
  s1 = s1
  w1 = w1
  w2 = w2
  r1 = r1
  Sids = {s1}
  Workers = {w1, w2}
  Receivers = {r1}
  NULL = NULL
  MaxJobs = 2
  MaxKey = 5
  Limits <- NoLimit
  Requests = {"subscribe"}
  MaxEvents = 7
  MaxDevices = 1
  MaxBacklog = 0
PROPERTIES EventsReachSubscribers
CHECK_DEADLOCK FALSE
