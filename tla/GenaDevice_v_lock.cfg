SPECIFICATION FairSpec
CONSTANTS
  s1 = s1
  s2 = s2
  w1 = w1
  r1 = r1
  Sids = {s1, s2}
  Workers = {w1}
  Receivers = {r1}
  NULL = NULL
  MaxJobs = 3
  MaxKey = 5
  Limits <- NoLimit
  Requests = {"subscribe", "renew", "unsubscribe"}
  MaxEvents = 2
  MaxDevices = 2
  MaxBacklog = 3
PROPERTIES CallsReturn
CHECK_DEADLOCK FALSE
