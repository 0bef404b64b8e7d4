SPECIFICATION Spec
CONSTANTS
  s1 = s1
  s2 = s2
  w1 = w1
  r1 = r1
  Sids = {s1, s2}
  Workers = {w1}
  Receivers = {r1}
  NULL = NULL
  MaxJobs = 4
  MaxKey = 6
  Limits <- OneOrNoLimit
  Requests = {"subscribe", "renew", "unsubscribe"}
  MaxEvents = 3
  MaxDevices = 2
  MaxBacklog = 4
SYMMETRY Interchangeable
INVARIANTS SubscriptionsCounted DataFreedWithLastJob
CHECK_DEADLOCK FALSE
