SPECIFICATION Spec
CONSTANTS
  s1 = s1
  s2 = s2
  w1 = w1
  w2 = w2
  r1 = r1
  Sids = {s1, s2}
  Workers = {w1, w2}
  Receivers = {r1}
  NULL = NULL
  MaxJobs = 3
  MaxKey = 6
  Limits <- NoLimit
  Requests = {"subscribe", "unsubscribe"}
  MaxEvents = 4
  MaxDevices = 1
  MaxBacklog = 3
SYMMETRY Interchangeable
INVARIANTS TypeOK OneNotifyAtATime NodeStaysValid
PROPERTIES ImplementsEventFeed
CHECK_DEADLOCK FALSE
