SPECIFICATION Spec
CONSTANTS
  p1 = p1  p2 = p2  k1 = k1  k2 = k2
  NULL = NULL  Torn = Torn
  Poller = {p1}
  Key = {k1, k2}
  Catalog <- TwoTargets
  Interval = 2
  ExpiresAt = 2
  MaxTime = 2
  MaxJobs = 1
  MaxCrashes = 1
  MaxFailures = 1
  MaxDamages = 0
  MaxForces = 0
PROPERTY RecoveredByLaterInvocation
CHECK_DEADLOCK FALSE
