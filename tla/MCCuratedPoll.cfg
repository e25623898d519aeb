SPECIFICATION Spec
CONSTANTS
  p1 = p1  p2 = p2  k1 = k1  k2 = k2
  NULL = NULL  Torn = Torn
  Poller = {p1, p2}
  Key = {k1}
  Catalog <- OneTarget
  Interval = 2
  ExpiresAt = 4
  MaxTime = 4
  MaxJobs = 2
  MaxCrashes = 1
  MaxFailures = 1
  MaxDamages = 1
  MaxForces = 1
INVARIANTS RecoverBeforeFetch Cadence ReceiptsAreTrue
 
CHECK_DEADLOCK FALSE
