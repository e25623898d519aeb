SPECIFICATION Spec
CONSTANTS
  x1 = x1  x2 = x2  c1 = c1  c2 = c2  n1 = n1  n2 = n2
  NULL = NULL
  Site = {x1, x2}
  Code = {c1, c2}
  Text = {n1, n2}
  Controlled = n2
  Source = {"taiwan_mof"}
  Date = {1, 2}
  Clock = {1, 2}
  MaxRuns = 2
  Snapshots <- SnapshotsOf
INVARIANT EveryImportReplays
CHECK_DEADLOCK FALSE
