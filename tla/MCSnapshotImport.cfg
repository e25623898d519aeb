SPECIFICATION Spec
CONSTANTS
  x1 = x1  x2 = x2  c1 = c1  c2 = c2  n1 = n1  n2 = n2
  NULL = NULL
  Site = {x1, x2}
  Code = {c1, c2}
  Text = {n1, n2}
  Controlled = n2
  Source = {"epa_frs", "moenv", "taiwan_factory", "taiwan_mof"}
  Date = {1, 2, 3}
  Clock = {1, 2, 3}
  MaxRuns = 3
  Snapshots <- SnapshotsOf
INVARIANTS
  ViewMatchesRuns ClassificationRestsOnView
  ReplayIsExact NeverBlocked
CHECK_DEADLOCK FALSE
