SPECIFICATION Spec
CONSTANTS
  t1 = t1  t2 = t2  f1 = f1  f2 = f2  g1 = g1  g2 = g2
  NULL = NULL
  Award = {1, 2, 3}
  Text = {t1, t2}
  Feature = {f1, f2}
  Extracts <- ExtractsOf
  Date = {1, 2}
  Clock = {1, 2, 3}
  MaxRuns = 3
  Snapshots <- PageSnapshots
INVARIANTS ShownIsWhatRunsSaid ReimportIsQuiet ProgramsAreStable
CHECK_DEADLOCK FALSE
