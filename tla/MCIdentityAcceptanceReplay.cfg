SPECIFICATION Spec
CONSTANTS
  A = A
  B = B
  both = both
  second = second
  none = none
  later = later
  other = other
  drop = drop
  o1 = o1
  o2 = o2
  t1 = t1
  t2 = t2
  p1 = p1
  p2 = p2
  NULL = NULL
  Process = {p1, p2}
  Artifact = {A, B}
  Review = {both, second, none, later, other, drop}
  TargetOf <- Targets
  ArtifactOf <- Artifacts
  OutcomeOf <- Outcomes
  ValidFromOf <- ValidFroms
  ReviewedAt <- ReviewTimes
  AcceptTimes = {1, 2, 5}
  RefreshTimes = {2, 5}
  MaxCalls = 3
SYMMETRY ProcessSymmetry
INVARIANT EveryReplayVerifies
CHECK_DEADLOCK FALSE
