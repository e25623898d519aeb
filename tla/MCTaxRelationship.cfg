SPECIFICATION LinkSpec
CONSTANTS
  A = A
  B = B
  both = both
  second = second
  later = later
  other = other
  o1 = o1
  o2 = o2
  t1 = t1
  t2 = t2
  p1 = p1
  p2 = p2
  NULL = NULL
  Process = {p1, p2}
  Artifact = {A, B}
  Review = {both, second, later, other}
  TargetOf <- Targets
  ArtifactOf <- Artifacts
  OutcomeOf <- Outcomes
  ValidFromOf <- ValidFroms
  ReviewedAt <- ReviewTimes
  AcceptTimes = {1, 2, 5}
  RefreshTimes = {5}
  MaxCalls = 3
  Facility = o1
  NumberFrom = 0
  LinkDates = {0, 1}
  Cutoffs = {0, 4}
  NumberTimes = {5}
SYMMETRY ProcessSymmetry
INVARIANTS
  LatestReviewDecides
  ReplayVerifiesLater
  LatestLinkDecides
  LinkReplaysLater
PROPERTIES
  NeverFromStaleEvidence
  LinkRestsOnCurrent
CHECK_DEADLOCK FALSE
