SPECIFICATION Spec
CONSTANTS
  r1 = r1
  r2 = r2
  n1 = n1
  n2 = n2
  q1 = q1
  q2 = q2
  o = o
  e1 = e1
  e2 = e2
  f = f
  v1 = v1
  v2 = v2
  NULL = NULL
  ResolutionRun = {r1, r2}
  IngestionRun = {n1, n2}
  SourceRecord = {q1, q2}
  Entity = {o, e1, e2, f}
  ClaimVersion = {v1, v2}
  CompletedAt <- Completions
  RecordRun <- RecordRuns
  ObservedAt <- Observations
  EntityKind <- Kinds
  EntityCreatedAt <- Creations
  ClaimSubject <- Subjects
  ClaimRecord <- ClaimRecords
  ClaimRun <- ClaimRuns
  ClaimRecordedAt <- ClaimClocks
  Candidate <- Proposals
  Date = {1, 2}
  Time = {0, 1, 2, 3, 4}
  StartTimes = {0, 1}
  RunTimes = {1, 2}
  DecisionTimes = {2}
  ValidPeriods <- Periods
INVARIANTS
  OneCanonical
  RestsOnKnown
PROPERTIES
  SealedOnce
  ImplementsIdentityHistory
CHECK_DEADLOCK FALSE
