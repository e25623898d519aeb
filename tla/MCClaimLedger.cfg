SPECIFICATION Spec
CONSTANTS
  e1 = e1  s1 = s1  s2 = s2  d1 = d1  r1 = r1  n1 = n1
  v1 = v1  v2 = v2  v3 = v3  c1 = c1  c2 = c2  c3 = c3
  NULL = NULL
  Document = {d1}
  Run = {n1}
  Record = {r1}
  Entity = {e1}
  Series = {s1, s2}
  RecordDocument <- OneRecordDocument
  RecordRun <- OneRecordRun
  Subject <- OneEntity
  SeriesKind <- TwoKinds
  Value = {v1, v2, v3}
  ValueKind <- ThreeValues
  Target <- LinkTarget
  UpperBound = {v3}
  ClaimId = {c1, c2, c3}
  Date = {1, 2}
  Time = {1, 2, 3}
  ArrivalTimes = {1, 2}
  Submission <- LedgerSubmission
SYMMETRY MilestoneSymmetry
INVARIANTS OneBelief NoFutureKnowledge WellFounded
PROPERTY PastIsStable ImplementsBeliefHistory
CHECK_DEADLOCK FALSE
