SPECIFICATION Spec
CONSTANTS
  u1 = u1  a = a  b = b
  NULL = NULL
  Url = {u1}
  Version = {a, b}
  Clock = {1, 2, 3, 4}
  RecordClock = {4, 5}
  Captures <- SomeCaptures
  ReviewerActions = {"defer", "dismiss", "reopen"}
  MaxEvents = 6
INVARIANTS ReturnIsFlagged DecisionsAreInformed
PROPERTY ContinuationStaysResolved
CHECK_DEADLOCK FALSE
