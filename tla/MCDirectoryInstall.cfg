SPECIFICATION DirectorySpec
CONSTANTS
  n1 = n1  n2 = n2
  NULL = NULL
  Note = {n1, n2}
  MaxReleases = 3
  MaxCrashes = 2
  MaxFailures = 1
  p1 = p1  p2 = p2
  Nil = Nil
  Process = {p1, p2}
  Jobs <- JobPairs
  LEIs = 2
  MaxAttempts = 2
  MaxCopies = 2
  MaxArchives = 1
  MaxFaults = 2
  MaxLosses = 1
INVARIANTS OutputIsWhole OnlyCrashesHide SnapshotsLast OfOneMoment FailureLeavesNothing
PROPERTIES ImplementsPublication AcquisitionEnds
CHECK_DEADLOCK FALSE
