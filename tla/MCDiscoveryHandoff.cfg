SPECIFICATION HandoffSpec
CONSTANTS
  u1 = u1  meta1 = meta1  meta2 = meta2  text1 = text1  text2 = text2
  None = None
  Url = {u1}
  Meta = {meta1, meta2}
  Text = {text1, text2}
  Packets <- SomePackets
  Captures <- SomeCaptures
  ReviewerActions = {"acknowledge", "dismiss", "handoff", "reopen"}
  SourceActions = {"dismiss", "reopen"}
  MaxTime = 6
INVARIANTS DispositionMatchesReading LinkRestsOnOneHistory LinkHidesNoChange
PROPERTY LinksAreFinal
CHECK_DEADLOCK FALSE
