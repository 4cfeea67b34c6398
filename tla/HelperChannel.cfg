SPECIFICATION Spec
CONSTANTS
  MaxLine = 2
  Lengths = {2, 4}
  MaxSessions = 2
  MaxLines = 3
  MaxErrors = 1
INVARIANTS TypeOK FramesExact LateChunkCostsOneLine OneChildAtATime
PROPERTIES EndAlwaysReturns
CHECK_DEADLOCK FALSE
