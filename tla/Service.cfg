SPECIFICATION Spec
CONSTANTS
  MaxQueued = 1
  MaxLostAnswers = 1
  LastPort = 2
  MaxRetries = 1
  SrtpPorts = {p1, p2}
  Busy = p1
  MaxSignals = 2
  MaxBytes = 2
INVARIANTS TypeOK BytesConserved ExitHoldsNothing
PROPERTIES NoFlapping ShutdownEnds
CHECK_DEADLOCK FALSE
