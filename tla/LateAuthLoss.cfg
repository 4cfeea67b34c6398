SPECIFICATION Spec
CONSTANTS
  Instances = {i1, i2}
  Me = i1
  NoOwner = NoOwner
  FaultSets = {{"silence"}}
  MaxFrames = 3
  MaxCommands = 1
  MaxTimers = 2
INVARIANTS WriterHoldsLock
