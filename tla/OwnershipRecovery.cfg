SPECIFICATION FairSpec
CONSTANTS
  Instances = {i1, i2}
  Me = i1
  NoOwner = NoOwner
  FaultSets = {{"silence", "slowFlush", "leaseFailure"},
               {"silence", "crash", "floorReset", "pipelineError"}}
  MaxFrames = 2
  MaxCommands = 1
  MaxTimers = 1
PROPERTIES EventuallyServes ShutdownFinishes LostWriterStops
