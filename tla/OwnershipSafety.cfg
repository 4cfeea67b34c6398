SPECIFICATION Spec
CONSTANTS
  Instances = {i1, i2}
  Me = i1
  NoOwner = NoOwner
  FaultSets = {{"crash", "floorReset", "pipelineError", "slowFlush"},
               {"crash", "floorReset", "leaseFailure"},
               {"silence", "slowFlush", "pipelineError", "leaseFailure"}}
  MaxFrames = 3
  MaxCommands = 1
  MaxTimers = 2
INVARIANTS TypeOK LockMatchesState OrderlyWriterHoldsLock TerminatedHoldsNothing
PROPERTIES OneHelperAtATime LiveLeaseIsSafe ImplementsPromise
