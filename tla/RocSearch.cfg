SPECIFICATION FairSpec
CONSTANTS
  RocMax = 6
  Window = 2
  FloorEvery = 3
  MinTrials = 4
INVARIANTS TypeOK  ClimbsAboveFloor LikelyCountersReturn
PROPERTIES EveryCounterReached
