SPECIFICATION Spec
CONSTANTS
  Instances = {i1, i2}
  k1 = k1
  k2 = k2
  Keys = {k1, k2}
  NoKey = NoKey
  Generations = {1, 2}
  KeyOf <- FreshKeys
  MaxIndex = 1
  MaxEpoch = 1
  MaxWrites = 1
INVARIANTS NothingAcceptedTwice
