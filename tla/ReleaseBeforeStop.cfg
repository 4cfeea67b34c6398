SPECIFICATION Spec
CONSTANTS
  Instances = {i1, i2}
  Me = i1
  NoOwner = NoOwner
  Procs = {p1, p2}
  NoProc = NoProc
  Threshold = 2
PROPERTIES OnlyHolderSends
