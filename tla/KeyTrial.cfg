SPECIFICATION Spec
CONSTANTS
  SeqMod = 4
  MaxIndex = 8
  Gap = 1
  Late = 1
  Floors = {2}
INVARIANTS TrackerAgrees ReportedIsAuthentic AcceptedOnce
PROPERTIES RightKeyKept
