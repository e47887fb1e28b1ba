CONSTANTS
  N = 3
  HdrBytes = 2
  MaxLen = 2
  Vals = {1}
  Hole = Hole
  None = None
  r1 = r1
  r2 = r2
  Reqs <- MC_Reqs
  MaxFaults = 1
  MaxCrashes = 1
SYMMETRY MC_Symmetry
SPECIFICATION Spec
INVARIANTS BitImpliesData NoLostBit
