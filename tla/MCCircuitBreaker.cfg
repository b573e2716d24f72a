CONSTANTS
  Procs = {p1, p2}
  Threshold = 2
  Recovery = 1
  Window = 2
  Life = 2
  Levels <- AllLevels
  Decodings = {TRUE, FALSE}
  MaxFaults = 1
SPECIFICATION Spec
SYMMETRY ProcSymmetry
INVARIANTS TypeOK  OpenHasStamp ClosedIsClean
