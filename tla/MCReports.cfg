CONSTANTS
  Clusters = {c}
  Week = 1
  Brands = {a, b}
  Requests = {r}
  Recipients = {m, n}
  LastDay = 1
  MaxScores = 2
  MaxFaults = 1
SPECIFICATION Spec
INVARIANTS BrandsIsolated 
CHECK_DEADLOCK FALSE
SYMMETRY Symmetry
