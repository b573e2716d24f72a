CONSTANTS
  Names = {acme}
  Emails = {x, y}
  BrandSlugs = {p, q}
  Tokens <- MCTokens
  Signups = {s1, s2}
  Wizards = {w1, w2}
  Tours = {t}
  Seeds = {d1, d2}
  NewKeys = {k}
  MaxSuffix = 1
  MaxFaults = 1
SPECIFICATION Spec
INVARIANTS TypeOK SignupWhole StateOfOneRun 
CHECK_DEADLOCK FALSE
SYMMETRY Symmetry
CONSTRAINT Unmixed
