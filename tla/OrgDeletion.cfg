CONSTANTS
  Names = {acme}
  Emails = {x}
  BrandSlugs = {p}
  Tokens = {}
  Signups = {s1}
  Wizards = {w1}
  Tours = {t}
  Seeds = {}
  NewKeys = {k}
  MaxSuffix = 0
  MaxFaults = 0
SPECIFICATION Spec
INVARIANT DeletionHonoured
CHECK_DEADLOCK FALSE
