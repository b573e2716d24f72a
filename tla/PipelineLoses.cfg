CONSTANTS
  Texts = {t1}
  Brands = {acme, nobody}
  KnownBrands = {acme}
  Named <- MCNamed
  Suspicious = {t1}
  MaxEmits = 2
  MaxGen = 2
  MaxInFlight = 1
  MaxFaults = 0
SPECIFICATION Spec
INVARIANTS AtLeastOnce
