CONSTANTS
  Texts = {a, b}
  Direct = {b}
  Refusable = {a}
  BatchLimit = 2
  BatchSize = 1
  Tries = 2
  MaxRetries = 1
  MaxFailures = 1
SPECIFICATION FairEmbeddingSpec
INVARIANTS  CostsLogged
 
