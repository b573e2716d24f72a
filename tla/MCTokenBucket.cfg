CONSTANTS
  NWorkers = 2
  Limit = 2
  Requests <- MCRequests
  Ticks = 2
  MaxBatches = 3
  MaxFaults = 1
SPECIFICATION FairSpec
INVARIANTS TypeOK WindowLimit Accounted ExpiryOutlivesUse NoImmortalKey 
PROPERTIES ImplementsLimiter EventuallyServed
