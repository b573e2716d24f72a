CONSTANTS
  Jobs = {scan, first}
  WizardJobs = {first}
  ProbeJobs = {scan, first}
  NDeliveries = 4
  MaxRetries = 2
  MaxFaults = 2
SPECIFICATION FairSpec
INVARIANTS AttemptsBounded NotForgotten
PROPERTIES CompletedIsFinal ImplementsLifeCycle JobSettles
CHECK_DEADLOCK FALSE
