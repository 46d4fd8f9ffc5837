SPECIFICATION FairSpec
CONSTANTS
  W = 2
  Sizes = {1, 3, 4}
  Threshold = 2
  Capacity = 3
  MaxJobs = 3
  MaxStops = 1
INVARIANTS
  
  NoSharedRow
  
  NoLostWakeup
PROPERTY
  MatmulReturns
CHECK_DEADLOCK FALSE
