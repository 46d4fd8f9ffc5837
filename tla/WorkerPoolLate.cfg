SPECIFICATION Spec
CONSTANTS
  W = 2
  Sizes = {2}
  Threshold = 1
  Capacity = 2
  MaxJobs = 2
  MaxStops = 0
INVARIANT
  SameResultsServedOnce
CHECK_DEADLOCK FALSE
