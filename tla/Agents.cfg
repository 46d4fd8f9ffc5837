SPECIFICATION MCSpec
CONSTANTS
  MaxAgents = 3
  MaxMail = 1
  MaxNested = 2
  Ceilings = {4}
  Hosts = {"here", "there"}
  Allowed = {"here"}
  MaxRequests = 3
INVARIANTS
  SettledMeansDrained
  
  OwnAnswer
PROPERTIES
  LoopEnds
  RequestReturns
  RoundRobin
CHECK_DEADLOCK FALSE
