SPECIFICATION Spec
CONSTANTS
  Capabilities = {fs, http}
  Initial = {fs}
  Unlimited = Unlimited
  Uses = {0, 2}
  Spans = {0}
  MaxGrants = 4
  MaxDepth = 3
  MaxTime = 1
  MaxEntries = 3
INVARIANTS
  NoManufacture
  NoOveruse

  
CHECK_DEADLOCK FALSE
