SPECIFICATION Spec
CONSTANTS
  Principals = {alice, bob}
  Granted = {alice}
  Variables = {x, y}
  MaxDepth = 2
  MaxSteps = 4
INVARIANTS
  ReadersAgree
  BackingAgrees
  OnlyByAuthority
  ActsWithinBlocks
CHECK_DEADLOCK FALSE
