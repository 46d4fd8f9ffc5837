SPECIFICATION Spec
CONSTANTS
  Ledgers = {l1, l2}
  Payloads = {p, q}
  MaxDepth = 3
  MaxEntries = 2
INVARIANTS
  ChainsVerify
  MarksNest
PROPERTIES
  AbortRestores
  AbortKeepsOlder
CHECK_DEADLOCK FALSE
