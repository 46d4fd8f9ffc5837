SPECIFICATION FairSpec
CONSTANTS
  Ledgers = {l1}
  Payloads = {p}
  MaxDepth = 3
  MaxEntries = 2
PROPERTY
  AllOrNone
CHECK_DEADLOCK FALSE
