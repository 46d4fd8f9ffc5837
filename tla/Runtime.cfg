SPECIFICATION MCSpec
CONSTANTS
  Names = {"f", "g"}
  Promises = {"p"}
  Caps = {"c"}
  Written <- MCWritten
  MaxVersions = 3
  MaxTrials = 2
  MaxHistory = 3
  Arenas = {"left", "right"}
  Keys = {"k", "l"}
  ArenaBudget = 1
  Tensors <- MCTensors
  Directories = {"d"}
  Missing = Missing
  Rows = {1, 2, 3}
  CacheRows = 2
  Pieces = {1, 2, 4}
  WindowBudget = 3
  MaxPushes = 4
  GlobalNames = {"g"}
  Templates = {"T"}
  MaxMade = 2
  MaxIds = 3
  MaxMail = 1
  Disk <- MCDisk
  Sources <- MCSources
  MaxRuns = 2
  MaxEdits = 1
  Units = {"steps", "memory"}
  Requests = {0, 1, 3}
  Amounts = {2}
  TrialLimit = 2
  MaxDepth = 3
  MaxSteps = 4
  Nodes = {1, 2}
  Holders = {"x", "y", "t"}
  Locals = {"t"}
  MaxEvents = 2
INVARIANTS
  RecordsTell
  StoresKeepFaith
  NumbersAreOwn
  OneInstance
  LimitsFresh
  WithinBudget
  StampsInOrder
PROPERTIES
  OldestGoes
  DrainedAcrossRestores
  
  
  ExpressionsAgree
  
  
  StopsNotCaught
CHECK_DEADLOCK FALSE
