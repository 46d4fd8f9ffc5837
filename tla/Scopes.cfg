SPECIFICATION Spec
CONSTANTS
  Names = {"x", "y"}
  Named <- MCNamed
  Inner = {"g"}
  Makers = {"m"}
  RecordsInFrames = FALSE
  Params <- MCParams
  Declared <- MCDeclared
  LoopVars = {"x", "none"}
  Small = 2
  MaxScopes = 4
  MaxDepth = 3
  MaxClosures = 2
  MaxWrites = 3
  MaxEnvs = 4
  MaxCells = 3
VIEW MCView
INVARIANTS
  CachesFresh
  
PROPERTIES
  LexicalScoping
CHECK_DEADLOCK FALSE
