\* Each part may come to rest.
SPECIFICATION PartsSpec
CONSTANTS
  Convs = {1, 2}
  Owners = {1, 2}
  MaxChanges = 3
  MaxUpkeep = 1
  MaxQueries = 1
  ChunkRunes = 3
  ChunkOverlap = 1
  MaxChunks = 2
  BatchSize = 3
  PassLimit = 2
  HitLimit = 2
  Outputs = {"o1", "o2"}
  Sizes = {1, 3}
  Limit = 6
  Windows = {4, 5}
  DedupCap = 1
  MaxNodes = 8
  MaxSends = 2
  Sources = {"s1"}
  Uris = {"u1", "u2"}
  Contents = {"c1", "c2"}
  MaxResources = 1
  MaxLiveEdits = 2
  MaxPolls = 2
  Titles = {"t1"}
  MaxItems = 2
  MaxMutations = 4
  MaxToolsets = 2
  Reasons = {"r1", "r2"}
  RepetitionLimit = 3
  EvalTokens = 2
  EntrySizes = {1}
  MaxTurns = 3
  MaxRuns = 2
  MaxGoals = 2
  ReadTokens <- ReadOrder
  Readers = {"r1", "r2"}
  ShortReaders = {"r1"}
  ETagEntries = 1
  MaxFetches = 2
  MaxVersions = 1
  Tokens = {"a", "c"}
  WriteTokens <- WriteOrder
  MaxWrites = 2
  MaxEdits = 2
  ModelIds <- ListedIds
  Askers = {"r1", "r2"}
  PageSize = 1
  MaxPages = 2
  MaxReads = 2
CHECK_DEADLOCK FALSE
INVARIANTS
  CurrentMeansEqual
  
  HitsAreTheOwners
  MarkersResolve
  SummaryCoversWindow
  ToldWhatIsStored
  IdNamesOneTask
  AnswerIsWhole
  BranchIsReported
  

  
