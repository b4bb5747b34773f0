CONSTANTS
  MaxCommands = 2
  MaxUpdates = 2
  AddressMax = 5
  Byte = {0, 1}
  PageSize = 2
  BytesPerChunk = 2
  PageBudget = 4
  ScanMatches = 2
  MinPattern = 2
  Patterns <- TwoPatterns
  RangeLists <- SomeRangeLists
  MaxRangeBytes = 2
  MaxBatchBytes = 4
  Layouts <- SomeLayouts
  GameCells = {3}
  VolatilePages = {1}
  Slots = 12
  Profile <- TwoTables
  Worlds <- SomeWorlds
  GameStores <- SomeStores
  MaxChanges = 2
  MaxMatches = 2
  Place <- TwoDynasties
  Chunks = 7
  Chunk = 8
  Unreadable = {{}, {2}, {5}}
  Pointer = 2
  Signature = 4
  Recruits = {"r1", "r2"}
  Boards <- SomeBoards
  BoardSlots = 2
  Rows = 3
  MaxRequests = 2
  MaxMoves = 1
  Calls = {1, 2}
  Pieces = 2
  Buffer = 1
  NoCall = 0
  Records = 4
  ReadBatch = 3
  WriteBatch = 2
  Initial <- SomeContents
  RecordStores <- SomeRecordStores
  MaxStores = 2
SPECIFICATION CommandsSpec
INVARIANTS CompleteScanFindsAll DiscoveryIsExact ResolvedTablesExisted FindsEachOnce AppliedIsWhole OutcomesAreTrue ReplacementIsAllOrNothing FailedInstallRestores
PROPERTIES EveryScanEnds PipeComesFree MmcNeverLost
