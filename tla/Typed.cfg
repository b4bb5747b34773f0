CONSTANTS
  ByteBits = 2
  RowBits = 4
  MaxRecordSize = 8
  MaxFields = 4
  MaxTables = 2
  MinRows = 2
  MaxRows = 3
  MinSelectedBits = 4
  MaxLinks = 2
  Bundles <- SomeBundles
  Builds = {"certified"}
  Memories <- SomeMemories
  Requests <- SomeRequests
  GameCells = {3, 6, 9, 10, 11, 16}
  MaxStores = 2
  MaxRequests = 1
  MaxOpBytes = 6
  MaxOps = 4
  MaxTotalBytes = 18
  A = A
  B = B
  DbTable = {A, B}
  Records = 3
  TableOf <- RecordTables
  Field = {"f", "g"}
  Direct = {A}
  Catalogs <- SomeCatalogs
  MaxGeneration = 2
  MaxChanges = 3
  StableBelow = 2
SPECIFICATION TypedSpec
INVARIANTS RequestIsWhole EvidenceHoldsAtCommit
PROPERTIES WritesWhatWasAsked OneAcceptedForm SubmitsWhatWasStaged RefusedChangeSubmitsNothing SubmitsCurrentChangesOnly
