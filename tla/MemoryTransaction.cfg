CONSTANTS
  AddressMax = 4
  Byte = {0, 1}
  ValidIds = {"tx"}
  NoAddress = NoAddress
  MaxOps = 3
  MaxOpBytes = 2
  MaxTotalBytes = 4
  Requests <- AllRequests
  GameCells = {1, 2, 4}
  InitialProts <- SomeReadOnly
  VolatileCells = {1, 3}
SPECIFICATION Spec
INVARIANTS TypeOK ReportMatchesCode NoResidue
PROPERTIES OnlyPreflightedWritesTouchMemory ImplementsAtomic EveryCallReturns
