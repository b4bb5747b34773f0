CONSTANTS
  Place <- TwoDynasties
  Chunks = 7
  Chunk = 8
  Unreadable <- SomeChunks
  Pointer = 2
  Signature = 4
  Recruits <- TwoRecruits
  Boards <- SomeBoards
  BoardSlots = 2
  Rows = 3
  MaxRequests = 2
  MaxMoves = 1
SPECIFICATION Spec
INVARIANT CallsAreUnambiguous
