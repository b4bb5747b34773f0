CONSTANTS
  Thread <- Everyone
  MaxJobs = 1
  MaxCalls <- TwoOfLegacy
SPECIFICATION Spec
INVARIANTS OneWriterAtATime LockOrder
PROPERTIES UnverifiedRollbackStopsGuardedWrites AllServed
