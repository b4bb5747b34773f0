SPECIFICATION Spec
CONSTANTS
  Records = 4
  ReadBatch = 3
  WriteBatch = 2
  Initial <- MCInitial
  GameStores <- MCStores
  MaxStores = 2
INVARIANT RolledBackMeansRestored
