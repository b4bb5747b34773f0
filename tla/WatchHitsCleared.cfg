CONSTANTS
  Thread = {"render", "audio"}
  MaxHits = 2
  MaxTraps = 4
SPECIFICATION Spec
INVARIANTS HitsAreWhole
