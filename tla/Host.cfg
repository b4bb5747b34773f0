CONSTANTS
  A = A
  B = B
  C = C
  Table <- Tables
  Links <- Chain
  Profiles <- TwoProfiles
  Direct = {A, C}
  Location = {1, 2}
  Nowhere = Nowhere
  MaxGeneration = 3
  Capacity = 3
  Type = {"a", "b"}
  MaxTypes = 1
  Period = 2
  MaxLimit = 2
  MaxCursor = 5
  MaxClock = 2
  EventName = {"game_ready", "tick"}
  CallbacksRegister = TRUE
  MaxCallbacks = 5
  Thread = {"v1", "tick", "render"}
  Caller = {"v1", "tick"}
  Foreign = "foreign"
  Slots = 2
  Address = {"x", "y"}
  Off = "off"
  GameThread = {"render", "audio"}
  MaxHits = 2
  MaxTraps = 4
  speed = speed
  note = note
  address = address
  yards = yards
  t1 = t1
  t2 = t2
  t3 = t3
  LuaTable = {t1, t2, t3}
  Name <- Names
  Barred = {address}
  NameBytes <- BytesOfNames
  IntegerKey = {1, 2, 3}
  OtherKey = OtherKey
  Scalar <- Scalars
  MaxDepth = 2
  MaxKeys = 2
  MaxEntries = 2
  MaxBytes = 18
  Heaps <- SomeHeaps
  MaxAssigns = 2
SPECIFICATION HostSpec
INVARIANTS ClosedUnderLinks PagesAreFaithful TicksCoalesced TrapsAreHandled OwnBreakpointsStay UndisturbedHitsAreWhole NothingMissed EmitsWhatIsAllowed
PROPERTIES HandlesNeverRetarget GrowsByWholeProfiles WritesLandInPlace HeldLoopsRunAll
