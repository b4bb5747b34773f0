CONSTANTS
  Thread <- Threads
  Caller <- PipeAndTick
  Slots = 2
  Address = {"x", "y"}
  Foreign = "foreign"
  Off = "off"
SPECIFICATION Spec
INVARIANT UnwatchRestores
