CONSTANTS
  EventName = {"game_ready", "tick"}
  CallbacksRegister = TRUE
  MaxCallbacks = 5
SPECIFICATION Spec
PROPERTIES EveryCallbackRuns
