SPECIFICATION Spec
CONSTANTS
  Source = 1
  Relays = {2, 3, 4}
  Uavs = {5}
  Hears <- Ranges
  MAX_PACKAGE = 2
  Loss = FALSE
INVARIANT LogsTheMessage
CHECK_DEADLOCK FALSE
