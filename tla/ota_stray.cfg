SPECIFICATION Spec
CONSTANTS
  NPages = 2
  MAX_RETRY = 3
  PROCESS_CONF_NUMEVENTS = 3
  Slots = {"low", "high"}
  Kinds = {"good"}
  MaxVersion = 2
  MaxReboots = 0
INVARIANT DeliveredToRunning
CHECK_DEADLOCK FALSE
