SPECIFICATION FairSpec
CONSTANTS
  NPages = 2
  MAX_RETRY = 3
  PROCESS_CONF_NUMEVENTS = 3
  Slots = {"low", "high"}
  Kinds = {"good", "bad", "symbol", "nostart", "big"}
  MaxVersion = 1
  MaxReboots = 1
INVARIANTS TypeOK NothingStale LoadsCompleted RelocatedOnce SafeOtherwise DeliveredToRunning
PROPERTY UpdateTaken
CHECK_DEADLOCK FALSE
