SPECIFICATION FairSpec
CONSTANTS
  NPages = 2
  MAX_RETRY = 3
  PROCESS_CONF_NUMEVENTS = 3
  Slots = {"low", "high"}
  Kinds = {"good", "bad", "symbol", "nostart", "big"}
  MaxVersion = 2
  MaxReboots = 1
INVARIANTS TypeOK NothingStale LoadsCompleted RelocatedOnce SafeOtherwise
PROPERTY UpdateTaken
CHECK_DEADLOCK FALSE
