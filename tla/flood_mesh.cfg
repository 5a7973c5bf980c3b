SPECIFICATION FairSpec
CONSTANTS
  Source = 1
  Relays = {2, 3, 4}
  Uavs = {5}
  Hears <- Ranges
  MAX_PACKAGE = 2
  Loss = TRUE
INVARIANTS TypeOK SentOnce
PROPERTY LastReaches
CHECK_DEADLOCK FALSE
