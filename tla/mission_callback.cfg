SPECIFICATION Spec
CONSTANTS
  WAYPOINT_NUM = 1
  IN_BOUNDS = 2
  OUT_OF_BOUNDS = 1
  BRAKE = 1
  TopicLen = 10
  MaxPending = 1
  Loss = FALSE
  Crashes = FALSE
INVARIANT CallbackReturns
CHECK_DEADLOCK FALSE
