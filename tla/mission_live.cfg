SPECIFICATION FairSpec
CONSTANTS
  WAYPOINT_NUM = 5
  IN_BOUNDS = 2
  OUT_OF_BOUNDS = 1
  BRAKE = 1
  TopicLen = 10
  MaxPending = 2
  Loss = FALSE
  Crashes = FALSE
PROPERTY AllPointsVisited
CHECK_DEADLOCK FALSE
