SPECIFICATION Spec
CONSTANTS
  WAYPOINT_NUM = 5
  IN_BOUNDS = 2
  OUT_OF_BOUNDS = 1
  BRAKE = 1
  TopicLen = 10
  MaxPending = 3
  Loss = TRUE
  Crashes = TRUE
INVARIANTS TypeOK OneTurn
PROPERTIES KeepsSurvey ArrivesInBounds
CHECK_DEADLOCK FALSE
CONSTRAINT InScope
