SPECIFICATION FairSpec
CONSTANTS
  Sink = 16
  SENSOR_NUM = 3
  rout_list <- FirstColumns
  MaxPackets = 1
  Loss = TRUE
INVARIANTS TypeOK NoLoop OnePlace
PROPERTY Delivered
