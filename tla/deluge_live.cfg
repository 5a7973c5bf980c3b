SPECIFICATION FairSpec
CONSTANTS
  Gateway = g
  Sensors = {s1}
  NoNode = none
  Links <- Mesh
  NPages = 2
  NPkt = 1
  MaxVersion = 1
  QueueBufs = 2
  MaxEvents = 2
  Garbles = FALSE
  Reboots = FALSE
PROPERTY Converges
