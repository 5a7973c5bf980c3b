SPECIFICATION Spec
CONSTANTS
  Gateway = g
  Sensors = {s1}
  NoNode = none
  Links <- Mesh
  NPages = 1
  NPkt = 2
  MaxVersion = 1
  QueueBufs = 2
  MaxEvents = 2
  Garbles = TRUE
  Reboots = FALSE
INVARIANT ImageIntegrity
