SPECIFICATION Spec
CONSTANTS
  Gateway = g
  Sensors = {s1, s2}
  NoNode = none
  Links <- Mesh
  NPages = 1
  NPkt = 1
  MaxVersion = 1
  QueueBufs = 2
  MaxEvents = 2
  Garbles = FALSE
  Reboots = FALSE
INVARIANT SentAsBuilt
