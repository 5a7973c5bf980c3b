SPECIFICATION Spec
CONSTANTS
  Gateway = g
  Sensors = {s1, s2}
  NoNode = none
  Links <- Mesh
  NPages = 2
  NPkt = 1
  MaxVersion = 1
  QueueBufs = 1
  MaxEvents = 2
  Garbles = FALSE
  Reboots = FALSE
INVARIANT NoWildRequest
