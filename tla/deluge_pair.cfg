SPECIFICATION Spec
CONSTANTS
  Gateway = g
  Sensors = {s1}
  NoNode = none
  Links <- Mesh
  NPages = 2
  NPkt = 2
  MaxVersion = 2
  QueueBufs = 2
  MaxEvents = 0
  Garbles = FALSE
  Reboots = TRUE
INVARIANTS PendingImageWhole TypeOK UpdateAtomic ImageIntegrity NoStuckState IndInv
PROPERTY KeepsTransfer
