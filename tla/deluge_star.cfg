SPECIFICATION Spec
CONSTANTS
  Gateway = g
  Sensors = {s1, s2}
  NoNode = none
  Links <- Star
  NPages = 2
  NPkt = 1
  MaxVersion = 1
  QueueBufs = 1
  MaxEvents = 2
  Garbles = TRUE
  Reboots = FALSE
SYMMETRY SensorSymmetry
INVARIANTS NoStuckState ReportSound
VIEW ReportView
