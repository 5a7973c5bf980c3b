SPECIFICATION Spec
CONSTANTS
  BUFSIZE = 4
  RXBUFSIZE = 4
  PROCESS_CONF_NUMEVENTS = 3
  Burst = 3
  Others = 1
  MaxLines = 3
  MaxLen = 4
INVARIANTS WaitsForReaders
