\* Outside the listed runs: the line without the exception.  One lost byte of a
\* report of the sensor 2.85 makes a report that was not sent.
SPECIFICATION Spec
CONSTANTS
  ByteXor <- MCXor
  Addrs <- MCAddrs
  Texts <- MCTexts
  RX_BUF_LEN = 20
  MaxItems = 3
  MaxLosses = 1
PROPERTY ToldAsSent
CHECK_DEADLOCK FALSE
