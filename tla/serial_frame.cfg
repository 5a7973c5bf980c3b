SPECIFICATION Spec
CONSTANTS
  ByteXor <- MCXor
  Addrs <- MCAddrs
  Texts <- MCTexts
  RX_BUF_LEN = 20
  MaxItems = 6
  MaxLosses = 3
INVARIANTS TypeOK InBuffer Resyncs
PROPERTY KeepsLine
CHECK_DEADLOCK FALSE
