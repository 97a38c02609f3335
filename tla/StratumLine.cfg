CONSTANTS
  RBufSize = 4
  RecvSize = 3
  MaxLen = 2
  MaxLines = 2
  MaxShares = 2
  MaxReplies = 1
  MaxConn = 2
  MaxFail = 2
SPECIFICATION Spec
CHECK_DEADLOCK FALSE
INVARIANTS TypeOK LinesAreWhole TokenIsThere CopyInBounds ReadOnce SentIsUnderWay
PROPERTIES LineArrives
