SPECIFICATION ClientSpec
CONSTANTS
  SndBuf = 1
  MaxWritten = 1
  MaxReceived = 1
CHECK_DEADLOCK FALSE
INVARIANT AbrtMeansAborted
