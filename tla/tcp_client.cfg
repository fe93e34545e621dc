SPECIFICATION ClientSpec
CONSTANTS
  SndBuf = 3
  MaxWritten = 3
  MaxReceived = 3
CHECK_DEADLOCK FALSE
INVARIANTS FailedCloseIsReported  BytesAreAccounted
PROPERTY StoppedClientCloses
