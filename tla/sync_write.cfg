SPECIFICATION BufferedSpec
CONSTANTS
  Kinds = {"sync", "printer", "buffer"}
  TxRoom = 2
  SndBuf = 2
  Terminators = {2}
  Wanted = {2}
  Limits <- MCLimits
  MaxConnections = 2
CHECK_DEADLOCK FALSE
INVARIANT LongWritesAreKept
