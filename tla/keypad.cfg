\* Three keys and a list of two; contacts bounce for as long as is allowed.
SPECIFICATION ScannerSpec
CONSTANTS
  NumKeys = 3
  ListMax = 2
  DebounceTime = 1
  HoldTime = 2
  BounceTime = 1
INVARIANT ListIsConsistent
PROPERTIES
  OneReportPerPress
  LoneKeyIsReported
