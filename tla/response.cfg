SPECIFICATION EventsSpec
CONSTANTS
  HeadLength = 3
  ContentLength = 4
  Placeholder <- MCPlaceholder
  NameLength = 2
  Values <- MCValues
  Texts <- MCTexts
  SndBuf = 6
  Before = 6
  ChunkHead = 1
  ChunkTail = 1
  Lengths = {0, 2, 3}
  MaxQueued = 2
  MaxPosted = 3
CHECK_DEADLOCK FALSE
INVARIANTS WholeUnlessMishap  OvertakenByShorterOnly
PROPERTIES ResponseEnds EventsAreSent
