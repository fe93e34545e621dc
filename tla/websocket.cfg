\* Two clients; messages of one or two frames, with short and long headers.
SPECIFICATION WebSocketSpec
CONSTANTS
  Clients = {w1, w2}
  SndBuf = 12
  ShortFrame = 3
  Lengths = {0, 6}
  ControlBytes = 1
  MaxQueued = 2
  MaxClients = 1
  Failures = {"refused"}
  MaxEvents = 2
  MaxControl = 2
CHECK_DEADLOCK FALSE
INVARIANTS MessagesAreWhole OneFrameInFlight 
PROPERTIES MessagesAreSent PeerCloseEnds
