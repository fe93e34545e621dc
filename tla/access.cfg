\* Keypad, RFID node, server and web page; the fairness of the two loops.
SPECIFICATION FairSpec
CONSTANTS
  Conns = {c1, c2}
  None = None
  MaxEvents = 2
  Symbols = {"1", "2"}
  Password <- Password1
  MaxInput = 1
  OtherTags = {"00000000"}
  Sensors = {}
  Resets = {}
INVARIANTS
  TypeOK
  OpensOnlyWhenAuthorised
  ServerTalksToRfidOnly
PROPERTIES
  OpensOncePerEvent
  CardAnsweredOnItsConnection
  LoneGrantOpens
  RequestsAreSettled
  MessagesAreRead
  DoorIsClosed
CHECK_DEADLOCK FALSE
