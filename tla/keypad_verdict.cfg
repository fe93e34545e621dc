\* A documented behaviour the code does not have.
SPECIFICATION Spec
CONSTANTS
  Conns = {c1, c2}
  None = None
  MaxEvents = 2
  Symbols = {"1"}
  Password <- Password1
  MaxInput = 1
  OtherTags = {}
  Sensors = {}
  Resets = {}
PROPERTY KeypadVerdictReachesRfid
CHECK_DEADLOCK FALSE
