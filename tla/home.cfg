\* All nodes, any of them or the server may be reset.
SPECIFICATION Spec
CONSTANTS
  Conns = {c1, c2, c3}
  None = None
  MaxEvents = 2
  Symbols = {"1"}
  Password <- Password1
  MaxInput = 1
  OtherTags = {}
  Sensors = {"ProximityNode", "TemHumLightNode"}
  Resets = {"RFIDNode", "KeypadNode", "ProximityNode", "Server"}
SYMMETRY ConnSymmetry
INVARIANTS
  Inv
PROPERTIES
  ImplementsAccessControl
  StatusNeverGoesBack
CHECK_DEADLOCK FALSE
