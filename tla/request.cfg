SPECIFICATION ConnectionSpec
CONSTANTS
  Handlers <- MCHandlers
  CatchAll <- MCCatchAll
  Rewrites <- MCRewrites
  Files <- MCFiles
  MaxJson = 4
  Boundary <- MCBoundary
  ItemBuffer = 2
  Inputs <- MCInputs
  MaxPacket = 2
INVARIANTS ParsedAsSent RequestIsServed HandlersAreGuarded 
PROPERTY RequestEnds
CHECK_DEADLOCK FALSE
