CONSTANTS
  Sets     <- MCSets
  Tops     <- MCTops
  Groups   <- MCGroups
  Sub      <- MCSub
  Raid45   <- MCRaid45
  Raid0    <- MCRaid0
  Handled  <- MCHandled
  MaxCalls = 2
SPECIFICATION Spec
INVARIANTS TypeOK  MonitoredActive  ResumedAgain NoStrayTarget
PROPERTIES  CallsReturn
CHECK_DEADLOCK FALSE
