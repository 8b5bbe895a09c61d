SPECIFICATION FairSpec
CONSTANTS
  Connections = {c1, c2}
  HighWater = 1
  MaxOffset = 4
PROPERTY DisconnectEndsHandler
CHECK_DEADLOCK FALSE
