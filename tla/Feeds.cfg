SPECIFICATION FairSpec
CONSTANTS
  Connections = {c1, c2}
  HighWater = 1
  MaxOffset = 4
INVARIANTS TypeOK StreamIsGapless
PROPERTIES ReadersGetEverything WritesEndDeadFeeds
CHECK_DEADLOCK FALSE
