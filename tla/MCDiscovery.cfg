SPECIFICATION FairSpec
CONSTANTS
  Nodes = {a, b}
  MaxStarts = 2
  MaxLapses = 1
INVARIANTS TypeOK RoutableHasAddress OwnLeaseHoldsKey WatchIsExact
PROPERTIES CrashedNodesLeave
CHECK_DEADLOCK FALSE
