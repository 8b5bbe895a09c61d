SPECIFICATION Spec
CONSTANTS
  Nodes = {m, s}
  Primary = m
  Upstream <- Star
  Keys = {k1, k2}
  Values = {v1}
  Absent = Absent
  Never = Never
  MaxSize = 1
  SampleSize = 1
  TTLs = {1}
  TicksPerMs = 2
  WireCap = 1
  MaxOffset = 3
  MaxTime = 3
  MaxFaults = 1
INVARIANTS TypeOK StreamSpliced ConnectionsStartClean CatchesUp LagIsBacklog
PROPERTIES AppliesBatchesInTurn ShipsTheLog
CHECK_DEADLOCK FALSE
CONSTRAINT PromotedWriteOnce
SYMMETRY KeySymmetry
