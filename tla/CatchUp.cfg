SPECIFICATION FairSpec
CONSTANTS
  Nodes = {m, s}
  Primary = m
  Upstream <- Star
  Absent = Absent
  Never = Never
  Values = {v1}
  MaxSize = 1
  SampleSize = 1
  TTLs = {1}
  TicksPerMs = 1
  WireCap = 1
  MaxOffset = 2
  MaxTime = 2
  MaxFaults = 2
  Keys = {k1}
PROPERTIES ReplicasCatchUp PromotionCompletes MastersReclaim
CHECK_DEADLOCK FALSE
