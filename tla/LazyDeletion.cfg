SPECIFICATION Spec
CONSTANTS
  Nodes = {m, s}
  Primary = m
  Upstream <- Star
  Absent = Absent
  Never = Never
  Values = {v1}
  MaxSize = 1
  SampleSize = 1
  TTLs = {1}
  TicksPerMs = 1
  WireCap = 1
  MaxOffset = 2
  MaxTime = 2
  MaxFaults = 1
  Keys = {k1, k2}
INVARIANTS DeletionsReachReplicas
CHECK_DEADLOCK FALSE
