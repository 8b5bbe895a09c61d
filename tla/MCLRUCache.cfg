SPECIFICATION FairSpec
CONSTANTS
  Keys = {k1, k2, k3}
  Values = {v1}
  Never = Never
  Miss = Miss
  MaxSize = 2
  SampleSize = 1
  MaxTime = 1
INVARIANTS TypeOK OrdersMatchMap
PROPERTIES WritesKeepCapacity LogicalReadsKeepKeys ExpiredIsReclaimed
