SPECIFICATION Spec
CONSTANTS
  Keys = {k1, k2, k3}
  Values = {v1}
  Never = Never
  Miss = Miss
  HEAD = HEAD
  TAIL = TAIL
  Null = Null
  MaxSize = 2
  SampleSize = 2
  MaxTime = 1
INVARIANTS TypeOK ListMatchesMap
PROPERTIES ImplementsLRU
SYMMETRY KeySymmetry
