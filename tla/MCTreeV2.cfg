CONSTANTS
  Keys = {1, 2, 3, 4, 5}
  Interval = 3
  HeightFilter = 1
  EvictionDepth = 0
  First <- FourKeys
  MaxVersion = 4
  MaxCalls = 2
  Hazards = {}
SPECIFICATION MCSpec
INVARIANTS ReadsAgree SavedVersionsLoad BranchesExact SameHashAsV1
