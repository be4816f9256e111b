CONSTANTS
  Keys = {1, 2}
  Values = {a, b}
  NoValue = NoValue
  MaxVersion = 3
  CacheSize = 2
  Readers = {r1, r2}
  Hazards = {"unsettled"}
SYMMETRY Symmetry
SPECIFICATION Spec
INVARIANT ReadsAreTrue
