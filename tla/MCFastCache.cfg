CONSTANTS
  Keys = {1, 2}
  Values = {a, b}
  NoValue = NoValue
  MaxVersion = 3
  CacheSize = 1
  Readers = {r1, r2}
  Hazards = {}
SYMMETRY Symmetry
SPECIFICATION Spec
INVARIANTS CacheIsIndex ReadsAreTrue
