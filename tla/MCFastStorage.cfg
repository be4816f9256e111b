CONSTANTS
  Keys = {1, 2}
  Values = {a, b}
  NoValue = NoValue
  MaxVersion = 3
  OldVersions = 1
  Hazards = {}
SPECIFICATION Spec
SYMMETRY ValueSymmetry
INVARIANTS IndexIsLive ReadsAgree GetVersionedAgrees
