CONSTANTS
  Keys = {1}
  Values = {a, b}
  NoValue = NoValue
  MaxVersion = 3
  OldVersions = 0
  Hazards = {"restamp"}
SPECIFICATION Spec
INVARIANT ReadsAgree
