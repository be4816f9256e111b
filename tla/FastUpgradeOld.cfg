CONSTANTS
  Keys = {1}
  Values = {a, b}
  NoValue = NoValue
  MaxVersion = 3
  OldVersions = 2
  Hazards = {"upgradeOld"}
SPECIFICATION Spec
INVARIANT IndexIsLive
