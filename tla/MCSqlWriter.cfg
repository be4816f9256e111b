CONSTANTS
  Keys = {k1, k2}
  Interval = 2
  MaxVersion = 4
  MaxChanges = 1
  MaxEvents = 2
  Hazards = {}
SPECIFICATION Spec
INVARIANTS ReturnedVersionsLoadable WorkingTreeReadable BranchesAccountedFor
PROPERTIES ComesToRest
