CONSTANTS
  Keys = {1, 2, 3}
  Starts = {{1, 2}}
  MaxVersion = 4
  MaxChanges = 4
  Hazards = {}
SPECIFICATION SaveSplitSpec
INVARIANT VersionsFound
