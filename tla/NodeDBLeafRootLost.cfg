CONSTANTS
  Keys = {1, 2, 3}
  Starts = {{}}
  MaxVersion = 4
  MaxChanges = 4
  Hazards = {"leafRoot"}
SPECIFICATION Spec
INVARIANT VersionsReadable
