CONSTANTS
  Heights <- NineNodes
  Old = {1, 3, 5, 7, 8, 9}
  ExportBuffer = 2
  MaxBatches = {2, 3}
  Hazards = {}
SPECIFICATION Spec
INVARIANT CommitFlushesEverything
