CONSTANTS
  Keys = {1, 2, 3, 4, 5}
  Starts = {{}, {1, 2}, {1, 2, 3}, {1, 2, 3, 4}}
  MaxVersion = 4
  MaxChanges = 2
  Hazards = {}
SPECIFICATION Spec
INVARIANTS VersionsReadable VersionsFound PruningExact
PROPERTIES ImplementsVersionedMap ImplementsPruning
