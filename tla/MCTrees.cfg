CONSTANTS
  Keys = {1, 2, 3, 4, 5}
  MaxVersion = 2
  MaxChanges = 2
  Bytes <- FewBytes
SPECIFICATION Spec
INVARIANTS IterationInOrder ProofsVerify ChangesReplay ImportRebuilds SnapshotsRestore
