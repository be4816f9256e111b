CONSTANTS
  MaxVersion = 4
  Nonces = {1, 2, 3}
SPECIFICATION Spec
INVARIANTS NothingLost NothingLeaked RootsMarkVersions
