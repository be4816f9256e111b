CONSTANTS
  Keys = {1, 2, 3, 4, 5, 6, 7, 8, 9, 10, 11, 12, 13}
  Values = {1, 2}
  Starts <- EmptyAndSparse
SPECIFICATION Spec
VIEW Tree
INVARIANTS LookupsAgree WellFormed
PROPERTY ImplementsMap
