SPECIFICATION StorageSpec
CONSTANTS
  AU = 2
  MaxBlocks = 2
  Iterators = {i1}
  NONE = NONE
  TableRows = {r1, r2, r3, r4}
  Values = {1, 2, 3, 4}
  Batch = 2
  Callers = 1
  MaxCrashes = 1
  MaxNodes = 8
  FirstIndex = TRUE
SYMMETRY Symmetry
INVARIANTS RowsPartitioned PassesSound LookupsExact NodesAccounted
PROPERTY ImplementsRowFile
CHECK_DEADLOCK FALSE
