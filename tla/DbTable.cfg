SPECIFICATION Spec
CONSTANTS
  Threads = {t1, t2}
  RowIds = {r1, r2}
  LogCount = 3
  Values = {v1, v2}
  Deleted = Deleted
  NONE = NONE
  MinLogHistory = 1
  MaxFrame = 3
SYMMETRY Symmetry
INVARIANTS ChainsSound
PROPERTIES ImplementsLogTable LoadsAtomic
