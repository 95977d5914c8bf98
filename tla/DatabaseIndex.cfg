SPECIFICATION Spec
CONSTANTS
  Rows = {r1, r2, r3}
  Workers = {w1, w2}
  Main = Main
  None = None
  History = 1
  LastFrame = 2
  Top = 7
  JobsCreate = TRUE
  DestroyOthers = FALSE
SYMMETRY Symmetry
CHECK_DEADLOCK FALSE
INVARIANT IndexedWhenUpdated
