SPECIFICATION Spec
CONSTANTS
  Descriptors <- ReadThenWrite
  Objects = {o1, o2}
  LastFrame = 5
  NoId = "none"
CHECK_DEADLOCK FALSE
INVARIANT UsesSeparated
