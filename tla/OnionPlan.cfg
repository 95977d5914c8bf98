SPECIFICATION Spec
CONSTANTS
  Descriptors <- Sound
  Objects = {o1, o2}
  LastFrame = 5
  NoId = "none"
CHECK_DEADLOCK FALSE
INVARIANTS LayoutsAgree UsesSeparated StepsHaveSwitches
