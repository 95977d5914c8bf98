SPECIFICATION Spec
CONSTANTS
  color = color
  depth = depth
  Slots = {color, depth}
  Swap <- SwapOf
  Viewed <- ViewedBy
  HostSwap = 2
  Sizes = {1, 2}
  Externals = {1, 2}
  MaxObjects = 2
  LastFrame = 5
  MaxCalls = 4
  OneThread = TRUE
INVARIANTS
  NothingInUseDropped
  CpuWaits
  DrawsOwnImages
  SizesFollow
CHECK_DEADLOCK FALSE
