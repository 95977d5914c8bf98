SPECIFICATION RuntimeSpec
CONSTANTS
  Images = {i1, i2, i3}
  Answers = {"acquire out of date"}
  Threads = {a, b}
  Renderer = renderer
  Readers = {main}
  Tids = {t1, t2}
  RingFrames = 4
  maxContinuousSounds = 1
  DeviceFrames = 3
  MaxLength = 2
  MaxPushed = 2
  MaxAdds = 2
  EarlyDevice = FALSE
  Keys = {k}
  Buttons = {}
  Wheels = {w}
  Hats = {h}
  Asked = {k}
  maxFrameKeyboardBuffer = 4
  MaxEvents = 2
  MaxArrivals = 3
  typeCount = 2
  heapIndex <- HeapOf
  flags <- FlagsOf
  Flags = {"device", "host"}
  scoreByFlag <- Scores
  Budget <- Budgets
  Sizes = {1}
  Requests <- Requirements
  ObjectCount = 2
  Word = 4
  QueueCount = 2
  CommandCount = 2
  MaxSpawns = 3
SYMMETRY Symmetry
INVARIANTS SemaphoresIdle FramesPlayOnce SoundsListed FrameSummed MemoryAccounted CommandsGuarded HandshakeHolds
CHECK_DEADLOCK FALSE
