CONSTANTS
  Threads = {t1, t2, t3}
  MaxTickets = 6
SPECIFICATION FairSpec
INVARIANTS
  MutualExclusion
PROPERTIES
  NoOvertaking
  NoStarvation
  ImplementsFifoLock
CHECK_DEADLOCK FALSE
