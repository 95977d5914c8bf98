SPECIFICATION Spec
CONSTANTS
  Clients = {c1, c2}
  threadCount = 2
  jobQueueSize = 2
  JobCount = 4
INVARIANTS JobsAccounted WaitMeansDone
PROPERTIES RunningSlotKept EveryJobRuns
