SPECIFICATION FairSpec
CONSTANTS
  Workers = {w1, w2}
  Jobs = {j1}
  NoWorker = NoWorker
  NoJob = NoJob
  Concurrency = 1
  Cancellable = {}
  MaxRunning = 3
  MaxFaults = 1
  MaxFlushes = 0
PROPERTIES EveryJobSettles
CHECK_DEADLOCK FALSE
