SPECIFICATION Spec
CONSTANTS
  Workers = {w1, w2}
  Jobs = {j1}
  NoWorker = NoWorker
  NoJob = NoJob
  Concurrency = 1
  Cancellable = {j1}
  MaxRunning = 3
  MaxFaults = 0
  MaxFlushes = 0
PROPERTY CancelledStaysDown
CHECK_DEADLOCK FALSE
