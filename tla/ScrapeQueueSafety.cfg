SPECIFICATION Spec
CONSTANTS
  Workers = {w1, w2}
  Jobs = {j1}
  NoWorker = NoWorker
  NoJob = NoJob
  Concurrency = 1
  Cancellable = {j1}
  MaxRunning = 3
  MaxFaults = 2
  MaxFlushes = 0
SYMMETRY Symmetry
INVARIANT OneRunner
PROPERTIES NeverRerun OnlyOrphansAreClosed EndingsAreKept KeepsThePromise
CHECK_DEADLOCK FALSE
