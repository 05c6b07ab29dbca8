SPECIFICATION Spec
CONSTANTS
  Workers = {w1, w2}
  Jobs = {j1, j2, j3, j4}
  NoWorker = NoWorker
  NoJob = NoJob
  Concurrency = 2
  Cancellable = {}
  MaxRunning = 3
  MaxFaults = 0
  MaxFlushes = 1
SYMMETRY Symmetry
CONSTRAINT RolloutOrOneJob
INVARIANTS CapOverrun DrainsOrphanNothing
PROPERTIES OwnOrphansUntouched
CHECK_DEADLOCK FALSE
