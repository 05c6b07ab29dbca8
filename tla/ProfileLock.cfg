SPECIFICATION FairSpec
CONSTANTS
  j1 = j1
  j2 = j2
  j3 = j3
  p1 = p1
  p2 = p2
  Jobs = {j1, j2, j3}
  Processes = {p1, p2}
  HomeOf <- TwoHomes
  Accounts = {a1}
  None = None
  TTL = 2
  Interval = 1
  MaxOpens = 1
  MaxFaults = 2
  Faults = {"crash", "cut", "stall", "flush", "reply", "setup"}
INVARIANTS LeasesAreKept OnlyLapsesShare
PROPERTIES KeepsTheGuard EveryLockIsFreed
CHECK_DEADLOCK FALSE
