SPECIFICATION FairSpec
CONSTANTS
  Schedules = {s1, s2}
  None = None
  Unborn = Unborn
  Gone = Gone
  Loops = {l1, l2}
  Clicks = {c1}
  Day = 2
  Horizon = 3
  MaxDoings = 1
  MaxFaults = 1
INVARIANTS OncePerOccurrence
PROPERTIES MissedFiresOnce DueIsFired
CHECK_DEADLOCK FALSE
