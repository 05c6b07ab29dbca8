SPECIFICATION FairSpec
CONSTANTS
  Reminders = {r1, r2}
  Events = {e1}
  None = None
  InApp = {r2}
  Lead = 1
  LastTime = 1
  MaxRows = 2
  MaxDoings = 1
  MaxFaults = 1
INVARIANTS TextedOnce MovedIsOwed NoneIsSkipped
PROPERTIES EveryDueIsHandled
CHECK_DEADLOCK FALSE
