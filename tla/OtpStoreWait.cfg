SPECIFICATION FairSpec
CONSTANTS
  k1 = k1
  k2 = k2
  j1 = j1
  j2 = j2
  a1 = a1
  a2 = a2
  Keys = {k1}
  Jobs = {j1}
  JobOf <- Single
  Accounts = {a1}
  AccountOf <- Alone
  Sms = {s1}
  Posts = {p1, p2}
  People = {p2}
  Askers = {x1}
  Typed = Typed
  None = None
  MaxResends = 1
  Patience = 1
  Budget = 1
  Reasons = {"closed", "dismissed", "switch", "stopped"}
INVARIANTS NoLostWakeup ResendOverrun
PROPERTIES EveryWaitEnds
CHECK_DEADLOCK FALSE
