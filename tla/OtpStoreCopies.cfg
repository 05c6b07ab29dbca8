SPECIFICATION Spec
CONSTANTS
  k1 = k1
  k2 = k2
  j1 = j1
  j2 = j2
  a1 = a1
  a2 = a2
  Keys = {k1, k2}
  Jobs = {j1, j2}
  JobOf <- TwoJobs
  Accounts = {a1, a2}
  AccountOf <- TwoNumbers
  Sms = {s1}
  Posts = {p1, p2}
  People = {}
  Askers = {}
  Typed = Typed
  None = None
  MaxResends = 0
  Patience = 0
  Budget = 1
  Reasons = {"closed"}
SYMMETRY Symmetry
INVARIANTS OneAnswer UsedIsAccounted RightAccount
PROPERTIES KeepsTheLedger
CHECK_DEADLOCK FALSE
