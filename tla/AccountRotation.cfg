SPECIFICATION Spec
CONSTANTS
  r1 = r1
  r2 = r2
  Runs = {r1, r2}
  n1 = n1
  n2 = n2
  n3 = n3
  Numbers = {n1, n2, n3}
  None = None
  Every <- Thresholded
  Pinnable = {r2}
  RestAfter = 2
  BackOff = 1
  Listings <- TwoAndOne
  MaxFailures = 1
  MaxDoings = 1
  Events = {"open", "restore", "recycle", "wish", "off", "on", "expire", "rested"}
INVARIANTS RightJar BilledRight RoundsEndSpent
PROPERTIES ChallengedIsSpent
SYMMETRY Alike
CHECK_DEADLOCK FALSE
