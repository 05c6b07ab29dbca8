SPECIFICATION Spec
CONSTANTS
  r1 = r1
  r2 = r2
  Runs = {r1, r2}
  Listings = {l1, l2}
  None = None
  Targets <- OneOrDay
  Pool <- TwoAndOne
  MaxFaults = 1
SYMMETRY Alike
INVARIANTS EveryCandidateCounted NewIsCreated LeadsAgree SkipsAgree GapsAreListed
CHECK_DEADLOCK FALSE
