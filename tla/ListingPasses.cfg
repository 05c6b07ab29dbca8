SPECIFICATION FairSpec
CONSTANTS
  Listings = {l1}
  Contents = {a, b}
  None = None
  Readers = {r1, r2}
  Matchers = {m1, m2}
  MaxAttempts = 2
  MaxDoings = 2
INVARIANTS FactsAreCurrent GivesUpOnContent
PROPERTIES VerdictsAreKept EveryChangeIsJudged
CHECK_DEADLOCK FALSE
