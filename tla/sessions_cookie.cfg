CONSTANTS
  Tokens = {t1}
  Reqs = {r1}
  Null = Null
  TTL = 2
  MaxTime = 4
SPECIFICATION FairSpec
CHECK_DEADLOCK FALSE
INVARIANTS
  CookieLasts
