CONSTANTS
  Tokens = {t1, t2}
  Reqs = {r1, r2}
  Null = Null
  TTL = 2
  MaxTime = 4
SPECIFICATION FairSpec
CHECK_DEADLOCK FALSE
PROPERTIES
  NoRevival
  ExpiredRemoved
