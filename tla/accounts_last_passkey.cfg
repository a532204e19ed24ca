CONSTANTS
  Names = {a}
  UserIds = {u1}
  Invites = {i1}
  Creds = {c1, c2}
  Ceremonies = {x1, x2}
  Tokens = {t1}
  Reqs = {r1, r2}
  MaxCount = 0
  Null = Null
SPECIFICATION Spec
CHECK_DEADLOCK FALSE
INVARIANTS
  EveryAccountHasPasskey
