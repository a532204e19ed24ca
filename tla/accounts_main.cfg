CONSTANTS
  Names = {a, b}
  UserIds = {u1, u2}
  Invites = {i1, i2}
  Creds = {c1, c2}
  Ceremonies = {x1, x2}
  Tokens = {t1}
  Reqs = {r1, r2}
  MaxCount = 1
  Null = Null
SPECIFICATION Spec
SYMMETRY Symmetry
CHECK_DEADLOCK FALSE
INVARIANTS
  TypeOK
  UniqueNames
  HandleMatchesRow
  SingleUse
  CountNotAhead
PROPERTIES
  SessionNeedsCredential
  ImplementsMembership
