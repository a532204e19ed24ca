CONSTANTS
  Keys = {k1, k2, k3}
  Null = Null
  Limit = 2
  Window = 2
  GcEvery = 2
  MaxKeys = 2
  MaxTime = 5
  MaxHits = 4
SPECIFICATION Spec
SYMMETRY Symmetry
CHECK_DEADLOCK FALSE
INVARIANTS
  Bounded
  TwoWindows
PROPERTIES
  RefusedOnlyWhenFull
  LiveWindowsKept
