SPECIFICATION Spec
CHECK_DEADLOCK FALSE
CONSTANTS
  FragmentCount = 3
  MaxTries = 4
  Miners = {m1, m2, m3, m4, m5}
  MaxIdle = 4
  MaxSegments = 2
SYMMETRY Symmetric
INVARIANTS
  NothingIsDropped
  LocksFit
  RefusedOnlyWhenFull
