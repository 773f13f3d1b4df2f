SPECIFICATION Spec
CONSTANTS
  Files = {f1, f2, f3}
  Quota = 1
  AtOnce = 2
  MaxFaults = 1
SYMMETRY Interchangeable
INVARIANTS
  LibraryInv
  BucketsMatchRows
  OverrunIsBounded
PROPERTIES
  LastCopyIsKept
CHECK_DEADLOCK FALSE
