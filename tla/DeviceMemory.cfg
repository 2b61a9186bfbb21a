CONSTANTS
  d1 = d1
  d2 = d2
  b1 = b1
  b2 = b2
  b3 = b3
  Device = {d1, d2}
  Allocation = {b1, b2, b3}
  Home <- Homes
SPECIFICATION MemorySpec
CHECK_DEADLOCK FALSE
INVARIANTS
  UploadsOwnBothEnds
  OneFreeAtHome
