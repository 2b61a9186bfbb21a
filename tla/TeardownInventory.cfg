CONSTANTS
  b1 = b1
  b2 = b2
  b3 = b3
  Buffer = {b1, b2, b3}
  Stream = Stream
  Size <- Sizes
  USizeMax = 4
  MaxFaults = 4
SPECIFICATION FairSpec
CHECK_DEADLOCK FALSE
INVARIANTS
  NothingFreedInUse
  EvidenceAccountsForAll
  OneDestructorCall
PROPERTIES
  TeardownSettles
