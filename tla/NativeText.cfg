CONSTANTS
  Use = {u1, u2}
  Buffer = {b1, b2}
  MaxBatches = 2
  MaxFaults = 3
SYMMETRY Interchangeable
SPECIFICATION Spec
CHECK_DEADLOCK FALSE
INVARIANTS
  UploadsOutliveStreams
  NothingLeftBehind
  SettledCanClose
