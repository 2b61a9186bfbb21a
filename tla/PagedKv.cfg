CONSTANTS
  x1 = x1
  x2 = x2
  r1 = r1
  r2 = r2
  Layer = {x1, x2}
  Row = {r1, r2}
  Zero = r1
  PageTokens = 2
  MaxContext = 5
  NoTail = NoTail
  NoAppend = NoAppend
SPECIFICATION Spec
CHECK_DEADLOCK FALSE
INVARIANTS
  BundlesHaveOnePlace
  RoomForEveryAppend
  VisibleRowsAreFilled
  DropRestoresLedger
PROPERTIES
  ImplementsLog
