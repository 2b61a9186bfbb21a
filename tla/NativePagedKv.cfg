CONSTANTS
  x1 = x1
  x2 = x2
  r1 = r1
  r2 = r2
  Layer = {x1}
  Row = {r1, r2}
  Junk = Junk
  MaxReads = 1
  PageTokens = 2
  MaxContext = 5
  NoTail = NoTail
  NoAppend = NoAppend
SPECIFICATION Spec
CHECK_DEADLOCK FALSE
INVARIANTS
  PublishedPagesAreQuiet
  ReadsFindTheirRows
PROPERTIES
  ImplementsLog
