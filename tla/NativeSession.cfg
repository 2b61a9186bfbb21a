CONSTANTS
  t1 = t1
  t2 = t2
  Token = {t1, t2}
  Layers <- Hybrid
  MaxContext = 4
  MaxChunk = 2
  Junk = Junk
  NotYet = NotYet
  NoStep = NoStep
SPECIFICATION Spec
CHECK_DEADLOCK FALSE
INVARIANTS
  FreedOnlyWhenIdle
  StepBuffersAreOwned
PROPERTIES
  ImplementsTokenLog
