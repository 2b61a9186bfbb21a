CONSTANTS
  Tokenizers <- MCTokenizers
  StopToken = "stop"
  Unspelled = "gap"
  MaxOutputTokens = 3
  OutputBytes = 20
SPECIFICATION GenerationSpec
CHECK_DEADLOCK FALSE
INVARIANTS
  PlannedStorageSuffices
  PublishesTheAnswer
