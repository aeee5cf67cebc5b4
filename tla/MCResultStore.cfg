CONSTANTS
  d1 = d1
  d2 = d2
  d3 = d3
  Document = {d1, d2, d3}
  Result <- MCResult
  EngineItems <- MCItems
  EngineTokens <- MCTokens
  MaxBuckets = 2
  MaxHistory = 2
  MaxGeneration = 4
  MaxAccess = 3
SYMMETRY Symmetry
SPECIFICATION Spec
CHECK_DEADLOCK FALSE
INVARIANTS
  AnswersAreCurrent
  TokensAreDrawn
PROPERTIES
  AnswerIsKept
  ImplementsLeastRecentlyUsed
