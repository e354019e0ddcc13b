SPECIFICATION FairSpec
CONSTANTS
  None = None
  Calls = {c1, c2, c3}
  PoolSize = 1
  Drops = {c1, c2, c3}
  EndsFail = TRUE
INVARIANTS
  HeldIsVisible
PROPERTIES
  StatementsJoin
  EndsOnlyWhenAsked
  CallsEnd
