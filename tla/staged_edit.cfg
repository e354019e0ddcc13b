SPECIFICATION EditSpec
CONSTANTS
  Calls = {mine, other, third}
  Mine = mine
  None = None
  PoolSize = 1
  Drops = {mine, other, third}
  EndsFail = TRUE
  Total = 2
  MaxApplies = 2
  Upsets = {"lost", "elsewhere", "misread"}
INVARIANTS
  EditIsAllOrNothing
