SPECIFICATION Spec
CONSTANTS
  None = None
  q1 = q1
  q2 = q2
  Queries <- MCQueries
  Scripts <- MCScripts
  NFiles = 2
  MaxEpoch = 4
INVARIANTS
  NobodyWaitsForNothing
  SilencedStaySilent
  MigrationsStayOffTheGrid
  CarefulEditsHitTheirTable
PROPERTIES
  FilesRunInTurn
CHECK_DEADLOCK FALSE
