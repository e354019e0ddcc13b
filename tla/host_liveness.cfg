SPECIFICATION FairSpec
CONSTANTS
  None = None
  Names = {n1}
  Tasks = {t1, t2}
  Drivers = {d1}
  QueryIds = {q1}
  HangUps = {t1, t2}
  UniqueIds = TRUE
PROPERTIES
  CancelEndsTheWait
  UnusedConnectionsClose
