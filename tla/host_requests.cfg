SPECIFICATION Spec
CONSTANTS
  None = None
  Names = {n1, n2}
  Tasks = {t1, t2}
  Drivers = {d1, d2}
  QueryIds = {q1}
  HangUps = {t1, t2}
  UniqueIds = TRUE
SYMMETRY Symmetry
INVARIANTS
  RunningIsInFlight
  CancelsTellUnlessMidPoll
  ConnectedCanComplete
