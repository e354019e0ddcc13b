CONSTANTS
    Runs = {r1, r2}
    None = None
    MaxIds = 7
    MaxPipes = 3
    MaxTries = 1
    MaxEvents = 2
SPECIFICATION Spec
INVARIANT WaitersAreOwed RunsOnce RunningIsShown
CHECK_DEADLOCK FALSE
