CONSTANTS
  r1 = r1
  r2 = r2
  Requests = {r1}
  MaxPauses = 1
  Restarts = TRUE
SPECIFICATION PauseSpec
INVARIANTS
  PausedCanBeReleased
