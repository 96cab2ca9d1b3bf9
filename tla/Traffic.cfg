CONSTANTS
  r1 = r1
  r2 = r2
  Requests = {r1, r2}
  MaxPauses = 1
  Restarts = FALSE
  MaxLBs = 3
  Settings <- AllSettings
SPECIFICATION TrafficSpec
INVARIANTS
  DeployDrains
PROPERTIES
  DeployRefusesNothing
