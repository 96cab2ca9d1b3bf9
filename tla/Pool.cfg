CONSTANTS
  t1 = t1
  t2 = t2
  r1 = r1
  r2 = r2
  Targets = {t1, t2}
  Requests = {r1}
  MaxProbers = 3
  MaxFlips = 2
  Races = {}
SPECIFICATION Spec
SYMMETRY TargetSymmetry
INVARIANTS
  
  HealthyMeansAnswered
  
