CONSTANTS
  r1 = r1
  r2 = r2
  a = a
  b = b
  Requests = {r1, r2}
  Containers = {a, b}
  RefSets <- MCRefSets
  MaxGeneration = 6
SPECIFICATION Spec
SYMMETRY RequestSymmetry
INVARIANTS
  IndInv
PROPERTIES
  SleepIsForCurrentContainers
