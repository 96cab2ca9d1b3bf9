SPECIFICATION Spec
CONSTANTS
    k1 = k1
    k2 = k2
    s1 = s1
    s2 = s2
    p1 = p1
    p2 = p2
    None = None
    Key = {k1, k2}
    Service <- MCService
    Size = {1, 2, 4}
    MaxBytes = 3
    Overhead = 1
    Proc = {p1, p2}
    MaxOps = 4
    MaxRestarts = 1
SYMMETRY MCSymmetry
CHECK_DEADLOCK FALSE
INVARIANTS
  BudgetKept
  NothingLeftBehind
PROPERTIES
  ImplementsLossyCache
