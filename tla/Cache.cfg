SPECIFICATION Spec
CONSTANTS
    n1 = n1
    n2 = n2
    r1 = r1
    r2 = r2
    r3 = r3
    a = a
    b = b
    None = None
    Node = {n1, n2}
    Request = {r1, r2, r3}
    NodeOf <- MCNodeOf
    Value = {a, b}
    Field = {"lang"}
    MaxVariants = 1
    Threshold = 1
    MaxVersion = 1
    MaxNoCache = 1
    MaxEvents = 1
SYMMETRY MCSymmetry
CHECK_DEADLOCK FALSE
INVARIANTS
  RightVariant
  NoOrphanFollower
  LeaseExcludes
  PurgeHolds
