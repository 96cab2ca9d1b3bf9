CONSTANTS
    e1 = e1
    e2 = e2
    e3 = e3
    s1 = s1
    s2 = s2
    Entry = {e1, e2, e3}
    Source = {s1, s2}
    Poller = {p1, p2}
    Admin = {a1}
    Other = other
    None = None
    MaxRevision = 2
    listOf <- MCListOf
    Setting <- MCSettings
SPECIFICATION Spec
INVARIANTS
  NoLateEffects
PROPERTIES
  Converges
  
