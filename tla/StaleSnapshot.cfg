CONSTANTS
  s1 = s1
  s2 = s2
  stop = stop
  Savers = {s1, s2, stop}
  Shutdown = stop
  MaxChanges = 2
  WritesFail = FALSE
  IgnoreErrors = FALSE
SPECIFICATION Spec
INVARIANTS
  FlushedAtStop
