CONSTANTS
  r1 = r1
  r2 = r2
  a = a
  b = b
  c = c
  l1 = l1
  l2 = l2
  l3 = l3
  NoLB = NoLB
  Requests = {r1, r2}
  Containers = {a, b, c}
  RefSets <- MCRefSets
  MaxGeneration = 6
  LBs = {l1, l2, l3}
  FirstLB = l1
  ContainerOf <- MCContainerOf
  RolloutLBs = {l3}
  HooksMayLag = FALSE
  Worlds <- MCWorlds
  MaxRestarts = 1
SPECIFICATION SvcFairSpec
INVARIANTS
  PoolsMatchContainers
  AdmittedMeansServable
PROPERTIES
  FailedStopHeals
  ParkedIsReleased
  IdleServiceSleeps
