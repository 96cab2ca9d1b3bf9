CONSTANTS
  r1 = r1
  r2 = r2
  a = a
  b = b
  c = c
  l1 = l1
  l2 = l2
  l3 = l3
  NoLB = NoLB
  Requests = {r1}
  Containers = {a, b}
  RefSets <- MCRefSets
  MaxGeneration = 6
  LBs = {l1, l2}
  FirstLB = l1
  ContainerOf <- MCContainerOf
  RolloutLBs = {l2}
  HooksMayLag = FALSE
  Worlds <- Deploying
  MaxRestarts = 0
SPECIFICATION SvcSpec
INVARIANT NoStrandedPool
