CONSTANTS
  None = None
  a1 = a1
  a2 = a2
  a3 = a3
  a5 = a5
  a6 = a6
  a7 = a7
  p1 = p1
  n1 = n1
  n3 = n3
  n5 = n5
  n6 = n6
  n7 = n7
  Garbage = Garbage
  Overflow = Overflow
  Address <- MCAddress
  Trusted <- MCTrusted
  KeyOf <- MCKeyOf
  Service <- MCService
  Denied = {a3}
  Exempt = {a7}
  Key = {n1, n3, n5, n6, n7}
  Burst = 2
  Cost = 2
  Gain = 1
  MaxTracked = 1
  SweepInterval = 2
  LogBurst = 1
  LogInterval = 2
  ChainLimit = 2
  Window = {0, 2}
  MaxTime = 4
  s1 = s1
  s2 = s2
  stop = stop
  Savers = {s1, s2, stop}
  Shutdown = stop
  MaxChanges = 3
  WritesFail = TRUE
  IgnoreErrors = TRUE
  c1 = c1
  Client = {c1}
  Deployment <- MCDeployment
  SelectTime = 3
  WindowSeconds = 2
  Buckets = 2
  MaxSecond = 4
  MaxSeen = 3
  Option <- MCOption
  MaxBody = 4
  MaxChunk = 3
  h1 = h1
  h2 = h2
  wild = wild
  AnyHost = AnyHost
  v1 = v1
  v2 = v2
  v3 = v3
  Name = {v1, v2, v3}
  Host = {h1, h2, wild, AnyHost}
  Wildcard <- MCWildcard
  Path <- MCPath
  Options <- MCOptions
  gzip = gzip
  br = br
  odd = odd
  ae = ae
  star = star
  Identity = Identity
  AcceptEncoding = ae
  Everything = star
  Unkeyable = {"cookie"}
  Keyable = {gzip, br, Identity}
  MaxVaryFields = 2
  Second = 3
  Width = 32
  Setting <- MCSetting
  Exchange <- MCExchange
  r1 = r1
  r2 = r2
  Requests = {r1, r2}
  MaxPauses = 2
  Restarts = TRUE
SPECIFICATION PartsSpec
CHECK_DEADLOCK FALSE
INVARIANTS
  
  SavesAreDurable
  RotationFair
  SnapshotHonest
  BufferingInvisible
  OwnersAgree
  
  EncodingTransparent
PROPERTIES
  
  DeadlineEnds
  OthersKeepTheirs
  ReleasedByResume
