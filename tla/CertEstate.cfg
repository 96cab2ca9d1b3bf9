SPECIFICATION EstateSpec
CONSTANTS
    a = a
    b = b
    h = h
    g = g
    z = z
    svc = svc
    prod = prod
    staging = staging
    dns = dns
    None = None
    Name = {a, b, g, h}
    Zone = {z}
    Service = {svc}
    Directory = {prod, staging}
    zoneOf <- MCzoneOf
    Apex = {}
    providerOf <- MCproviderOf
    owner <- MCowner
    RunDirectory = prod
    PreferWildcard = TRUE
    acmeLadder <- Ladder
    preflightLadder <- Ladder
    MaxFailures = 1
    RetryTime = 1
    HoldMargin = 0
    Job = {j1, j2}
    j1 = j1
    j2 = j2
    k1 = k1
    k2 = k2
    BatchSize = 2
    ARI = FALSE
    Conn = {k1, k2}
    MaxSANs = 2
    Setting <- MCSetting
    A = A
    B = B
    d1 = d1
    d2 = d2
    Id = {A, B}
    Domain = {d1, d2}
    names <- MCnames
    Ordered <- MCOrdered
    Legacy <- MCLegacy
    Traefik <- MCTraefik
    MaxStarts = 2
    MaxOffline = 2
CHECK_DEADLOCK FALSE
SYMMETRY Symmetry
INVARIANTS
  
  NoOrphanWaiter
  StateIsTrustworthy
  RestartServesSame
  RestoresWhole

  
