SPECIFICATION FairSpec
CONSTANTS
  a = a
  b = b
  r1 = r1
  r2 = r2
  NoTarget = NoTarget
  NoConfig = NoConfig
  Requests <- MCRequests
  Targets <- MCTargets
  Position <- MCPosition
  Configs <- MCConfigs
  PrimaryOf <- MCPrimaryOf
  FallbackOf <- MCFallbackOf
  ShareOf <- MCRaisedShareOf
  MaxShare = 80
  MaxReloads = 1
INVARIANTS
  TypeOK
  SharesBounded
PROPERTIES
  FailureDemotes
  ImplementsFailover
  HealthyTargetRegainsTraffic
