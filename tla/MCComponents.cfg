CONSTANTS
  s1 = s1
  s2 = s2
  k1 = k1
  k2 = k2
  k3 = k3
  Scopes <- MCScopes
  TTL = 2
  MaxBytes = 5
  MaxBytesPerScope = 3
  Sizes = {1, 2, 4}
  Lag = 1
  MaxTime = 3
  MaxAdds = 4
  Keys <- MCKeys
  Window = 3
  MaxKeys = 2
  FlushLag = 1
  MaxTicks = 6
  Events <- MCEvents
  Files <- MCFiles
  Missing <- MCMissing
  Malformed <- MCMalformed
  Compiles <- MCCompiles
  Result <- MCResult
  MaxRules = 3
  MaxEdits = 2
  Telemetry <- Posted
  Batches <- MCBatches
  ServerScopes <- MCServerScopes
  TempPaths = {"/tmp/p"}
  Minute = 2
  CorrelationWindow = 5
  InvestigationWindow = 1
  MaxUptime = 3
SYMMETRY ScopeSymmetry
SPECIFICATION Spec
INVARIANTS
  Bookkeeping
  WithinLimits
  BoundedStaleness
  CountsConserved
  SummaryIdentitiesDistinct
  OneRuleSet
  FollowsFile
  LevelsTimely
  IncidentsJustified
PROPERTY
  FairEviction
CHECK_DEADLOCK FALSE
