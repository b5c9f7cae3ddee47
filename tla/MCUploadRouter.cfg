CONSTANTS
  s1 = s1
  s2 = s2
  Scopes <- MCScopes
  Templates <- MCTemplates
  TTL = 2
  MaxBytes = 2
  MaxBytesPerScope = 2
  Window = 1
  MaxKeys = 1
  PostAlertWindow = 1
  Lag = 1
  MaxTime = 2
  MaxEvents = 4
SPECIFICATION Spec
INVARIANTS
  BufferCustody
  AlertedScopeHoldsNoContext
  LocalOnlyStaysLocal
PROPERTIES
  RoutedOnce
  AlertBringsContext
  ImplementsEventRouter
CHECK_DEADLOCK FALSE
